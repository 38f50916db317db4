-------------------------- MODULE Directory_proofs --------------------------
(* Theorems about module Directory, for any processes, sectors, names and     *)
(* path names.                                                                *)
EXTENDS Directory, FiniteSetTheorems, SequenceTheorems, WellFoundedInduction, TLAPS

---------------------------------------------------------------------------
(* The inductive invariant *)

(* The directories that have been made and not removed, and the one that ".."
   of a directory says. *)
LiveDirs == {d \in Live : disk[d].type = "DIR"}
Up(d)    == disk[d].ents[2].sector

(* What is in the slots of files and of directories. *)
Files == \A s \in Sectors : disk[s].type = "FILE" => disk[s].ents = <<>>

Slots ==
    \A d \in LiveDirs :
        /\ Len(disk[d].ents) >= 2
        /\ disk[d].ents[1] = Entry(".", d)
        /\ disk[d].ents[2].name = ".."
        /\ \A i \in ChildSlots(d) : disk[d].ents[i].name \in Names

(* Names are unique in a directory, an inode has one name, and ".." is the
   directory in which it has it. *)
Named ==
    /\ \A d \in Live : \A i \in ChildSlots(d) :
          /\ disk[d].ents[i].sector \in Live \ {ROOT}
          /\ \A j \in ChildSlots(d) : disk[d].ents[i].name = disk[d].ents[j].name => i = j
          /\ \A e \in Live : \A j \in ChildSlots(e) :
                disk[d].ents[i].sector = disk[e].ents[j].sector => d = e /\ i = j
    /\ ROOT \in LiveDirs /\ Up(ROOT) = ROOT
    /\ \A d \in LiveDirs : Up(d) \in LiveDirs
    /\ \A d \in LiveDirs \ {ROOT} : d \in Children(Up(d))

(* Whatever has the root in it, and with a directory what this names, has all
   that is live in it. *)
HoldsTree(S) == ROOT \in S /\ \A d \in S : Children(d) \subseteq S
Reached == \A S \in SUBSET Live : HoldsTree(S) => S = Live

(* What a sector is in use for. *)
Uses ==
    /\ removed \cup lost \subseteq used
    /\ removed \cap lost = {}
    /\ \A s \in removed : disk[s].type = "FILE"
    /\ \A s \in Sectors : open[s] > 0 => s \in Live \cup removed

(* Working directories, executables and descriptors. *)
Users ==
    \A p \in Procs :
        /\ ~proc[p].gone => proc[p].wd \in LiveDirs
        /\ proc[p].st \in {"none", "new"} => proc[p].exe = NODIR
        /\ proc[p].st = "none" => proc[p].fds = <<>>
        /\ proc[p].st = "load" => proc[p].exe \in Sectors
        /\ Len(proc[p].fds) <= MaxFds

IInv == TypeOK /\ Files /\ Slots /\ Named /\ Reached /\ Uses /\ Users /\ CountsExact

---------------------------------------------------------------------------
(* Least elements and recursion *)

(* < as a set of pairs, for the theorem on well-founded relations. *)
LEMMA LessIsARelation ==
    \A x, y \in Nat : x < y <=> <<x, y>> \in OpToRel(<, Nat)
BY DEF OpToRel

(* A nonempty set of naturals has a least element, which Min is. *)
LEMMA HasLeast ==
    ASSUME NEW T, T \subseteq Nat, T # {}
    PROVE  Min(T) \in T /\ \A y \in T : Min(T) <= y
<1>. DEFINE R == OpToRel(<, Nat)
<1>1. IsWellFoundedOn(R, Nat)
  BY NatLessThanWellFounded
<1>2. \A x, y \in Nat : x < y <=> <<x, y>> \in R
  BY LessIsARelation
<1>. HIDE DEF R
<1>3. PICK x \in T : \A y \in T : ~(<<y, x>> \in R)
  BY <1>1, WFMin
<1>4. \A y \in T : ~(y < x)
  BY <1>2, <1>3
<1>5. x \in Nat /\ \A y \in T : y \in Nat
  OBVIOUS
<1>6. \A y \in T : x <= y
  BY <1>4, <1>5
<1>. QED BY <1>6 DEF Min

(* If a set of naturals misses one, it misses one whose predecessor, if there
   is any, it has. *)
LEMMA FirstMissing ==
    ASSUME NEW T, NEW n \in Nat, n \notin T
    PROVE  \E k \in Nat : k \notin T /\ (k # 0 => k - 1 \in T) /\ k <= n
<1>. DEFINE M == Nat \ T
<1>1. M \subseteq Nat /\ M # {}
  OBVIOUS
<1>. DEFINE k == Min(M)
<1>2. k \in M /\ \A y \in M : k <= y
  BY <1>1, HasLeast
<1>3. k \in Nat /\ k \notin T /\ k <= n
  BY <1>2
<1>4. k # 0 => k - 1 \in T
  <2>. HIDE DEF k, M
  <2>1. ASSUME k # 0, k - 1 \notin T PROVE FALSE
    <3>1. k - 1 \in Nat
      BY <1>3, <2>1
    <3>2. k - 1 \in M
      BY <2>1, <3>1 DEF M
    <3>3. k <= k - 1
      BY <1>2, <3>2
    <3>. QED BY <1>3, <3>3
  <2>. QED BY <2>1
<1>. QED BY <1>3, <1>4

(* The functions with the values of a recursion up to n. *)
UpTo(n, S, a, F) ==
    {g \in [0 .. n -> S] : g[0] = a /\ \A k \in 1 .. n : g[k] = F[k][g[k - 1]]}

(* They exist, *)
LEMMA RecursionUpTo ==
    ASSUME NEW S, NEW a \in S, NEW F \in [Nat -> [S -> S]], NEW n \in Nat
    PROVE  UpTo(n, S, a, F) # {}
<1>. DEFINE T == {k \in Nat : UpTo(k, S, a, F) # {}}
<1>1. SUFFICES ASSUME n \notin T PROVE FALSE
  OBVIOUS
<1>2. PICK k \in Nat : k \notin T /\ (k # 0 => k - 1 \in T)
  <2>. HIDE DEF T
  <2>. QED BY <1>1, FirstMissing
<1>3. k # 0
  <2>1. [i \in 0 .. 0 |-> a] \in UpTo(0, S, a, F)
    BY DEF UpTo
  <2>. QED BY <1>2, <2>1
<1>4. PICK g : g \in UpTo(k - 1, S, a, F)
  BY <1>2, <1>3
<1>5. k - 1 \in Nat /\ g \in [0 .. k - 1 -> S] /\ g[0] = a
      /\ \A i \in 1 .. k - 1 : g[i] = F[i][g[i - 1]]
  BY <1>3, <1>4 DEF UpTo
<1>. DEFINE h == [i \in 0 .. k |-> IF i = k THEN F[k][g[k - 1]] ELSE g[i]]
<1>6. F[k][g[k - 1]] \in S
  <2>1. g[k - 1] \in S
    BY <1>5
  <2>2. F[k] \in [S -> S]
    OBVIOUS
  <2>. QED BY <2>1, <2>2
<1>7. \A i \in 0 .. k : i # k => i \in 0 .. k - 1
  BY <1>5
<1>8. h \in [0 .. k -> S]
  BY <1>5, <1>6, <1>7
<1>9. h[0] = a
  BY <1>3, <1>5
<1>10. \A i \in 1 .. k : h[i] = F[i][h[i - 1]]
  <2>. TAKE i \in 1 .. k
  <2>1. h[i - 1] = g[i - 1]
    BY <1>5
  <2>2. CASE i = k
    BY <2>1, <2>2
  <2>3. CASE i # k
    <3>1. i \in 1 .. k - 1
      BY <1>5, <2>3
    <3>2. h[i] = g[i]
      BY <2>3
    <3>. QED BY <1>5, <2>1, <3>1, <3>2
  <2>. QED BY <2>2, <2>3
<1>11. h \in UpTo(k, S, a, F)
  <2>. HIDE DEF h
  <2>. QED BY <1>8, <1>9, <1>10 DEF UpTo
<1>. QED BY <1>2, <1>11

(* and agree. *)
LEMMA RecursionAgrees ==
    ASSUME NEW S, NEW a \in S, NEW F \in [Nat -> [S -> S]], NEW m \in Nat, NEW n \in Nat,
           NEW g \in UpTo(m, S, a, F), NEW h \in UpTo(n, S, a, F),
           NEW i \in Nat, i <= m, i <= n
    PROVE  g[i] = h[i]
<1>. DEFINE T == {k \in Nat : k <= m /\ k <= n => g[k] = h[k]}
<1>1. SUFFICES ASSUME i \notin T PROVE FALSE
  OBVIOUS
<1>2. PICK k \in Nat : k \notin T /\ (k # 0 => k - 1 \in T)
  <2>. HIDE DEF T
  <2>. QED BY <1>1, FirstMissing
<1>3. k <= m /\ k <= n /\ g[k] # h[k]
  BY <1>2
<1>4. k # 0
  BY <1>3 DEF UpTo
<1>5. g[k - 1] = h[k - 1]
  BY <1>2, <1>3, <1>4
<1>6. k \in 1 .. m /\ k \in 1 .. n
  BY <1>3, <1>4
<1>7. g[k] = F[k][g[k - 1]] /\ h[k] = F[k][h[k - 1]]
  BY <1>6 DEF UpTo
<1>. QED BY <1>3, <1>5, <1>7

(* So a function that is defined by recursion over the naturals exists. *)
Recurs(f, a, F) == f[0] = a /\ \A k \in Nat : k # 0 => f[k] = F[k][f[k - 1]]

LEMMA Recursion ==
    ASSUME NEW S, NEW a \in S, NEW F \in [Nat -> [S -> S]]
    PROVE  \E f \in [Nat -> S] : Recurs(f, a, F)
<1>. DEFINE G == [k \in Nat |-> CHOOSE g \in UpTo(k, S, a, F) : TRUE]
            f == [k \in Nat |-> G[k][k]]
<1>1. \A k \in Nat : G[k] \in UpTo(k, S, a, F)
  BY RecursionUpTo
<1>2. f[0] = a
  BY <1>1 DEF UpTo
<1>3. \A k \in Nat : k # 0 => f[k] = F[k][f[k - 1]]
  <2>. SUFFICES ASSUME NEW k \in Nat, k # 0 PROVE f[k] = F[k][f[k - 1]]
    OBVIOUS
  <2>1. k - 1 \in Nat /\ k \in 1 .. k /\ k - 1 <= k /\ k - 1 <= k - 1
    OBVIOUS
  <2>2. G[k] \in UpTo(k, S, a, F) /\ G[k - 1] \in UpTo(k - 1, S, a, F)
    BY <1>1, <2>1
  <2>3. G[k][k] = F[k][G[k][k - 1]]
    <3>. HIDE DEF G
    <3>. QED BY <2>1, <2>2 DEF UpTo
  <2>4. G[k][k - 1] = G[k - 1][k - 1]
    <3>. HIDE DEF G
    <3>. QED BY <2>1, <2>2, RecursionAgrees
  <2>5. f[k] = G[k][k] /\ f[k - 1] = G[k - 1][k - 1]
    BY <2>1
  <2>. QED BY <2>3, <2>4, <2>5
<1>4. f \in [Nat -> S]
  <2>1. \A k \in Nat : G[k][k] \in S
    <3>1. \A k \in Nat : k \in 0 .. k
      OBVIOUS
    <3>. HIDE DEF G
    <3>. QED BY <1>1, <3>1 DEF UpTo
  <2>. QED BY <2>1
<1>. HIDE DEF f
<1>. QED BY <1>2, <1>3, <1>4 DEF Recurs

---------------------------------------------------------------------------
(* Directories *)

(* What a slot may hold. *)
Slot == [name : Names \cup {"", ".", ".."}, sector : Sectors \cup {0, -1}]

LEMMA InodeTypes ==
    ASSUME TypeOK, NEW s \in Sectors
    PROVE  /\ disk[s].type \in {"FILE", "DIR"}
           /\ disk[s].ents \in Seq(Slot)
           /\ Len(disk[s].ents) \in Nat
           /\ DOMAIN disk[s].ents = 1 .. Len(disk[s].ents)
           /\ \A i \in DOMAIN disk[s].ents :
                 /\ i \in Nat
                 /\ disk[s].ents[i].name \in Names \cup {"", ".", ".."}
                 /\ disk[s].ents[i].sector \in Sectors \cup {0, -1}
<1>1. disk[s] \in Inodes
  BY DEF TypeOK
<1>2. disk[s].type \in {"FILE", "DIR"} /\ disk[s].ents \in Seq(Slot)
  BY <1>1 DEF Inodes, Slot
<1>. DEFINE ents == disk[s].ents
<1>3. Len(ents) \in Nat /\ DOMAIN ents = 1 .. Len(ents) /\ \A i \in DOMAIN ents : ents[i] \in Slot
  BY <1>2
<1>4. \A x \in Slot : x.name \in Names \cup {"", ".", ".."} /\ x.sector \in Sectors \cup {0, -1}
  BY DEF Slot
<1>5. \A i \in DOMAIN ents : i \in Nat
  BY <1>3
<1>6. \A i \in DOMAIN ents : /\ ents[i].name \in Names \cup {"", ".", ".."}
                             /\ ents[i].sector \in Sectors \cup {0, -1}
  BY <1>3, <1>4
<1>. QED BY <1>2, <1>3, <1>5, <1>6

(* Sectors are numbers above the ones that stand for failures. *)
LEMMA SectorNumbers ==
    /\ NumSectors \in Nat /\ ROOT \in Sectors
    /\ NODIR \notin Sectors /\ FAILED \notin Sectors /\ CRASH \notin Sectors
    /\ NODIR # FAILED /\ NODIR # CRASH /\ FAILED # CRASH
    /\ \A s \in Sectors : s \in Nat /\ s > 0 /\ s <= NumSectors
    /\ \A x \in Sectors \cup {0, -1} : x > 0 <=> x \in Sectors
    /\ \A x \in Sectors \cup {NODIR, FAILED, CRASH} : x > 0 <=> x \in Sectors
<1>1. NumSectors \in Nat /\ NumSectors >= 2
  <2>1. NumSectors \in Nat \ {0, 1}
    BY DirectoryAssumption
  <2>. QED BY <2>1
<1>2. ROOT = 1 /\ NODIR = 0 /\ FAILED < 0 /\ CRASH < 0 /\ FAILED # CRASH /\ -1 < 0
  BY DEF ROOT, NODIR, FAILED, CRASH
<1>3. \A s : s \in Sectors <=> s \in Nat /\ s > 0 /\ s <= NumSectors
  BY <1>1 DEF Sectors
<1>4. ROOT \in Sectors
  BY <1>1, <1>2, <1>3
<1>5. NODIR \notin Sectors /\ FAILED \notin Sectors /\ CRASH \notin Sectors
  BY <1>2, <1>3
<1>6. NODIR # FAILED /\ NODIR # CRASH
  BY <1>2
<1>7. \A x \in Sectors \cup {0, -1} : x > 0 <=> x \in Sectors
  BY <1>2, <1>3
<1>8. \A x \in Sectors \cup {NODIR, FAILED, CRASH} : x > 0 <=> x \in Sectors
  BY <1>2, <1>3 DEF FAILED, CRASH
<1>. QED BY <1>1, <1>2, <1>3, <1>4, <1>5, <1>6, <1>7, <1>8

(* lookup finds nothing, or what is in the first slot with the name. *)
LEMMA Lookup ==
    ASSUME TypeOK, NEW d \in Sectors, NEW n
    PROVE  /\ SlotsOf(d, n) = {} => lookup(d, n) = NODIR
           /\ SlotsOf(d, n) # {} =>
                 /\ Min(SlotsOf(d, n)) \in SlotsOf(d, n)
                 /\ \A i \in SlotsOf(d, n) : Min(SlotsOf(d, n)) <= i
                 /\ lookup(d, n) = disk[d].ents[Min(SlotsOf(d, n))].sector
                 /\ lookup(d, n) \in Sectors
<1>1. SlotsOf(d, n) \subseteq Nat
  BY InodeTypes DEF SlotsOf
<1>2. SlotsOf(d, n) # {} =>
        /\ Min(SlotsOf(d, n)) \in SlotsOf(d, n)
        /\ \A i \in SlotsOf(d, n) : Min(SlotsOf(d, n)) <= i
  BY <1>1, HasLeast
<1>3. \A i \in SlotsOf(d, n) : disk[d].ents[i].sector \in Sectors
  BY InodeTypes, SectorNumbers DEF SlotsOf, InUse
<1>. QED BY <1>2, <1>3 DEF lookup

(* The slots of a directory that is live: ".", "..", and those of its names. *)
LEMMA SlotsOfDir ==
    ASSUME TypeOK, Slots, Named, NEW d \in LiveDirs
    PROVE  /\ SlotsOf(d, ".") = {1} /\ SlotsOf(d, "..") = {2}
           /\ \A n : n \notin {".", ".."} => SlotsOf(d, n) \subseteq ChildSlots(d)
           /\ \A i \in ChildSlots(d) : SlotsOf(d, disk[d].ents[i].name) = {i}
           /\ 1 \in DOMAIN disk[d].ents /\ 2 \in DOMAIN disk[d].ents
           /\ disk[d].ents[1].sector = d
<1>1. d \in Sectors /\ d \in Live
  BY DEF LiveDirs, Live, TypeOK
<1>2. /\ Len(disk[d].ents) \in Nat /\ Len(disk[d].ents) >= 2
      /\ DOMAIN disk[d].ents = 1 .. Len(disk[d].ents)
      /\ disk[d].ents[1].name = "." /\ disk[d].ents[1].sector = d
      /\ disk[d].ents[2].name = ".."
  <2>1. Len(disk[d].ents) \in Nat /\ DOMAIN disk[d].ents = 1 .. Len(disk[d].ents)
    BY <1>1, InodeTypes
  <2>2. /\ Len(disk[d].ents) >= 2 /\ disk[d].ents[1] = Entry(".", d)
        /\ disk[d].ents[2].name = ".."
    BY DEF Slots
  <2>. QED BY <2>1, <2>2 DEF Entry
<1>3. InUse(disk[d].ents[1]) /\ InUse(disk[d].ents[2])
  <2>1. Up(d) \in Sectors
    BY DEF Named, LiveDirs, Live, TypeOK
  <2>. QED BY <1>1, <1>2, <2>1, SectorNumbers DEF Up, InUse
<1>4. \A i \in DOMAIN disk[d].ents : i \notin {1, 2} /\ InUse(disk[d].ents[i]) => i \in ChildSlots(d)
  BY <1>2 DEF ChildSlots
<1>5. \A i \in ChildSlots(d) : /\ disk[d].ents[i].name \notin {"", ".", ".."}
                               /\ i \notin {1, 2} /\ i \in DOMAIN disk[d].ents
                               /\ InUse(disk[d].ents[i])
  <2>1. \A i \in ChildSlots(d) : disk[d].ents[i].name \in Names
    BY DEF Slots
  <2>2. \A i \in ChildSlots(d) : i \notin {1, 2} /\ i \in DOMAIN disk[d].ents
                                 /\ InUse(disk[d].ents[i])
    BY <1>2 DEF ChildSlots
  <2>. QED BY <2>1, <2>2, DirectoryAssumption
<1>6. SlotsOf(d, ".") = {1} /\ SlotsOf(d, "..") = {2}
  <2>1. 1 \in DOMAIN disk[d].ents /\ 2 \in DOMAIN disk[d].ents
    BY <1>2
  <2>2. 1 \in SlotsOf(d, ".") /\ 2 \in SlotsOf(d, "..") /\ 2 \notin SlotsOf(d, ".")
        /\ 1 \notin SlotsOf(d, "..")
    BY <1>2, <1>3, <2>1 DEF SlotsOf
  <2>3. \A i \in SlotsOf(d, ".") \cup SlotsOf(d, "..") : i \in {1, 2}
    BY <1>4, <1>5 DEF SlotsOf
  <2>. QED BY <2>2, <2>3
<1>7. \A n : n \notin {".", ".."} => SlotsOf(d, n) \subseteq ChildSlots(d)
  BY <1>2, <1>4 DEF SlotsOf
<1>8. \A i \in ChildSlots(d) : SlotsOf(d, disk[d].ents[i].name) = {i}
  <2>. TAKE i \in ChildSlots(d)
  <2>1. i \in SlotsOf(d, disk[d].ents[i].name)
    BY <1>5 DEF SlotsOf
  <2>2. ASSUME NEW j \in SlotsOf(d, disk[d].ents[i].name) PROVE j = i
    <3>1. disk[d].ents[j].name = disk[d].ents[i].name
      BY DEF SlotsOf
    <3>2. j \in ChildSlots(d)
      BY <1>5, <1>7
    <3>. QED BY <1>1, <3>1, <3>2 DEF Named
  <2>. QED BY <2>1, <2>2
<1>9. 1 \in DOMAIN disk[d].ents /\ 2 \in DOMAIN disk[d].ents
  BY <1>2
<1>. QED BY <1>2, <1>6, <1>7, <1>8, <1>9

(* Min of one number. *)
LEMMA MinOfOne ==
    ASSUME NEW i \in Nat
    PROVE  Min({i}) = i
BY DEF Min

(* What a name in a live directory leads to is live. *)
LEMMA LookupLive ==
    ASSUME TypeOK, Slots, Named, NEW d \in LiveDirs, NEW n
    PROVE  /\ lookup(d, n) \in Live \cup {NODIR}
           /\ lookup(d, ".") = d /\ lookup(d, "..") = Up(d)
           /\ n \notin {".", ".."} /\ lookup(d, n) # NODIR =>
                 /\ Min(SlotsOf(d, n)) \in ChildSlots(d)
                 /\ disk[d].ents[Min(SlotsOf(d, n))].name = n
                 /\ disk[d].ents[Min(SlotsOf(d, n))].sector = lookup(d, n)
<1>1. d \in Sectors /\ d \in Live
  BY DEF LiveDirs, Live, TypeOK
<1>2. lookup(d, ".") = d /\ lookup(d, "..") = Up(d)
  BY SlotsOfDir, MinOfOne DEF lookup, Up
<1>3. ASSUME n \notin {".", ".."}, lookup(d, n) # NODIR
      PROVE  /\ Min(SlotsOf(d, n)) \in ChildSlots(d)
             /\ disk[d].ents[Min(SlotsOf(d, n))].name = n
             /\ disk[d].ents[Min(SlotsOf(d, n))].sector = lookup(d, n)
             /\ lookup(d, n) \in Live
  <2>1. Min(SlotsOf(d, n)) \in SlotsOf(d, n)
        /\ lookup(d, n) = disk[d].ents[Min(SlotsOf(d, n))].sector
    BY <1>1, <1>3, Lookup
  <2>2. Min(SlotsOf(d, n)) \in ChildSlots(d)
    BY <1>3, <2>1, SlotsOfDir
  <2>3. disk[d].ents[Min(SlotsOf(d, n))].name = n
    BY <2>1 DEF SlotsOf
  <2>4. lookup(d, n) \in Live
    BY <1>1, <2>1, <2>2 DEF Named
  <2>. QED BY <2>1, <2>2, <2>3, <2>4
<1>4. Up(d) \in Live
  BY DEF Named, LiveDirs
<1>. QED BY <1>1, <1>2, <1>3, <1>4

(* One turn of the walk along a path stays in live directories, *)
Walked == LiveDirs \cup {NODIR, FAILED, CRASH}

LEMMA WalkStays ==
    ASSUME TypeOK, Slots, Named, NEW d \in Walked, NEW n
    PROVE  Walk(d, n) \in Walked
<1>1. CASE d \in {FAILED, CRASH}
  BY <1>1 DEF Walk, Walked
<1>2. CASE d = NODIR
  BY <1>2, SectorNumbers DEF Walk, Walked
<1>3. CASE d \in LiveDirs
  <2>1. d \in Sectors
    BY <1>3 DEF LiveDirs, Live, TypeOK
  <2>2. d \notin {FAILED, CRASH} /\ d # NODIR /\ d > 0
    BY <2>1, SectorNumbers
  <2>3. Walk(d, n) = IF lookup(d, n) = NODIR THEN FAILED
                     ELSE IF disk[lookup(d, n)].type = "DIR" THEN lookup(d, n) ELSE NODIR
    BY <2>2 DEF Walk
  <2>4. lookup(d, n) \in Live \cup {NODIR}
    BY <1>3, LookupLive
  <2>. QED BY <2>3, <2>4 DEF Walked, LiveDirs
<1>. QED BY <1>1, <1>2, <1>3 DEF Walked

(* and so does all of it: the directory a path leads to is live, *)
LEMMA PathLeadsToDir ==
    ASSUME TypeOK, Slots, Named, NEW p, NEW path, StartOf(p, path) \in LiveDirs,
           path.parts # <<>> => Len(path.parts) - 1 \in Nat
    PROVE  resolve_name_to_entry(p, path) \in Walked
<1>. DEFINE a == StartOf(p, path)
            F == [k \in Nat |-> [d \in Walked |-> Walk(d, path.parts[k])]]
            n == IF path.parts = <<>> THEN 0 ELSE Len(path.parts) - 1
            Def(f) == f = [k \in Nat |-> IF k = 0 THEN a ELSE Walk(f[k - 1], path.parts[k])]
            after  == CHOOSE f : Def(f)
<1>1. a \in Walked /\ n \in Nat
  BY DEF Walked
<1>2. F \in [Nat -> [Walked -> Walked]]
  BY WalkStays
<1>3. PICK f \in [Nat -> Walked] : Recurs(f, a, F)
  <2>. HIDE DEF a, F
  <2>. QED BY <1>1, <1>2, Recursion
<1>4. Def(f)
  <2>1. \A k \in Nat : k # 0 => F[k][f[k - 1]] = Walk(f[k - 1], path.parts[k])
    <3>1. \A k \in Nat : k # 0 => k - 1 \in Nat
      OBVIOUS
    <3>. QED BY <3>1
  <2>2. \A k \in Nat : f[k] = IF k = 0 THEN a ELSE Walk(f[k - 1], path.parts[k])
    <3>. HIDE DEF a, F
    <3>. QED BY <1>3, <2>1 DEF Recurs
  <2>3. f = [k \in Nat |-> f[k]]
    OBVIOUS
  <2>. HIDE DEF a, F
  <2>. QED BY <2>2, <2>3
<1>5. Def(after)
  <2>. HIDE DEF Def
  <2>. QED BY <1>4
<1>6. \A k \in Nat : after[k] = IF k = 0 THEN a ELSE Walk(after[k - 1], path.parts[k])
  <2>. HIDE DEF a, after
  <2>. QED BY <1>5
<1>. DEFINE T == {k \in Nat : after[k] \in Walked}
<1>7. n \in T
  <2>1. SUFFICES ASSUME n \notin T PROVE FALSE
    OBVIOUS
  <2>2. PICK k \in Nat : k \notin T /\ (k # 0 => k - 1 \in T)
    <3>. HIDE DEF T, after
    <3>. QED BY <1>1, <2>1, FirstMissing
  <2>. HIDE DEF a, after, Def
  <2>3. k # 0
    BY <1>1, <1>6, <2>2
  <2>4. after[k] = Walk(after[k - 1], path.parts[k]) /\ after[k - 1] \in Walked
    BY <1>6, <2>2, <2>3
  <2>5. after[k] \in Walked
    BY <2>4, WalkStays
  <2>. QED BY <2>2, <2>5
<1>8. after[n] \in Walked
  BY <1>7
<1>. QED BY <1>8 DEF resolve_name_to_entry

(* The tree, which is what can be reached from the root in as many steps as
   there are sectors, is what is live: it grows at every level until it has all
   of it. *)
Grown(b) == b \cup UNION {Children(d) : d \in b}

LEMMA TreeIsLive ==
    ASSUME TypeOK, Named, Reached
    PROVE  Tree = Live
<1>. DEFINE F == [k \in Nat |-> [b \in SUBSET Live |-> Grown(b)]]
            Def(f) == f = [k \in Nat |-> IF k = 0 THEN {ROOT}
                                         ELSE LET b == f[k - 1]
                                              IN  b \cup UNION {Children(d) : d \in b}]
            below == CHOOSE f : Def(f)
<1>1. {ROOT} \in SUBSET Live
  BY DEF Named, LiveDirs
<1>2. \A b \in SUBSET Live : Grown(b) \in SUBSET Live
  <2>1. \A d \in Live : Children(d) \subseteq Live
    BY DEF Named, Children
  <2>. QED BY <2>1 DEF Grown
<1>3. F \in [Nat -> [SUBSET Live -> SUBSET Live]]
  BY <1>2
<1>4. PICK f \in [Nat -> SUBSET Live] : Recurs(f, {ROOT}, F)
  <2>. HIDE DEF F
  <2>. QED BY <1>1, <1>3, Recursion
<1>5. Def(f)
  <2>1. \A k \in Nat : k # 0 => F[k][f[k - 1]] = Grown(f[k - 1])
    <3>1. \A k \in Nat : k # 0 => k - 1 \in Nat
      OBVIOUS
    <3>. QED BY <3>1
  <2>2. \A k \in Nat : f[k] = IF k = 0 THEN {ROOT} ELSE Grown(f[k - 1])
    <3>. HIDE DEF F
    <3>. QED BY <1>4, <2>1 DEF Recurs
  <2>3. f = [k \in Nat |-> f[k]]
    OBVIOUS
  <2>4. f = [k \in Nat |-> IF k = 0 THEN {ROOT} ELSE Grown(f[k - 1])]
    <3>. HIDE DEF F
    <3>. QED BY <2>2, <2>3
  <2>. QED BY <2>4 DEF Grown
<1>6. Def(below)
  <2>. HIDE DEF Def
  <2>. QED BY <1>5
<1>7. \A k \in Nat : below[k] = IF k = 0 THEN {ROOT} ELSE Grown(below[k - 1])
  <2>. HIDE DEF below
  <2>. QED BY <1>6 DEF Grown
<1>8. Tree = below[NumSectors]
  BY DEF Tree
<1>. HIDE DEF below, Def, F
<1>9. IsFiniteSet(Live) /\ \A b \in SUBSET Live : /\ IsFiniteSet(b)
                                                  /\ Cardinality(b) \in Nat
                                                  /\ Cardinality(b) <= NumSectors
  <2>1. IsFiniteSet(Sectors) /\ Cardinality(Sectors) = NumSectors
    BY SectorNumbers, FS_Interval DEF Sectors
  <2>2. \A b \in SUBSET Live : b \in SUBSET Sectors
    BY DEF Live, TypeOK
  <2>. QED BY <2>1, <2>2, FS_Subset, FS_CardinalityType
<1>. DEFINE T == {k \in Nat : /\ below[k] \in SUBSET Live /\ ROOT \in below[k]
                              /\ below[k] # Live => Cardinality(below[k]) > k}
<1>10. NumSectors \in T
  <2>1. SUFFICES ASSUME NumSectors \notin T PROVE FALSE
    OBVIOUS
  <2>2. PICK k \in Nat : k \notin T /\ (k # 0 => k - 1 \in T)
    <3>. HIDE DEF T
    <3>. QED BY <2>1, FirstMissing, SectorNumbers
  <2>3. CASE k = 0
    <3>1. below[k] = {ROOT}
      BY <1>7, <2>3
    <3>2. Cardinality({ROOT}) = 1
      BY FS_Singleton
    <3>. QED BY <1>1, <2>2, <2>3, <3>1, <3>2
  <2>4. CASE k # 0
    <3>. DEFINE b == below[k - 1]
    <3>1. /\ k - 1 \in Nat /\ b \in SUBSET Live /\ ROOT \in b
          /\ b # Live => Cardinality(b) > k - 1
      BY <2>2, <2>4
    <3>2. below[k] = Grown(b)
      BY <1>7, <2>4
    <3>. HIDE DEF b
    <3>3. Grown(b) \in SUBSET Live /\ ROOT \in Grown(b) /\ b \subseteq Grown(b)
      BY <1>2, <3>1 DEF Grown
    <3>4. CASE b = Live
      BY <2>2, <3>2, <3>3, <3>4
    <3>5. CASE b # Live
      <4>1. Grown(b) # b
        <5>1. SUFFICES ASSUME Grown(b) = b PROVE FALSE
          OBVIOUS
        <5>2. HoldsTree(b)
          BY <3>1, <5>1 DEF HoldsTree, Grown
        <5>. QED BY <3>1, <3>5, <5>2 DEF Reached
      <4>2. Cardinality(b) <= Cardinality(Grown(b)) /\ Cardinality(Grown(b)) # Cardinality(b)
        BY <1>9, <3>1, <3>3, <4>1, FS_Subset
      <4>3. Cardinality(b) \in Nat /\ Cardinality(Grown(b)) \in Nat
        BY <1>9, <3>1, <3>3
      <4>4. Cardinality(Grown(b)) > k
        BY <3>1, <3>5, <4>2, <4>3
      <4>. QED BY <2>2, <3>2, <3>3, <4>4
    <3>. QED BY <3>4, <3>5
  <2>. QED BY <2>3, <2>4
<1>11. below[NumSectors] = Live
  <2>1. /\ below[NumSectors] \in SUBSET Live
        /\ below[NumSectors] # Live => Cardinality(below[NumSectors]) > NumSectors
    BY <1>10
  <2>2. Cardinality(below[NumSectors]) \in Nat /\ Cardinality(below[NumSectors]) <= NumSectors
    BY <1>9, <2>1
  <2>. QED BY <2>1, <2>2, SectorNumbers
<1>. QED BY <1>8, <1>11

(* The invariant says that the directories are a tree. *)
LEMMA InvariantIsTree ==
    ASSUME IInv
    PROVE  TreeSound
<1>1. TypeOK /\ Slots /\ Named /\ Reached /\ Uses
  BY DEF IInv
<1>2. Tree = Live
  BY <1>1, TreeIsLive
<1>3. ASSUME NEW d \in Live, disk[d].type = "DIR"
      PROVE  /\ lookup(d, ".") = d
             /\ \A i \in ChildSlots(d) :
                   LET s == disk[d].ents[i].sector IN
                   /\ SlotsOf(d, disk[d].ents[i].name) = {i}
                   /\ disk[s].type = "DIR" => lookup(s, "..") = d
                   /\ s # ROOT
                   /\ \A e \in Live : \A j \in ChildSlots(e) :
                         disk[e].ents[j].sector = s => <<e, j>> = <<d, i>>
  <2>1. d \in LiveDirs
    BY <1>3 DEF LiveDirs
  <2>2. lookup(d, ".") = d
    BY <1>1, <2>1, LookupLive
  <2>. SUFFICES ASSUME NEW i \in ChildSlots(d)
                PROVE  /\ SlotsOf(d, disk[d].ents[i].name) = {i}
                       /\ disk[disk[d].ents[i].sector].type = "DIR" =>
                             lookup(disk[d].ents[i].sector, "..") = d
                       /\ disk[d].ents[i].sector # ROOT
                       /\ \A e \in Live : \A j \in ChildSlots(e) :
                             disk[e].ents[j].sector = disk[d].ents[i].sector => e = d /\ j = i
    BY <2>2
  <2>. DEFINE s == disk[d].ents[i].sector
  <2>3. SlotsOf(d, disk[d].ents[i].name) = {i}
    BY <1>1, <2>1, SlotsOfDir
  <2>4. s \in Live \ {ROOT}
    BY <1>1 DEF Named
  <2>5. \A e \in Live : \A j \in ChildSlots(e) : disk[e].ents[j].sector = s => e = d /\ j = i
    BY <1>1 DEF Named
  <2>6. ASSUME disk[s].type = "DIR" PROVE lookup(s, "..") = d
    <3>1. s \in LiveDirs \ {ROOT}
      BY <2>4, <2>6 DEF LiveDirs
    <3>2. s \in Children(Up(s)) /\ Up(s) \in Live
      BY <1>1, <3>1 DEF Named, LiveDirs
    <3>3. PICK j \in ChildSlots(Up(s)) : disk[Up(s)].ents[j].sector = s
      BY <3>2 DEF Children
    <3>4. Up(s) = d
      BY <2>5, <3>2, <3>3
    <3>. QED BY <1>1, <3>1, <3>4, LookupLive
  <2>. QED BY <2>3, <2>4, <2>5, <2>6
<1>4. \A s \in Sectors : open[s] > 0 => s \in Tree \cup removed
  BY <1>1, <1>2 DEF Uses
<1>. QED BY <1>1, <1>2, <1>3, <1>4 DEF TreeSound, Uses

---------------------------------------------------------------------------
(* What a step does to the names *)

(* A directory with the same names as before. *)
SameNames(e) ==
    /\ disk'[e].type = disk[e].type
    /\ ChildSlots(e)' = ChildSlots(e)
    /\ \A i \in ChildSlots(e) \cup {1, 2} : disk'[e].ents[i] = disk[e].ents[i]
    /\ Len(disk[e].ents) >= 2 => Len(disk'[e].ents) >= 2

(* If all that is live has its names and stays, the names stay in order. *)
LEMMA NamesStay ==
    ASSUME Slots, Named, Reached, Live' = Live, \A e \in Live : SameNames(e)
    PROVE  Slots' /\ Named' /\ Reached'
<1>1. LiveDirs' = LiveDirs
  BY DEF LiveDirs, SameNames
<1>2. \A e \in Live : Children(e)' = Children(e)
  BY DEF SameNames, Children
<1>3. \A e \in Live : Up(e)' = Up(e)
  BY DEF SameNames, Up
<1>4. LiveDirs \subseteq Live
  BY DEF LiveDirs
<1>5. Slots'
  BY <1>1, <1>4 DEF Slots, SameNames
<1>6. Named'
  <2>1. \A d \in Live' : \A i \in ChildSlots(d)' :
          /\ disk'[d].ents[i].sector \in Live' \ {ROOT}
          /\ \A j \in ChildSlots(d)' : disk'[d].ents[i].name = disk'[d].ents[j].name => i = j
          /\ \A e \in Live' : \A j \in ChildSlots(e)' :
                disk'[d].ents[i].sector = disk'[e].ents[j].sector => d = e /\ i = j
    <3>1. \A d \in Live : \A i \in ChildSlots(d)' :
             i \in ChildSlots(d) /\ disk'[d].ents[i] = disk[d].ents[i]
      BY DEF SameNames
    <3>2. ASSUME NEW d \in Live, NEW i \in ChildSlots(d)'
          PROVE  /\ disk'[d].ents[i].sector \in Live \ {ROOT}
                 /\ \A j \in ChildSlots(d)' :
                       disk'[d].ents[i].name = disk'[d].ents[j].name => i = j
      BY <3>1 DEF Named
    <3>3. ASSUME NEW d \in Live, NEW i \in ChildSlots(d)', NEW e \in Live,
                 NEW j \in ChildSlots(e)', disk'[d].ents[i].sector = disk'[e].ents[j].sector
          PROVE  d = e /\ i = j
      <4>1. disk[d].ents[i].sector = disk[e].ents[j].sector
        BY <3>1, <3>3
      <4>. QED BY <3>1, <4>1 DEF Named
    <3>. QED BY <3>2, <3>3
  <2>2. ROOT \in LiveDirs' /\ Up(ROOT)' = ROOT
    BY <1>1, <1>3, <1>4 DEF Named
  <2>3. \A d \in LiveDirs' : Up(d)' \in LiveDirs' /\ (d # ROOT => d \in Children(Up(d))')
    <3>. TAKE d \in LiveDirs'
    <3>1. d \in LiveDirs /\ Up(d)' = Up(d) /\ Up(d) \in LiveDirs
          /\ (d # ROOT => d \in Children(Up(d)))
      BY <1>1, <1>3, <1>4 DEF Named
    <3>2. PICK u \in LiveDirs : u = Up(d)
      BY <3>1
    <3>3. Children(u)' = Children(u)
      BY <1>2, <1>4
    <3>4. Children(Up(d))' = Children(u)'
      BY <3>1, <3>2
    <3>. QED BY <1>1, <3>1, <3>2, <3>3, <3>4
  <2>. QED BY <2>1, <2>2, <2>3 DEF Named
<1>7. Reached'
  <2>. SUFFICES ASSUME NEW S \in SUBSET Live, HoldsTree(S)' PROVE S = Live
    BY DEF Reached
  <2>1. HoldsTree(S)
    BY <1>2 DEF HoldsTree
  <2>. QED BY <2>1 DEF Reached
<1>. QED BY <1>5, <1>6, <1>7

(* Directory d with one name more, nm in slot k, of sector s. *)
GainsName(d, k, nm, s) ==
    /\ disk'[d].type = disk[d].type
    /\ k \notin ChildSlots(d) \cup {1, 2}
    /\ ChildSlots(d)' = ChildSlots(d) \cup {k}
    /\ disk'[d].ents[k] = Entry(nm, s)
    /\ \A i \in ChildSlots(d) \cup {1, 2} : disk'[d].ents[i] = disk[d].ents[i]
    /\ Len(disk'[d].ents) \in Nat /\ Len(disk'[d].ents) >= Len(disk[d].ents)

(* The names stay in order when a sector that was not live becomes an empty
   file or directory, and gets a name that its directory did not have. *)
LEMMA NameGained ==
    ASSUME TypeOK, Slots, Named, Reached,
           NEW d \in LiveDirs, NEW s \in Sectors \ Live, NEW k, NEW nm \in Names,
           Live' = Live \cup {s},
           \A e \in Live \ {d} : disk'[e] = disk[e],
           GainsName(d, k, nm, s),
           \A i \in ChildSlots(d) : disk[d].ents[i].name # nm,
           disk'[s] \in {FileInode, DirInode(s, d)}
    PROVE  Slots' /\ Named' /\ Reached'
<1>1. d \in Live /\ d \in Sectors /\ d # s /\ disk[d].type = "DIR"
      /\ Len(disk[d].ents) \in Nat
  BY InodeTypes DEF LiveDirs, Live, TypeOK
<1>2. ROOT \in Live /\ s # ROOT /\ ROOT \in LiveDirs
  BY DEF Named, LiveDirs
<1>3. ChildSlots(s)' = {} /\ Children(s)' = {}
  <2>1. \A i \in DOMAIN disk'[s].ents : ~(i > 2)
    BY DEF FileInode, DirInode
  <2>2. ChildSlots(s)' = {}
    BY <2>1 DEF ChildSlots
  <2>. QED BY <2>2 DEF Children
<1>4. \A e \in Live \ {d} : /\ ChildSlots(e)' = ChildSlots(e) /\ Children(e)' = Children(e)
                            /\ Up(e)' = Up(e)
  BY DEF ChildSlots, Children, Up
<1>5. Up(d)' = Up(d)
  BY DEF GainsName, Up
<1>6. Children(d)' = Children(d) \cup {s}
  BY DEF GainsName, Children, Entry
<1>7. LiveDirs \subseteq LiveDirs' /\ LiveDirs' \subseteq LiveDirs \cup {s}
  BY <1>1 DEF LiveDirs, GainsName
<1>8. disk'[s].type = "DIR" => /\ Len(disk'[s].ents) = 2 /\ disk'[s].ents[1] = Entry(".", s)
                               /\ disk'[s].ents[2].name = ".." /\ Up(s)' = d
  BY DEF FileInode, DirInode, Entry, Up
<1>9. \A e \in Live : \A i \in ChildSlots(e)' :
         \/ e = d /\ i = k /\ disk'[e].ents[i].name = nm /\ disk'[e].ents[i].sector = s
         \/ i \in ChildSlots(e) /\ disk'[e].ents[i] = disk[e].ents[i]
            /\ disk[e].ents[i].sector \in Live \ {ROOT}
  <2>. TAKE e \in Live
  <2>1. CASE e = d
    BY <1>1, <2>1 DEF GainsName, Named, Entry
  <2>2. CASE e # d
    BY <1>4, <2>2 DEF Named
  <2>. QED BY <2>1, <2>2
<1>10. Slots'
  <2>. SUFFICES ASSUME NEW e \in LiveDirs'
                PROVE  /\ Len(disk'[e].ents) >= 2
                       /\ disk'[e].ents[1] = Entry(".", e)
                       /\ disk'[e].ents[2].name = ".."
                       /\ \A i \in ChildSlots(e)' : disk'[e].ents[i].name \in Names
    BY DEF Slots
  <2>1. CASE e = s
    <3>1. disk'[s].type = "DIR"
      BY <2>1 DEF LiveDirs
    <3>. QED BY <1>3, <1>8, <2>1, <3>1
  <2>2. CASE e = d
    <3>1. Len(disk[d].ents) >= 2 /\ Len(disk'[d].ents) \in Nat
          /\ Len(disk'[d].ents) >= Len(disk[d].ents)
      BY DEF Slots, GainsName
    <3>2. Len(disk'[d].ents) >= 2
      BY <1>1, <3>1
    <3>3. \A i \in ChildSlots(d)' : disk'[d].ents[i].name \in Names
      BY <1>1, <1>9 DEF Slots
    <3>. QED BY <2>2, <3>2, <3>3 DEF GainsName, Slots
  <2>3. CASE e \in LiveDirs \ {d}
    <3>1. e \in Live \ {d}
      BY <2>3 DEF LiveDirs
    <3>. QED BY <1>4, <2>3, <3>1 DEF Slots
  <2>. QED BY <1>7, <2>1, <2>2, <2>3
<1>11. Named'
  <2>1. \A e \in Live' : \A i \in ChildSlots(e)' :
          /\ disk'[e].ents[i].sector \in Live' \ {ROOT}
          /\ \A j \in ChildSlots(e)' : disk'[e].ents[i].name = disk'[e].ents[j].name => i = j
          /\ \A f \in Live' : \A j \in ChildSlots(f)' :
                disk'[e].ents[i].sector = disk'[f].ents[j].sector => e = f /\ i = j
    <3>. SUFFICES ASSUME NEW e \in Live, NEW i \in ChildSlots(e)'
                  PROVE  /\ disk'[e].ents[i].sector \in Live' \ {ROOT}
                         /\ \A j \in ChildSlots(e)' :
                               disk'[e].ents[i].name = disk'[e].ents[j].name => i = j
                         /\ \A f \in Live : \A j \in ChildSlots(f)' :
                               disk'[e].ents[i].sector = disk'[f].ents[j].sector => e = f /\ i = j
      BY <1>3
    <3>1. disk'[e].ents[i].sector \in Live' \ {ROOT}
      BY <1>2, <1>9
    <3>2. ASSUME NEW j \in ChildSlots(e)', disk'[e].ents[i].name = disk'[e].ents[j].name
          PROVE  i = j
      <4>1. CASE i \in ChildSlots(e) /\ disk'[e].ents[i] = disk[e].ents[i]
        <5>1. CASE j \in ChildSlots(e) /\ disk'[e].ents[j] = disk[e].ents[j]
          BY <3>2, <4>1, <5>1 DEF Named
        <5>2. CASE e = d /\ j = k /\ disk'[e].ents[j].name = nm
          BY <3>2, <4>1, <5>2
        <5>. QED BY <1>9, <5>1, <5>2
      <4>2. CASE e = d /\ i = k /\ disk'[e].ents[i].name = nm
        <5>1. CASE j \in ChildSlots(e) /\ disk'[e].ents[j] = disk[e].ents[j]
          BY <3>2, <4>2, <5>1
        <5>2. CASE j = k
          BY <4>2, <5>2
        <5>. QED BY <1>9, <5>1, <5>2
      <4>. QED BY <1>9, <4>1, <4>2
    <3>3. ASSUME NEW f \in Live, NEW j \in ChildSlots(f)',
                 disk'[e].ents[i].sector = disk'[f].ents[j].sector
          PROVE  e = f /\ i = j
      <4>1. CASE e = d /\ i = k /\ disk'[e].ents[i].sector = s
        BY <1>9, <3>3, <4>1
      <4>2. CASE i \in ChildSlots(e) /\ disk'[e].ents[i] = disk[e].ents[i]
                 /\ disk[e].ents[i].sector \in Live \ {ROOT}
        <5>1. j \in ChildSlots(f) /\ disk'[f].ents[j] = disk[f].ents[j]
          BY <1>9, <3>3, <4>2
        <5>. QED BY <3>3, <4>2, <5>1 DEF Named
      <4>. QED BY <1>9, <4>1, <4>2
    <3>. QED BY <3>1, <3>2, <3>3
  <2>2. ROOT \in LiveDirs' /\ Up(ROOT)' = ROOT
    BY <1>2, <1>4, <1>5, <1>7 DEF Named
  <2>3. ASSUME NEW e \in LiveDirs'
        PROVE  Up(e)' \in LiveDirs' /\ (e # ROOT => e \in Children(Up(e))')
    <3>1. CASE e = s
      <4>1. Up(s)' = d
        BY <1>8, <3>1 DEF LiveDirs
      <4>2. Children(Up(s))' = Children(d)'
        BY <4>1
      <4>. QED BY <1>6, <1>7, <3>1, <4>1, <4>2
    <3>2. CASE e \in LiveDirs
      <4>1. Up(e)' = Up(e)
        BY <1>4, <1>5, <3>2 DEF LiveDirs
      <4>2. Up(e) \in LiveDirs /\ (e # ROOT => e \in Children(Up(e)))
        BY <3>2 DEF Named
      <4>3. PICK u \in LiveDirs : u = Up(e)
        BY <4>2
      <4>4. Children(u) \subseteq Children(u)'
        BY <1>4, <1>6 DEF LiveDirs
      <4>5. Children(Up(e))' = Children(u)'
        BY <4>1, <4>3
      <4>. QED BY <1>7, <4>1, <4>2, <4>3, <4>4, <4>5
    <3>. QED BY <1>7, <3>1, <3>2
  <2>. QED BY <2>1, <2>2, <2>3 DEF Named
<1>12. Reached'
  <2>. SUFFICES ASSUME NEW S \in SUBSET (Live \cup {s}), HoldsTree(S)'
                PROVE  S = Live \cup {s}
    BY DEF Reached
  <2>. DEFINE T == S \cap Live
  <2>1. \A e \in T : Children(e) \subseteq T
    <3>1. \A e \in Live : Children(e) \subseteq Children(e)'
      BY <1>4, <1>6
    <3>2. \A e \in Live : Children(e) \subseteq Live
      BY DEF Named, Children
    <3>. QED BY <3>1, <3>2 DEF HoldsTree
  <2>2. ROOT \in T
    BY <1>2 DEF HoldsTree
  <2>3. T = Live
    <3>. HIDE DEF T
    <3>1. HoldsTree(T)
      BY <2>1, <2>2 DEF HoldsTree
    <3>2. T \in SUBSET Live
      BY DEF T
    <3>. QED BY <3>1, <3>2 DEF Reached
  <2>4. s \in S
    BY <1>1, <1>6, <2>3 DEF HoldsTree
  <2>. QED BY <2>3, <2>4
<1>. QED BY <1>10, <1>11, <1>12

(* Directory d without the name that it had in slot k. *)
LosesName(d, k) ==
    /\ disk'[d].type = disk[d].type
    /\ k \in ChildSlots(d) /\ k \notin {1, 2}
    /\ ChildSlots(d)' = ChildSlots(d) \ {k}
    /\ \A i \in (ChildSlots(d) \cup {1, 2}) \ {k} : disk'[d].ents[i] = disk[d].ents[i]
    /\ Len(disk'[d].ents) = Len(disk[d].ents)

(* The names stay in order when a file, or a directory without names, goes with
   its name. *)
LEMMA NameLost ==
    ASSUME TypeOK, Slots, Named, Reached,
           NEW d \in LiveDirs, NEW k, NEW s, s = disk[d].ents[k].sector,
           Children(s) = {},
           Live' = Live \ {s},
           \A e \in Live \ {d} : disk'[e] = disk[e],
           LosesName(d, k)
    PROVE  Slots' /\ Named' /\ Reached'
<1>1. d \in Live /\ d \in Sectors /\ disk[d].type = "DIR" /\ k \in ChildSlots(d)
  BY DEF LiveDirs, Live, TypeOK, LosesName
<1>2. s \in Live \ {ROOT} /\ ROOT \in LiveDirs
  BY <1>1 DEF Named
<1>3. d # s
  BY <1>1 DEF Children
<1>4. \A e \in Live \ {d} : /\ ChildSlots(e)' = ChildSlots(e) /\ Children(e)' = Children(e)
                            /\ Up(e)' = Up(e)
  BY DEF ChildSlots, Children, Up
<1>5. Up(d)' = Up(d)
  BY DEF LosesName, Up
<1>6. Children(d)' = Children(d) \ {s}
  <2>1. \A i \in ChildSlots(d) : disk[d].ents[i].sector = s => i = k
    BY <1>1 DEF Named
  <2>2. ChildSlots(d)' = ChildSlots(d) \ {k}
        /\ \A i \in ChildSlots(d) \ {k} : disk'[d].ents[i] = disk[d].ents[i]
    BY DEF LosesName
  <2>. QED BY <2>1, <2>2 DEF Children
<1>7. LiveDirs' = LiveDirs \ {s}
  BY <1>1 DEF LiveDirs, LosesName
<1>8. \A e \in Live : \A i \in ChildSlots(e)' :
         /\ i \in ChildSlots(e) /\ disk'[e].ents[i] = disk[e].ents[i]
         /\ disk[e].ents[i].sector \in Live \ {ROOT, s}
  <2>. SUFFICES ASSUME NEW e \in Live, NEW i \in ChildSlots(e)'
                PROVE  /\ i \in ChildSlots(e) /\ disk'[e].ents[i] = disk[e].ents[i]
                       /\ disk[e].ents[i].sector \in Live \ {ROOT, s}
    OBVIOUS
  <2>1. i \in ChildSlots(e) /\ disk'[e].ents[i] = disk[e].ents[i] /\ (e = d => i # k)
    BY <1>4 DEF LosesName
  <2>2. disk[e].ents[i].sector # s
    BY <1>1, <2>1 DEF Named
  <2>. QED BY <2>1, <2>2 DEF Named
<1>9. Slots'
  <2>. SUFFICES ASSUME NEW e \in LiveDirs, e # s
                PROVE  /\ Len(disk'[e].ents) >= 2
                       /\ disk'[e].ents[1] = Entry(".", e)
                       /\ disk'[e].ents[2].name = ".."
                       /\ \A i \in ChildSlots(e)' : disk'[e].ents[i].name \in Names
    BY <1>7 DEF Slots
  <2>1. Len(disk[e].ents) >= 2 /\ disk[e].ents[1] = Entry(".", e) /\ disk[e].ents[2].name = ".."
    BY DEF Slots
  <2>2. Len(disk'[e].ents) >= 2 /\ disk'[e].ents[1] = Entry(".", e) /\ disk'[e].ents[2].name = ".."
    BY <2>1 DEF LosesName, LiveDirs
  <2>3. \A i \in ChildSlots(e)' : disk'[e].ents[i].name \in Names
    BY <1>8 DEF Slots, LiveDirs
  <2>. QED BY <2>2, <2>3
<1>10. Named'
  <2>1. \A e \in Live' : \A i \in ChildSlots(e)' :
          /\ disk'[e].ents[i].sector \in Live' \ {ROOT}
          /\ \A j \in ChildSlots(e)' : disk'[e].ents[i].name = disk'[e].ents[j].name => i = j
          /\ \A f \in Live' : \A j \in ChildSlots(f)' :
                disk'[e].ents[i].sector = disk'[f].ents[j].sector => e = f /\ i = j
    <3>1. ASSUME NEW e \in Live, NEW i \in ChildSlots(e)'
          PROVE  /\ disk'[e].ents[i].sector \in Live' \ {ROOT}
                 /\ \A j \in ChildSlots(e)' :
                       disk'[e].ents[i].name = disk'[e].ents[j].name => i = j
      BY <1>8 DEF Named
    <3>2. ASSUME NEW e \in Live, NEW i \in ChildSlots(e)', NEW f \in Live,
                 NEW j \in ChildSlots(f)', disk'[e].ents[i].sector = disk'[f].ents[j].sector
          PROVE  e = f /\ i = j
      <4>1. disk[e].ents[i].sector = disk[f].ents[j].sector
            /\ i \in ChildSlots(e) /\ j \in ChildSlots(f)
        BY <1>8, <3>2
      <4>. QED BY <4>1 DEF Named
    <3>. QED BY <3>1, <3>2
  <2>2. ROOT \in LiveDirs' /\ Up(ROOT)' = ROOT
    BY <1>2, <1>4, <1>5, <1>7 DEF Named, LiveDirs
  <2>3. ASSUME NEW e \in LiveDirs, e # s
        PROVE  Up(e)' \in LiveDirs' /\ (e # ROOT => e \in Children(Up(e))')
    <3>1. Up(e)' = Up(e)
      BY <1>4, <1>5 DEF LiveDirs
    <3>2. Up(e) \in LiveDirs /\ (e # ROOT => e \in Children(Up(e)))
      BY DEF Named
    <3>3. PICK u \in LiveDirs : u = Up(e)
      BY <3>2
    <3>4. u # s
      <4>1. CASE e = ROOT
        BY <1>2, <3>3, <4>1 DEF Named
      <4>2. CASE e # ROOT
        BY <3>2, <3>3, <4>2
      <4>. QED BY <4>1, <4>2
    <3>5. Children(u) \ {s} \subseteq Children(u)'
      BY <1>4, <1>6 DEF LiveDirs
    <3>6. Children(Up(e))' = Children(u)'
      BY <3>1, <3>3
    <3>. QED BY <1>7, <2>3, <3>1, <3>2, <3>3, <3>4, <3>5, <3>6
  <2>. QED BY <1>7, <2>1, <2>2, <2>3 DEF Named
<1>11. Reached'
  <2>. SUFFICES ASSUME NEW S \in SUBSET (Live \ {s}), HoldsTree(S)'
                PROVE  S = Live \ {s}
    BY DEF Reached
  <2>. DEFINE T == S \cup {s}
  <2>1. \A e \in T : Children(e) \subseteq T
    <3>1. \A e \in Live : Children(e) \subseteq Children(e)' \cup {s}
      BY <1>4, <1>6
    <3>. QED BY <3>1 DEF HoldsTree
  <2>2. ROOT \in T
    BY DEF HoldsTree
  <2>3. T = Live
    <3>1. T \in SUBSET Live
      BY <1>2
    <3>. HIDE DEF T
    <3>2. HoldsTree(T)
      BY <2>1, <2>2 DEF HoldsTree
    <3>. QED BY <3>1, <3>2 DEF Reached
  <2>. QED BY <2>3
<1>. QED BY <1>9, <1>10, <1>11

---------------------------------------------------------------------------
(* Counting *)

Refs == Procs \X (1 .. MaxFds) \X {1, 2}

LEMMA RefTriple ==
    /\ \A h \in Refs : /\ h = <<h[1], h[2], h[3]>>
                       /\ h[1] \in Procs /\ h[2] \in 1 .. MaxFds /\ h[3] \in {1, 2}
    /\ \A p \in Procs, i \in 1 .. MaxFds, k \in {1, 2} : <<p, i, k>> \in Refs
BY DEF Refs

LEMMA MaxFdsIsNatural ==
    MaxFds \in Nat /\ MaxFds \in Int
<1>1. MaxFds \in Nat
  BY DirectoryAssumption
<1>. QED BY <1>1

LEMMA Finite ==
    /\ \A S \in SUBSET Procs : IsFiniteSet(S) /\ Cardinality(S) \in Nat
    /\ \A S \in SUBSET Refs : IsFiniteSet(S) /\ Cardinality(S) \in Nat
<1>1. IsFiniteSet(Procs)
  BY DirectoryAssumption
<1>2. IsFiniteSet(1 .. MaxFds) /\ IsFiniteSet({1, 2})
  <2>1. IsFiniteSet(1 .. MaxFds)
    BY MaxFdsIsNatural, FS_Interval
  <2>2. IsFiniteSet({1} \cup {2})
    BY FS_Singleton, FS_AddElement
  <2>3. {1, 2} = {1} \cup {2}
    OBVIOUS
  <2>. QED BY <2>1, <2>2, <2>3
<1>3. IsFiniteSet((Procs \X (1 .. MaxFds)) \X {1, 2})
  BY <1>1, <1>2, FS_Product
<1>. DEFINE S == (Procs \X (1 .. MaxFds)) \X {1, 2}
            f == [x \in S |-> <<x[1][1], x[1][2], x[2]>>]
<1>4. f \in Surjection(S, Refs)
  <2>1. f \in [S -> Refs]
    BY DEF Refs
  <2>2. ASSUME NEW h \in Refs PROVE \E x \in S : f[x] = h
    <3>1. <<<<h[1], h[2]>>, h[3]>> \in S
      BY RefTriple
    <3>2. f[<<<<h[1], h[2]>>, h[3]>>] = h
      BY <3>1, RefTriple
    <3>. QED BY <3>1, <3>2
  <2>. HIDE DEF f
  <2>. QED BY <2>1, <2>2 DEF Surjection
<1>5. IsFiniteSet(Refs)
  <2>. HIDE DEF f, S
  <2>1. IsFiniteSet(S)
    BY <1>3 DEF S
  <2>. QED BY <1>4, <2>1, FS_Surjection
<1>. QED BY <1>1, <1>5, FS_Subset, FS_CardinalityType

(* The number of references of one process by one descriptor. *)
LEMMA HoldsOneOrTwo ==
    \A fd \in [sector : Sectors, dir : BOOLEAN] :
       /\ fd.sector \in Sectors /\ Holds(fd) \in {1, 2}
       /\ Holds(fd) = 2 <=> fd.dir
BY DEF Holds

LEMMA ProcTypes ==
    ASSUME TypeOK, NEW p \in Procs
    PROVE  /\ proc[p].st \in {"none", "new", "load", "run", "exit", "dead"}
           /\ proc[p].wd \in Sectors /\ proc[p].gone \in BOOLEAN
           /\ proc[p].exe \in Sectors \cup {NODIR}
           /\ proc[p].fds \in Seq([sector : Sectors, dir : BOOLEAN])
           /\ Len(proc[p].fds) \in Nat /\ DOMAIN proc[p].fds = 1 .. Len(proc[p].fds)
           /\ \A i \in DOMAIN proc[p].fds : proc[p].fds[i] \in [sector : Sectors, dir : BOOLEAN]
<1>1. proc[p] \in Processes
  BY DEF TypeOK
<1>2. /\ proc[p].st \in {"none", "new", "load", "run", "exit", "dead"}
      /\ proc[p].wd \in Sectors /\ proc[p].gone \in BOOLEAN
      /\ proc[p].exe \in Sectors \cup {NODIR}
      /\ proc[p].fds \in Seq([sector : Sectors, dir : BOOLEAN])
  BY <1>1 DEF Processes
<1>3. /\ Len(proc[p].fds) \in Nat /\ DOMAIN proc[p].fds = 1 .. Len(proc[p].fds)
      /\ \A i \in DOMAIN proc[p].fds : proc[p].fds[i] \in [sector : Sectors, dir : BOOLEAN]
  <2>. DEFINE D == [sector : Sectors, dir : BOOLEAN]
  <2>1. \A q \in Seq(D) : Len(q) \in Nat /\ DOMAIN q = 1 .. Len(q) /\ \A i \in DOMAIN q : q[i] \in D
    <3>. HIDE DEF D
    <3>. QED OBVIOUS
  <2>. QED BY <1>2, <2>1
<1>. QED BY <1>2, <1>3

(* A step that opens and closes nothing. *)
LEMMA FdsStay ==
    ASSUME \A q \in Procs : proc'[q].fds = proc[q].fds
    PROVE  \A s : FdHolds(s)' = FdHolds(s)
BY RefTriple DEF FdHolds, Refs

LEMMA RunnersStay ==
    ASSUME \A q \in Procs : proc'[q].exe = proc[q].exe
    PROVE  \A s : Runners(s)' = Runners(s)
BY DEF Runners

(* A descriptor more. *)
LEMMA FdAdded ==
    ASSUME TypeOK, NEW p \in Procs, NEW fd \in [sector : Sectors, dir : BOOLEAN],
           Len(proc[p].fds) < MaxFds,
           proc'[p].fds = Append(proc[p].fds, fd),
           \A q \in Procs \ {p} : proc'[q].fds = proc[q].fds,
           NEW s \in Sectors
    PROVE  Cardinality(FdHolds(s)') =
              Cardinality(FdHolds(s)) + (IF s = fd.sector THEN Holds(fd) ELSE 0)
<1>. DEFINE n == Len(proc[p].fds)
            D == [sector : Sectors, dir : BOOLEAN]
<1>1. n \in Nat /\ proc[p].fds \in Seq(D) /\ DOMAIN proc[p].fds = 1 .. n
  BY ProcTypes
<1>2. /\ DOMAIN proc'[p].fds = 1 .. n + 1
      /\ proc'[p].fds[n + 1] = fd
      /\ \A i \in 1 .. n : proc'[p].fds[i] = proc[p].fds[i]
  <2>. HIDE DEF D
  <2>. QED BY <1>1
<1>3. n + 1 \in 1 .. MaxFds
  BY <1>1, MaxFdsIsNatural
<1>. HIDE DEF n
<1>4. FdHolds(s) \in SUBSET Refs /\ FdHolds(s)' \in SUBSET Refs
  BY DEF FdHolds, Refs
<1>5. \A k : <<p, n + 1, k>> \notin FdHolds(s)
  BY <1>1 DEF FdHolds
<1>6. ASSUME NEW h \in Refs, h[1] # p \/ h[2] # n + 1
      PROVE  h \in FdHolds(s)' <=> h \in FdHolds(s)
  <2>1. h[1] \in Procs /\ h[2] \in 1 .. MaxFds
    BY RefTriple
  <2>2. CASE h[1] # p
    BY <2>1, <2>2 DEF FdHolds, Refs
  <2>3. CASE h[1] = p /\ h[2] # n + 1
    <3>1. h[2] \in DOMAIN proc'[p].fds <=> h[2] \in DOMAIN proc[p].fds
      BY <1>1, <1>2, <2>1, <2>3
    <3>2. h[2] \in DOMAIN proc[p].fds => proc'[p].fds[h[2]] = proc[p].fds[h[2]]
      BY <1>1, <1>2
    <3>. QED BY <2>3, <3>1, <3>2 DEF FdHolds, Refs
  <2>. QED BY <1>6, <2>2, <2>3
<1>7. \A k \in {1, 2} : <<p, n + 1, k>> \in FdHolds(s)' <=> s = fd.sector /\ k <= Holds(fd)
  <2>. TAKE k \in {1, 2}
  <2>1. <<p, n + 1, k>> \in Refs
    BY <1>3, RefTriple
  <2>2. n + 1 \in DOMAIN proc'[p].fds
    BY <1>1, <1>2
  <2>. QED BY <1>2, <2>1, <2>2 DEF FdHolds, Refs
<1>8. \A h \in Refs : h[1] = p /\ h[2] = n + 1 =>
                         h = <<p, n + 1, 1>> \/ h = <<p, n + 1, 2>>
  BY RefTriple
<1>9. CASE s # fd.sector
  <2>1. \A h \in Refs : h \in FdHolds(s)' <=> h \in FdHolds(s)
    <3>1. <<p, n + 1, 1>> \notin FdHolds(s)' /\ <<p, n + 1, 2>> \notin FdHolds(s)'
      BY <1>7, <1>9
    <3>. QED BY <1>5, <1>6, <1>8, <3>1
  <2>2. FdHolds(s)' = FdHolds(s)
    BY <1>4, <2>1
  <2>. QED BY <1>4, <1>9, <2>2, Finite
<1>10. CASE s = fd.sector /\ ~fd.dir
  <2>1. Holds(fd) = 1
    BY <1>10 DEF Holds
  <2>2. FdHolds(s)' = FdHolds(s) \cup {<<p, n + 1, 1>>}
    <3>1. <<p, n + 1, 1>> \in FdHolds(s)' /\ <<p, n + 1, 2>> \notin FdHolds(s)'
      BY <1>7, <1>10, <2>1
    <3>. QED BY <1>4, <1>5, <1>6, <1>8, <3>1
  <2>. DEFINE H == FdHolds(s)
              x == <<p, n + 1, 1>>
  <2>3. IsFiniteSet(H) /\ x \notin H
    BY <1>4, <1>5, Finite
  <2>. HIDE DEF H, x
  <2>4. Cardinality(H \cup {x}) = Cardinality(H) + 1
    BY <2>3, FS_AddElement
  <2>. QED BY <1>10, <2>1, <2>2, <2>4 DEF H, x
<1>11. CASE s = fd.sector /\ fd.dir
  <2>1. Holds(fd) = 2
    BY <1>11 DEF Holds
  <2>2. FdHolds(s)' = (FdHolds(s) \cup {<<p, n + 1, 1>>}) \cup {<<p, n + 1, 2>>}
    <3>1. <<p, n + 1, 1>> \in FdHolds(s)' /\ <<p, n + 1, 2>> \in FdHolds(s)'
      BY <1>7, <1>11, <2>1
    <3>. QED BY <1>4, <1>5, <1>6, <1>8, <3>1
  <2>3. <<p, n + 1, 1>> # <<p, n + 1, 2>>
    OBVIOUS
  <2>. DEFINE H == FdHolds(s)
              x == <<p, n + 1, 1>>
              y == <<p, n + 1, 2>>
  <2>4. IsFiniteSet(H) /\ Cardinality(H) \in Nat
    BY <1>4, Finite
  <2>5. x \notin H /\ y \notin H \cup {x}
    BY <1>5, <2>3
  <2>. HIDE DEF H, x, y
  <2>6. IsFiniteSet(H \cup {x}) /\ Cardinality(H \cup {x}) = Cardinality(H) + 1
    BY <2>4, <2>5, FS_AddElement
  <2>7. Cardinality((H \cup {x}) \cup {y}) = Cardinality(H \cup {x}) + 1
    BY <2>5, <2>6, FS_AddElement
  <2>. QED BY <1>11, <2>1, <2>2, <2>4, <2>6, <2>7 DEF H, x, y
<1>. QED BY <1>9, <1>10, <1>11

(* A descriptor less: those after it move down. *)
LEMMA FdRemoved ==
    ASSUME TypeOK, NEW p \in Procs, NEW i \in DOMAIN proc[p].fds,
           Len(proc[p].fds) <= MaxFds,
           proc'[p].fds = RemoveAt(proc[p].fds, i),
           \A q \in Procs \ {p} : proc'[q].fds = proc[q].fds,
           NEW s \in Sectors
    PROVE  /\ Cardinality(FdHolds(s)') =
                 Cardinality(FdHolds(s))
                 - (IF s = proc[p].fds[i].sector THEN Holds(proc[p].fds[i]) ELSE 0)
           /\ s = proc[p].fds[i].sector => Cardinality(FdHolds(s)) >= Holds(proc[p].fds[i])
           /\ Len(proc'[p].fds) <= MaxFds
           /\ proc'[p].fds \in Seq([sector : Sectors, dir : BOOLEAN])
<1>. DEFINE n   == Len(proc[p].fds)
            fds == proc[p].fds
            fd  == proc[p].fds[i]
            D   == [sector : Sectors, dir : BOOLEAN]
<1>1. n \in Nat /\ fds \in Seq(D) /\ DOMAIN fds = 1 .. n /\ i \in 1 .. n /\ n \in 1 .. MaxFds
      /\ \A j \in 1 .. n : fds[j] \in D
  <2>1. n \in Nat /\ fds \in Seq(D) /\ DOMAIN fds = 1 .. n /\ \A j \in 1 .. n : fds[j] \in D
    BY ProcTypes
  <2>2. i \in 1 .. n
    BY <2>1
  <2>. HIDE DEF D, fds, n
  <2>3. n <= MaxFds
    BY DEF n
  <2>. QED BY <2>1, <2>2, <2>3, MaxFdsIsNatural
<1>2. /\ RemoveAt(fds, i) \in Seq(D)
      /\ Len(RemoveAt(fds, i)) = n - 1
      /\ \A j \in 1 .. n - 1 : RemoveAt(fds, i)[j] = IF j < i THEN fds[j] ELSE fds[j + 1]
  <2>. DEFINE front == SubSeq(fds, 1, i - 1)
              back  == SubSeq(fds, i + 1, n)
  <2>. HIDE DEF D
  <2>1. front \in Seq(D) /\ Len(front) = i - 1 /\ \A j \in 1 .. i - 1 : front[j] = fds[j]
    <3>. HIDE DEF fds, n
    <3>1. 1 \in Int /\ i - 1 \in Int /\ \A j \in 1 .. i - 1 : fds[j] \in D
      BY <1>1
    <3>. QED BY <1>1, <3>1, SubSeqProperties
  <2>2. back \in Seq(D) /\ Len(back) = n - i /\ \A j \in 1 .. n - i : back[j] = fds[j + i]
    <3>. HIDE DEF fds, n
    <3>1. i + 1 \in Int /\ n \in Int /\ \A j \in i + 1 .. n : fds[j] \in D
      BY <1>1
    <3>2. /\ back \in Seq(D)
          /\ Len(back) = IF i + 1 <= n THEN n - (i + 1) + 1 ELSE 0
          /\ \A j \in 1 .. n - (i + 1) + 1 : back[j] = fds[(i + 1) + j - 1]
      BY <3>1, SubSeqProperties
    <3>. HIDE DEF back
    <3>. QED BY <1>1, <3>2
  <2>. HIDE DEF front, back, n
  <2>3. RemoveAt(fds, i) = front \o back
    BY DEF RemoveAt, front, back, n
  <2>4. Len(front \o back) = n - 1 /\ front \o back \in Seq(D)
    BY <1>1, <2>1, <2>2
  <2>5. \A j \in 1 .. n - 1 : (front \o back)[j] = IF j < i THEN fds[j] ELSE fds[j + 1]
    <3>. HIDE DEF fds
    <3>. TAKE j \in 1 .. n - 1
    <3>1. CASE j < i
      BY <1>1, <2>1, <2>2, <3>1
    <3>2. CASE j >= i
      <4>1. (front \o back)[j] = back[j - (i - 1)]
        BY <1>1, <2>1, <2>2, <3>2
      <4>2. j - (i - 1) \in 1 .. n - i /\ (j - (i - 1)) + i = j + 1
        BY <1>1, <3>2
      <4>3. back[j - (i - 1)] = fds[(j - (i - 1)) + i]
        BY <2>2, <4>2
      <4>. QED BY <1>1, <3>2, <4>1, <4>2, <4>3
    <3>3. j < i \/ j >= i
      BY <1>1
    <3>. QED BY <3>1, <3>2, <3>3
  <2>. QED BY <2>3, <2>4, <2>5
<1>3. /\ proc'[p].fds \in Seq(D) /\ Len(proc'[p].fds) = n - 1
      /\ DOMAIN proc'[p].fds = 1 .. n - 1
      /\ \A j \in 1 .. n - 1 : proc'[p].fds[j] = IF j < i THEN fds[j] ELSE fds[j + 1]
  <2>. HIDE DEF fds, D
  <2>1. proc'[p].fds = RemoveAt(fds, i)
    BY DEF fds
  <2>. QED BY <1>2, <2>1
<1>. HIDE DEF n
<1>4. FdHolds(s) \in SUBSET Refs /\ FdHolds(s)' \in SUBSET Refs
  BY DEF FdHolds, Refs
<1>. DEFINE H == FdHolds(s)
            x == <<p, i, 1>>
            y == <<p, i, 2>>
            G == (H \ {x}) \ {y}
            Down(h) == <<h[1], IF h[1] = p /\ h[2] > i THEN h[2] - 1 ELSE h[2], h[3]>>
            Back(h) == <<h[1], IF h[1] = p /\ h[2] >= i THEN h[2] + 1 ELSE h[2], h[3]>>
            f == [h \in G |-> Down(h)]
<1>5. \A h \in G : Down(h) \in H'
  <2>. TAKE h \in G
  <2>1. h \in Refs /\ h \in H /\ h[1] \in Procs /\ h[2] \in 1 .. MaxFds /\ h[3] \in {1, 2}
        /\ ~(h[1] = p /\ h[2] = i)
    <3>1. h \in Refs /\ h \in H /\ h # x /\ h # y
      BY <1>4
    <3>. QED BY <3>1, RefTriple
  <2>2. /\ h[2] \in DOMAIN proc[h[1]].fds /\ proc[h[1]].fds[h[2]].sector = s
        /\ h[3] <= Holds(proc[h[1]].fds[h[2]])
    BY <2>1 DEF FdHolds
  <2>3. CASE h[1] # p
    <3>1. Down(h) = h
      BY <2>1, <2>3, RefTriple
    <3>2. proc'[h[1]].fds = proc[h[1]].fds
      BY <2>1, <2>3
    <3>. HIDE DEF Down, G
    <3>. QED BY <2>1, <2>2, <3>1, <3>2 DEF FdHolds, Refs
  <2>4. CASE h[1] = p
    <3>. DEFINE j == IF h[2] > i THEN h[2] - 1 ELSE h[2]
    <3>1. h[2] \in 1 .. n /\ h[2] # i
      BY <1>1, <2>1, <2>2, <2>4
    <3>2. j \in 1 .. n - 1 /\ j \in 1 .. MaxFds
      BY <1>1, <3>1, MaxFdsIsNatural
    <3>3. proc'[p].fds[j] = fds[h[2]]
      <4>1. CASE h[2] > i
        BY <1>1, <1>3, <3>1, <3>2, <4>1
      <4>2. CASE h[2] < i
        BY <1>1, <1>3, <3>1, <3>2, <4>2
      <4>. QED BY <1>1, <3>1, <4>1, <4>2
    <3>4. Down(h) = <<p, j, h[3]>>
      BY <2>4
    <3>5. <<p, j, h[3]>> \in Refs
      BY <2>1, <3>2, RefTriple
    <3>. HIDE DEF j, Down, G
    <3>. QED BY <1>3, <2>2, <2>4, <3>2, <3>3, <3>4, <3>5 DEF FdHolds, Refs
  <2>. QED BY <2>3, <2>4
<1>6. \A h \in H' : Back(h) \in G /\ Down(Back(h)) = h
  <2>. SUFFICES ASSUME NEW h \in H' PROVE Back(h) \in G /\ Down(Back(h)) = h
    OBVIOUS
  <2>1. h \in Refs /\ h[1] \in Procs /\ h[2] \in 1 .. MaxFds /\ h[3] \in {1, 2}
        /\ h = <<h[1], h[2], h[3]>>
    BY <1>4, RefTriple
  <2>2. /\ h[2] \in DOMAIN proc'[h[1]].fds /\ proc'[h[1]].fds[h[2]].sector = s
        /\ h[3] <= Holds(proc'[h[1]].fds[h[2]])
    BY <2>1 DEF FdHolds
  <2>3. CASE h[1] # p
    <3>1. Back(h) = h /\ Down(h) = h /\ h # x /\ h # y
      BY <2>1, <2>3
    <3>2. proc'[h[1]].fds = proc[h[1]].fds
      BY <2>1, <2>3
    <3>3. h \in H
      <4>. HIDE DEF Down, Back
      <4>. QED BY <2>1, <2>2, <3>2 DEF FdHolds, Refs
    <3>. HIDE DEF Down, Back, H
    <3>. QED BY <3>1, <3>3
  <2>4. CASE h[1] = p
    <3>. DEFINE j == IF h[2] >= i THEN h[2] + 1 ELSE h[2]
    <3>1. h[2] \in 1 .. n - 1
      BY <1>3, <2>2, <2>4
    <3>2. j \in 1 .. n /\ j \in 1 .. MaxFds /\ j # i
      BY <1>1, <3>1, MaxFdsIsNatural
    <3>3. proc'[p].fds[h[2]] = fds[j]
      <4>1. CASE h[2] < i
        BY <1>3, <3>1, <4>1
      <4>2. CASE h[2] >= i
        BY <1>1, <1>3, <3>1, <4>2
      <4>. QED BY <1>1, <3>1, <4>1, <4>2
    <3>4. Back(h) = <<p, j, h[3]>>
      BY <2>4
    <3>5. <<p, j, h[3]>> \in Refs
      BY <2>1, <3>2, RefTriple
    <3>6. Down(<<p, j, h[3]>>) = h
      <4>1. (IF j > i THEN j - 1 ELSE j) = h[2]
        BY <1>1, <3>1
      <4>2. Down(<<p, j, h[3]>>) = <<p, IF j > i THEN j - 1 ELSE j, h[3]>>
        OBVIOUS
      <4>. QED BY <2>1, <2>4, <4>1, <4>2
    <3>7. <<p, j, h[3]>> \in H
      <4>. HIDE DEF j, Down, Back
      <4>. QED BY <1>1, <2>2, <2>4, <3>2, <3>3, <3>5 DEF FdHolds, Refs
    <3>8. <<p, j, h[3]>> # x /\ <<p, j, h[3]>> # y
      BY <3>2
    <3>. HIDE DEF j, Down, Back, H, x, y
    <3>. QED BY <3>4, <3>6, <3>7, <3>8
  <2>. QED BY <2>3, <2>4
<1>7. \A g, h \in G : Down(g) = Down(h) => g = h
  <2>1. \A h \in G : /\ h = <<h[1], h[2], h[3]>> /\ h[2] \in Nat
                     /\ ~(h[1] = p /\ h[2] = i)
    <3>1. \A h \in G : h \in Refs /\ h # x /\ h # y
      BY <1>4
    <3>. HIDE DEF G
    <3>2. \A h \in Refs : h[2] \in Nat
      BY RefTriple, MaxFdsIsNatural
    <3>. QED BY <3>1, <3>2, RefTriple
  <2>. SUFFICES ASSUME NEW g \in G, NEW h \in G, Down(g) = Down(h) PROVE g = h
    OBVIOUS
  <2>2. /\ g[1] = h[1] /\ g[3] = h[3]
        /\ (IF g[1] = p /\ g[2] > i THEN g[2] - 1 ELSE g[2])
             = (IF h[1] = p /\ h[2] > i THEN h[2] - 1 ELSE h[2])
    OBVIOUS
  <2>. HIDE DEF G, Down
  <2>3. g[2] = h[2]
    BY <1>1, <2>1, <2>2
  <2>. QED BY <2>1, <2>2, <2>3
<1>8. f \in Bijection(G, H')
  <2>. HIDE DEF G, H, Down, Back
  <2>1. f \in [G -> H']
    BY <1>5
  <2>2. \A g, h \in G : f[g] = f[h] => g = h
    BY <1>7
  <2>3. \A h \in H' : \E g \in G : f[g] = h
    BY <1>6
  <2>. HIDE DEF f
  <2>. QED BY <2>1, <2>2, <2>3 DEF Bijection, Injection, Surjection, IsInjective
<1>9. IsFiniteSet(H) /\ Cardinality(H) \in Nat
  BY <1>4, Finite
<1>10. x # y /\ (x \in H <=> fd.sector = s) /\ (y \in H <=> fd.sector = s /\ fd.dir)
  <2>1. x \in Refs /\ y \in Refs
    <3>1. i \in 1 .. MaxFds
      BY <1>1, MaxFdsIsNatural
    <3>. QED BY <3>1, RefTriple
  <2>2. fd \in D
    BY <1>1
  <2>3. 1 <= Holds(fd) /\ (2 <= Holds(fd) <=> fd.dir)
    BY <2>2 DEF Holds
  <2>. HIDE DEF D
  <2>. QED BY <1>1, <2>1, <2>3 DEF FdHolds, Refs
<1>11. IsFiniteSet(G) /\ Cardinality(H') = Cardinality(G)
  <2>. HIDE DEF f, H, x, y, Down
  <2>1. IsFiniteSet(G)
    BY <1>9, FS_RemoveElement
  <2>. HIDE DEF G
  <2>. QED BY <1>8, <2>1, FS_Bijection DEF ExistsBijection
<1>12. Cardinality(G) = Cardinality(H) - (IF s = fd.sector THEN Holds(fd) ELSE 0)
  <2>. HIDE DEF H, x, y, fd
  <2>1. IsFiniteSet(H \ {x})
        /\ Cardinality(H \ {x}) = IF x \in H THEN Cardinality(H) - 1 ELSE Cardinality(H)
    BY <1>9, FS_RemoveElement
  <2>2. Cardinality(G) = IF y \in H \ {x} THEN Cardinality(H \ {x}) - 1 ELSE Cardinality(H \ {x})
    BY <2>1, FS_RemoveElement
  <2>3. Cardinality(G) = Cardinality(H) - (IF x \in H THEN 1 ELSE 0) - (IF y \in H THEN 1 ELSE 0)
    BY <1>9, <1>10, <2>1, <2>2
  <2>4. Holds(fd) = IF fd.dir THEN 2 ELSE 1
    BY DEF Holds
  <2>. QED BY <1>9, <1>10, <2>3, <2>4
<1>13. s = fd.sector => Cardinality(H) >= Holds(fd)
  <2>1. Cardinality(G) \in Nat
    <3>. HIDE DEF G
    <3>. QED BY <1>11, FS_CardinalityType
  <2>2. fd \in D
    BY <1>1
  <2>3. Holds(fd) \in {1, 2}
    BY <2>2, HoldsOneOrTwo
  <2>. HIDE DEF G, H, fd
  <2>. QED BY <1>9, <1>12, <2>1, <2>3
<1>14. Len(proc'[p].fds) <= MaxFds
  BY <1>1, <1>3, MaxFdsIsNatural
<1>. QED BY <1>3, <1>11, <1>12, <1>13, <1>14

---------------------------------------------------------------------------
(* Path names of calls *)

LEMMA PathParts ==
    ASSUME NEW path \in Paths
    PROVE  /\ path.abs \in BOOLEAN
           /\ path.parts # <<>> => /\ Len(path.parts) - 1 \in Nat
                                   /\ Last(path.parts) \in Names \cup {".", ".."}
           /\ BaseNames(path) \subseteq Names \cup {"", ".", ".."}
<1>1. path \in [abs : BOOLEAN, parts : Seq(Names \cup {".", ".."})]
  BY DirectoryAssumption
<1>. DEFINE W == Names \cup {".", ".."}
<1>2. path.abs \in BOOLEAN /\ path.parts \in Seq(W)
  BY <1>1
<1>. HIDE DEF W
<1>3. \A q \in Seq(W) : q # <<>> => Len(q) - 1 \in Nat /\ q[Len(q)] \in W
  OBVIOUS
<1>4. path.parts # <<>> => Len(path.parts) - 1 \in Nat /\ Last(path.parts) \in W
  BY <1>2, <1>3 DEF Last
<1>. QED BY <1>2, <1>4 DEF W, BaseNames

(* A process that may look a name up starts from a live directory. *)
LEMMA StartIsLive ==
    ASSUME IInv, NEW p \in Procs, NEW path \in Paths, path.abs \/ ~proc[p].gone
    PROVE  StartOf(p, path) \in LiveDirs
BY DEF IInv, Named, Users, StartOf

LEMMA NameLeadsToDir ==
    ASSUME IInv, NEW p \in Procs, NEW path \in Paths, path.abs \/ ~proc[p].gone
    PROVE  /\ resolve_name_to_entry(p, path) \in Walked
           /\ resolve_name_to_entry(p, path) \in Sectors =>
                 resolve_name_to_entry(p, path) \in LiveDirs
<1>1. TypeOK /\ Slots /\ Named
  BY DEF IInv
<1>2. StartOf(p, path) \in LiveDirs
  BY StartIsLive
<1>3. path.parts # <<>> => Len(path.parts) - 1 \in Nat
  BY PathParts
<1>4. resolve_name_to_entry(p, path) \in Walked
  BY <1>1, <1>2, <1>3, PathLeadsToDir
<1>. QED BY <1>4, SectorNumbers DEF Walked

(* What a name leads to, if it leads to an inode, is live. *)
LEMMA NameLeadsToInode ==
    ASSUME IInv, NEW p \in Procs, NEW path \in Paths, path.abs \/ ~proc[p].gone
    PROVE  /\ resolve_name_to_inode(p, path) \in Live \cup {NODIR, CRASH}
           /\ resolve_name_to_inode(p, path) \in Sectors =>
                 resolve_name_to_inode(p, path) \in Live
<1>1. TypeOK /\ Slots /\ Named
  BY DEF IInv
<1>2. CASE path.parts = <<>>
  <2>1. ROOT \in Live
    BY <1>1 DEF Named, LiveDirs
  <2>. QED BY <1>2, <2>1 DEF resolve_name_to_inode
<1>3. CASE path.parts # <<>>
  <2>. DEFINE d == resolve_name_to_entry(p, path)
  <2>1. d \in Walked
    BY <1>3, NameLeadsToDir
  <2>2. resolve_name_to_inode(p, path) =
           CASE d = FAILED -> NODIR
             [] d \in {NODIR, CRASH} -> CRASH
             [] OTHER -> lookup(d, Last(path.parts))
    BY <1>3 DEF resolve_name_to_inode
  <2>. HIDE DEF d
  <2>3. CASE d \in {FAILED, NODIR, CRASH}
    BY <2>2, <2>3, SectorNumbers
  <2>4. CASE d \in LiveDirs
    <3>1. d \in Sectors
      BY <1>1, <2>4 DEF LiveDirs, Live, TypeOK
    <3>2. d \notin {FAILED, NODIR, CRASH}
      BY <3>1, SectorNumbers
    <3>3. resolve_name_to_inode(p, path) = lookup(d, Last(path.parts))
      BY <2>2, <3>2
    <3>. QED BY <1>1, <2>4, <3>3, LookupLive, SectorNumbers
  <2>. QED BY <2>1, <2>3, <2>4 DEF Walked
<1>. QED BY <1>2, <1>3

---------------------------------------------------------------------------
(* Steps that leave the directories alone *)

LEMMA DiskStays ==
    ASSUME Files, Slots, Named, Reached, disk' = disk, Live' = Live
    PROVE  /\ Files' /\ Slots' /\ Named' /\ Reached'
           /\ LiveDirs' = LiveDirs
<1>1. LiveDirs' = LiveDirs
  BY DEF LiveDirs
<1>2. \A e : /\ ChildSlots(e)' = ChildSlots(e) /\ Children(e)' = Children(e)
             /\ Up(e)' = Up(e)
  BY DEF ChildSlots, Children, Up
<1>3. \A e \in Live : SameNames(e)
  BY <1>2 DEF SameNames
<1>4. Files'
  BY DEF Files
<1>. QED BY <1>1, <1>3, <1>4, NamesStay

(* The model stops. *)
LEMMA HaltKeeps ==
    ASSUME IInv, UNCHANGED <<disk, used, open, removed, deny, proc, lost>>,
           halted' \in {"torn directory", "double close", "null directory", "removed directory"}
    PROVE  IInv'
<1>1. Live' = Live
  BY DEF Live
<1>2. Files' /\ Slots' /\ Named' /\ Reached' /\ LiveDirs' = LiveDirs
  BY <1>1, DiskStays DEF IInv
<1>3. TypeOK'
  BY DEF IInv, TypeOK
<1>4. Uses'
  BY <1>1 DEF IInv, Uses
<1>5. Users'
  BY <1>2 DEF IInv, Users
<1>6. CountsExact'
  <2>1. \A s : FdHolds(s)' = FdHolds(s) /\ Runners(s)' = Runners(s)
    BY FdsStay, RunnersStay
  <2>. QED BY <2>1 DEF IInv, CountsExact, Openers
<1>. QED BY <1>2, <1>3, <1>4, <1>5, <1>6 DEF IInv

(* A process changes nothing but itself, and holds what it held. *)
LEMMA HoldersStay ==
    ASSUME IInv, UNCHANGED <<disk, used, open, removed, deny, lost, halted>>,
           proc' \in [Procs -> Processes],
           \A q \in Procs : proc'[q].fds = proc[q].fds /\ proc'[q].exe = proc[q].exe,
           Users'
    PROVE  IInv'
<1>1. Live' = Live
  BY DEF Live
<1>2. Files' /\ Slots' /\ Named' /\ Reached'
  BY <1>1, DiskStays DEF IInv
<1>3. TypeOK'
  BY DEF IInv, TypeOK
<1>4. Uses'
  BY <1>1 DEF IInv, Uses
<1>5. CountsExact'
  <2>1. \A s : FdHolds(s)' = FdHolds(s) /\ Runners(s)' = Runners(s)
    BY FdsStay, RunnersStay
  <2>. QED BY <2>1 DEF IInv, CountsExact, Openers
<1>. QED BY <1>2, <1>3, <1>4, <1>5 DEF IInv

LEMMA ChdirKeeps ==
    ASSUME IInv, NEW p \in Procs, NEW path \in Paths, sys_chdir(p, path)
    PROVE  IInv'
<1>. DEFINE s == resolve_name_to_inode(p, path)
<1>1. /\ path.abs \/ ~proc[p].gone
      /\ s \in Sectors /\ disk[s].type = "DIR"
      /\ proc' = [proc EXCEPT ![p].wd = s, ![p].gone = FALSE]
      /\ UNCHANGED <<disk, used, open, removed, deny, lost, halted>>
  BY DEF sys_chdir, Resolves
<1>2. s \in LiveDirs
  BY <1>1, NameLeadsToInode DEF LiveDirs
<1>. HIDE DEF s
<1>3. TypeOK /\ proc \in [Procs -> Processes]
  BY DEF IInv, TypeOK
<1>4. \A q \in Procs : proc[q] \in Processes
  BY <1>3
<1>5. /\ proc' \in [Procs -> Processes]
      /\ \A q \in Procs : proc'[q].fds = proc[q].fds /\ proc'[q].exe = proc[q].exe
                          /\ proc'[q].st = proc[q].st
      /\ \A q \in Procs \ {p} : proc'[q] = proc[q]
      /\ proc'[p].wd = s /\ proc'[p].gone = FALSE
  BY <1>1, <1>3, <1>4 DEF Processes
<1>6. LiveDirs' = LiveDirs
  BY <1>1 DEF LiveDirs, Live
<1>7. Users'
  BY <1>2, <1>5, <1>6 DEF IInv, Users
<1>. QED BY <1>1, <1>5, <1>7, HoldersStay

LEMMA NewProcType ==
    /\ NewProc \in Processes /\ NewProc.gone = FALSE /\ NewProc.wd = ROOT
    /\ NewProc.exe = NODIR /\ NewProc.fds = <<>> /\ NewProc.st = "none"
<1>1. <<>> \in Seq([sector : Sectors, dir : BOOLEAN]) /\ ROOT \in Sectors
  BY SectorNumbers
<1>. QED BY <1>1 DEF NewProc, Processes

LEMMA ExecKeeps ==
    ASSUME IInv, NEW p \in Procs, NEW q \in Procs, Exec(p, q)
    PROVE  IInv'
<1>. DEFINE new == [NewProc EXCEPT !.st = "new", !.wd = proc[p].wd, !.gone = proc[p].gone]
<1>1. /\ proc[p].st = "run" /\ proc[q].st = "none"
      /\ proc' = [proc EXCEPT ![q] = new]
      /\ UNCHANGED <<disk, used, open, removed, deny, lost, halted>>
  BY DEF Exec
<1>2. TypeOK /\ Users /\ proc \in [Procs -> Processes]
  BY DEF IInv, TypeOK
<1>3. /\ new.st = "new" /\ new.wd = proc[p].wd /\ new.gone = proc[p].gone
      /\ new.exe = NODIR /\ new.fds = <<>>
  BY DEF NewProc
<1>4. proc[q].fds = <<>> /\ proc[q].exe = NODIR
  BY <1>1, <1>2 DEF Users
<1>5. new \in Processes
  <2>1. proc[p].wd \in Sectors /\ proc[p].gone \in BOOLEAN
    BY <1>2, ProcTypes
  <2>. QED BY <2>1, NewProcType DEF Processes
<1>. HIDE DEF new
<1>6. /\ proc' \in [Procs -> Processes]
      /\ \A r \in Procs : proc'[r].fds = proc[r].fds /\ proc'[r].exe = proc[r].exe
      /\ \A r \in Procs \ {q} : proc'[r] = proc[r]
      /\ proc'[q] = new
  BY <1>1, <1>2, <1>3, <1>4, <1>5
<1>7. LiveDirs' = LiveDirs
  BY <1>1 DEF LiveDirs, Live
<1>8. Users'
  <2>1. Len(<<>>) <= MaxFds
    BY MaxFdsIsNatural
  <2>. QED BY <1>2, <1>3, <1>6, <1>7, <2>1 DEF Users
<1>. QED BY <1>1, <1>6, <1>8, HoldersStay

LEMMA StateChangeKeeps ==
    ASSUME IInv, NEW q \in Procs,
           \/ proc[q].st = "new" /\ proc' = [proc EXCEPT ![q].st = "exit"]
           \/ proc[q].st = "load" /\ \E st \in {"run", "exit"} : proc' = [proc EXCEPT ![q].st = st],
           UNCHANGED <<disk, used, open, removed, deny, lost, halted>>
    PROVE  IInv'
<1>1. PICK st \in {"run", "exit"} : proc' = [proc EXCEPT ![q].st = st]
  OBVIOUS
<1>2. TypeOK /\ Users /\ proc \in [Procs -> Processes]
  BY DEF IInv, TypeOK
<1>3. \A r \in Procs : proc[r] \in Processes
  BY <1>2
<1>4. /\ proc' \in [Procs -> Processes]
      /\ \A r \in Procs : /\ proc'[r].fds = proc[r].fds /\ proc'[r].exe = proc[r].exe
                          /\ proc'[r].wd = proc[r].wd /\ proc'[r].gone = proc[r].gone
      /\ \A r \in Procs \ {q} : proc'[r].st = proc[r].st
      /\ proc'[q].st = st
  BY <1>1, <1>2, <1>3 DEF Processes
<1>5. LiveDirs' = LiveDirs
  BY DEF LiveDirs, Live
<1>6. Users'
  BY <1>2, <1>4, <1>5 DEF Users
<1>. QED BY <1>4, <1>6, HoldersStay

LEMMA LoadNotFoundKeeps ==
    ASSUME IInv, NEW q \in Procs, NEW path \in Paths, LoadNotFound(q, path)
    PROVE  IInv'
BY StateChangeKeeps DEF LoadNotFound, Resolves

LEMMA LoadedKeeps ==
    ASSUME IInv, NEW q \in Procs, Loaded(q)
    PROVE  IInv'
<1>1. \E st \in {"run", "exit"} : proc' = [proc EXCEPT ![q].st = st]
  BY DEF Loaded
<1>. QED BY <1>1, StateChangeKeeps DEF Loaded

---------------------------------------------------------------------------
(* Opening and closing *)

LEMMA OpenKeeps ==
    ASSUME IInv, NEW p \in Procs, NEW path \in Paths, sys_open(p, path)
    PROVE  IInv'
<1>. DEFINE s  == resolve_name_to_inode(p, path)
            fd == [sector |-> s, dir |-> disk[s].type = "DIR"]
            D  == [sector : Sectors, dir : BOOLEAN]
<1>1. /\ path.abs \/ ~proc[p].gone
      /\ proc[p].st = "run"
      /\ s \in Sectors
      /\ Len(proc[p].fds) < MaxFds
      /\ open' = [open EXCEPT ![s] = @ + Holds(fd)]
      /\ proc' = [proc EXCEPT ![p].fds = Append(@, fd)]
      /\ UNCHANGED <<disk, used, removed, deny, lost, halted>>
  BY DEF sys_open, Resolves
<1>2. s \in Live
  BY <1>1, NameLeadsToInode
<1>3. fd \in D /\ fd.sector = s
  BY <1>1
<1>. HIDE DEF s, fd
<1>4. TypeOK /\ Uses /\ Users /\ CountsExact
      /\ proc \in [Procs -> Processes] /\ open \in [Sectors -> Nat]
  BY DEF IInv, TypeOK
<1>5. Holds(fd) \in {1, 2}
  BY <1>3, HoldsOneOrTwo
<1>6. /\ open' \in [Sectors -> Nat]
      /\ \A x \in Sectors : open'[x] = open[x] + (IF x = s THEN Holds(fd) ELSE 0)
  BY <1>1, <1>4, <1>5
<1>7. proc[p] \in Processes /\ proc[p].fds \in Seq(D) /\ Len(proc[p].fds) \in Nat
  BY <1>4, ProcTypes
<1>8. Append(proc[p].fds, fd) \in Seq(D) /\ Len(Append(proc[p].fds, fd)) = Len(proc[p].fds) + 1
  <2>. HIDE DEF D
  <2>. QED BY <1>3, <1>7
<1>9. /\ proc' \in [Procs -> Processes]
      /\ \A q \in Procs : proc'[q].exe = proc[q].exe /\ proc'[q].st = proc[q].st
                          /\ proc'[q].wd = proc[q].wd /\ proc'[q].gone = proc[q].gone
      /\ \A q \in Procs \ {p} : proc'[q].fds = proc[q].fds
      /\ proc'[p].fds = Append(proc[p].fds, fd)
  <2>1. [proc[p] EXCEPT !.fds = Append(proc[p].fds, fd)] \in Processes
    BY <1>7, <1>8 DEF Processes
  <2>. QED BY <1>1, <1>4, <1>7, <2>1 DEF Processes
<1>10. Live' = Live
  BY <1>1 DEF Live
<1>11. Files' /\ Slots' /\ Named' /\ Reached' /\ LiveDirs' = LiveDirs
  BY <1>1, <1>10, DiskStays DEF IInv
<1>12. TypeOK'
  BY <1>1, <1>4, <1>6, <1>9 DEF TypeOK
<1>13. Uses'
  BY <1>1, <1>2, <1>4, <1>6, <1>10 DEF Uses
<1>14. Users'
  <2>1. Len(proc'[p].fds) <= MaxFds
    BY <1>1, <1>7, <1>8, <1>9, MaxFdsIsNatural
  <2>. QED BY <1>1, <1>4, <1>9, <1>11, <2>1 DEF Users
<1>15. CountsExact'
  <2>. SUFFICES ASSUME NEW x \in Sectors
                PROVE  /\ open'[x] = Openers(x)'
                       /\ deny'[x] = Cardinality(Runners(x)')
                       /\ x \in removed' => open'[x] > 0
    BY DEF CountsExact
  <2>1. Runners(x)' = Runners(x)
    BY <1>9, RunnersStay
  <2>2. Cardinality(FdHolds(x)') = Cardinality(FdHolds(x)) + (IF x = s THEN Holds(fd) ELSE 0)
    BY <1>1, <1>3, <1>4, <1>9, FdAdded
  <2>3. /\ open[x] = Cardinality(Runners(x)) + Cardinality(FdHolds(x))
        /\ deny[x] = Cardinality(Runners(x))
        /\ x \in removed => open[x] > 0
    BY <1>4 DEF CountsExact, Openers
  <2>4. Cardinality(Runners(x)) \in Nat /\ Cardinality(FdHolds(x)) \in Nat
    BY Finite DEF Runners, FdHolds, Refs
  <2>5. Openers(x)' = Cardinality(Runners(x)') + Cardinality(FdHolds(x)')
    BY DEF Openers
  <2>. QED BY <1>1, <1>5, <1>6, <2>1, <2>2, <2>3, <2>4, <2>5
<1>. QED BY <1>11, <1>12, <1>13, <1>14, <1>15 DEF IInv

LEMMA LoadOpenKeeps ==
    ASSUME IInv, NEW q \in Procs, NEW path \in Paths, LoadOpen(q, path)
    PROVE  IInv'
<1>. DEFINE s == resolve_name_to_inode(q, path)
<1>1. /\ path.abs \/ ~proc[q].gone
      /\ proc[q].st = "new"
      /\ s \in Sectors
      /\ open' = [open EXCEPT ![s] = @ + 1]
      /\ deny' = [deny EXCEPT ![s] = @ + 1]
      /\ proc' = [proc EXCEPT ![q].st = "load", ![q].exe = s]
      /\ UNCHANGED <<disk, used, removed, lost, halted>>
  BY DEF LoadOpen, Resolves
<1>2. s \in Live
  BY <1>1, NameLeadsToInode
<1>. HIDE DEF s
<1>3. TypeOK /\ Uses /\ Users /\ CountsExact
      /\ proc \in [Procs -> Processes] /\ open \in [Sectors -> Nat] /\ deny \in [Sectors -> Nat]
  BY DEF IInv, TypeOK
<1>4. /\ open' \in [Sectors -> Nat] /\ deny' \in [Sectors -> Nat]
      /\ \A x \in Sectors : /\ open'[x] = open[x] + (IF x = s THEN 1 ELSE 0)
                            /\ deny'[x] = deny[x] + (IF x = s THEN 1 ELSE 0)
  BY <1>1, <1>3
<1>5. /\ proc' \in [Procs -> Processes]
      /\ \A r \in Procs : proc'[r].fds = proc[r].fds
                          /\ proc'[r].wd = proc[r].wd /\ proc'[r].gone = proc[r].gone
      /\ \A r \in Procs \ {q} : proc'[r].exe = proc[r].exe /\ proc'[r].st = proc[r].st
      /\ proc'[q].exe = s /\ proc'[q].st = "load"
  <2>1. \A r \in Procs : proc[r] \in Processes
    BY <1>3
  <2>. QED BY <1>1, <1>3, <2>1 DEF Processes
<1>6. Live' = Live
  BY <1>1 DEF Live
<1>7. Files' /\ Slots' /\ Named' /\ Reached' /\ LiveDirs' = LiveDirs
  BY <1>1, <1>6, DiskStays DEF IInv
<1>8. TypeOK'
  BY <1>1, <1>3, <1>4, <1>5 DEF TypeOK
<1>9. Uses'
  BY <1>1, <1>2, <1>3, <1>4, <1>6 DEF Uses
<1>10. Users'
  BY <1>1, <1>3, <1>5, <1>7 DEF Users
<1>11. CountsExact'
  <2>. SUFFICES ASSUME NEW x \in Sectors
                PROVE  /\ open'[x] = Openers(x)'
                       /\ deny'[x] = Cardinality(Runners(x)')
                       /\ x \in removed' => open'[x] > 0
    BY DEF CountsExact
  <2>1. FdHolds(x)' = FdHolds(x)
    BY <1>5, FdsStay
  <2>2. q \notin Runners(x)
    BY <1>1, <1>3, SectorNumbers DEF Runners, Users
  <2>3. Runners(x)' = IF x = s THEN Runners(x) \cup {q} ELSE Runners(x)
    BY <1>5, <2>2 DEF Runners
  <2>4. IsFiniteSet(Runners(x)) /\ Cardinality(Runners(x)) \in Nat /\ Cardinality(FdHolds(x)) \in Nat
    BY Finite DEF Runners, FdHolds, Refs
  <2>5. Cardinality(Runners(x)') = Cardinality(Runners(x)) + (IF x = s THEN 1 ELSE 0)
    <3>1. Cardinality(Runners(x) \cup {q}) = Cardinality(Runners(x)) + 1
      BY <2>2, <2>4, FS_AddElement
    <3>. QED BY <2>3, <2>4, <3>1
  <2>6. /\ open[x] = Cardinality(Runners(x)) + Cardinality(FdHolds(x))
        /\ deny[x] = Cardinality(Runners(x))
        /\ x \in removed => open[x] > 0
    BY <1>3 DEF CountsExact, Openers
  <2>7. Openers(x)' = Cardinality(Runners(x)') + Cardinality(FdHolds(x)')
    BY DEF Openers
  <2>. QED BY <1>1, <1>4, <2>1, <2>4, <2>5, <2>6, <2>7
<1>. QED BY <1>7, <1>8, <1>9, <1>10, <1>11 DEF IInv

(* inode_close frees the sector of a removed inode at the last close, so what
   is live stays. *)
LEMMA InodeClosed ==
    ASSUME IInv, NEW s \in Sectors, NEW k \in Nat, k <= open[s], inode_close(s, k), lost' = lost
    PROVE  /\ Live' = Live
           /\ used' \subseteq Sectors /\ ROOT \in used' /\ removed' \subseteq removed
           /\ removed' \cup lost \subseteq used' /\ removed' \cap lost = {}
           /\ open' \in [Sectors -> Nat]
           /\ \A x \in Sectors : /\ open'[x] = open[x] - (IF x = s THEN k ELSE 0)
                                 /\ open'[x] > 0 => x \in Live \cup removed'
                                 /\ x \in removed' => open'[x] > 0
<1>1. TypeOK /\ Uses /\ CountsExact /\ open \in [Sectors -> Nat]
  BY DEF IInv, TypeOK
<1>2. open' = [open EXCEPT ![s] = @ - k]
  BY DEF inode_close
<1>3. /\ open' \in [Sectors -> Nat]
      /\ \A x \in Sectors : open'[x] = open[x] - (IF x = s THEN k ELSE 0)
  BY <1>1, <1>2
<1>4. /\ removed \subseteq Sectors /\ used \subseteq Sectors /\ ROOT \in used
      /\ removed \cup lost \subseteq used /\ removed \cap lost = {}
      /\ ROOT \notin removed
      /\ \A x \in Sectors : open[x] > 0 => x \in Live \cup removed
      /\ \A x \in removed : open[x] > 0
  BY <1>1 DEF IInv, TypeOK, Uses, CountsExact, Named, LiveDirs, Live
<1>5. CASE open[s] = k /\ s \in removed
  <2>1. used' = used \ {s} /\ removed' = removed \ {s} /\ open'[s] = 0
    BY <1>1, <1>3, <1>5 DEF inode_close
  <2>2. Live' = Live
    BY <1>5, <2>1 DEF Live
  <2>3. \A x \in Sectors : open'[x] > 0 => x # s /\ open[x] > 0
    BY <1>1, <1>3, <2>1
  <2>4. \A x \in Sectors : open'[x] > 0 => x \in Live \cup removed'
    BY <1>4, <2>1, <2>3
  <2>5. \A x \in removed' : open'[x] > 0
    <3>1. \A x \in removed' : x \in Sectors /\ x # s /\ open[x] > 0
      BY <1>4, <2>1
    <3>. QED BY <1>1, <1>3, <3>1
  <2>6. used' \subseteq Sectors /\ ROOT \in used' /\ removed' \subseteq removed
        /\ removed' \cup lost \subseteq used' /\ removed' \cap lost = {}
    BY <1>4, <1>5, <2>1
  <2>. QED BY <1>3, <2>2, <2>4, <2>5, <2>6
<1>6. CASE ~(open[s] = k /\ s \in removed)
  <2>1. used' = used /\ removed' = removed
    BY <1>6 DEF inode_close
  <2>2. Live' = Live
    BY <2>1 DEF Live
  <2>3. \A x \in removed : open'[x] > 0
    BY <1>1, <1>3, <1>4, <1>6
  <2>4. \A x \in Sectors : open'[x] > 0 => open[x] > 0
    BY <1>1, <1>3
  <2>. QED BY <1>3, <1>4, <2>1, <2>2, <2>3, <2>4
<1>. QED BY <1>5, <1>6

LEMMA CloseKeeps ==
    ASSUME IInv, NEW p \in Procs, NEW i, sys_close(p, i)
    PROVE  IInv'
<1>. DEFINE fd == proc[p].fds[i]
            D  == [sector : Sectors, dir : BOOLEAN]
<1>1. /\ proc[p].st = "run"
      /\ i \in DOMAIN proc[p].fds
      /\ inode_close(fd.sector, Holds(fd))
      /\ proc' = [proc EXCEPT ![p].fds = RemoveAt(@, i)]
      /\ UNCHANGED <<disk, deny, lost, halted>>
  BY DEF sys_close
<1>2. TypeOK /\ Uses /\ Users /\ CountsExact /\ proc \in [Procs -> Processes]
  BY DEF IInv, TypeOK
<1>3. proc[p] \in Processes /\ fd \in D
  BY <1>1, <1>2, ProcTypes
<1>4. fd.sector \in Sectors /\ Holds(fd) \in Nat /\ Holds(fd) \in {1, 2}
  <2>1. Holds(fd) \in {1, 2} /\ fd.sector \in Sectors
    BY <1>3, HoldsOneOrTwo
  <2>. QED BY <2>1
<1>. HIDE DEF fd
<1>5. /\ proc'[p].fds = RemoveAt(proc[p].fds, i)
      /\ \A q \in Procs \ {p} : proc'[q].fds = proc[q].fds
      /\ \A q \in Procs : proc'[q].exe = proc[q].exe /\ proc'[q].st = proc[q].st
                          /\ proc'[q].wd = proc[q].wd /\ proc'[q].gone = proc[q].gone
  BY <1>1, <1>2, <1>3 DEF Processes
<1>6. Len(proc[p].fds) <= MaxFds
  BY <1>2 DEF Users
<1>7. /\ \A x \in Sectors :
            /\ Cardinality(FdHolds(x)') =
                  Cardinality(FdHolds(x)) - (IF x = fd.sector THEN Holds(fd) ELSE 0)
            /\ x = fd.sector => Cardinality(FdHolds(x)) >= Holds(fd)
      /\ Len(proc'[p].fds) <= MaxFds
      /\ proc'[p].fds \in Seq(D)
  <2>1. fd.sector \in Sectors
    BY <1>4
  <2>. QED BY <1>1, <1>2, <1>5, <1>6, <2>1, FdRemoved DEF fd
<1>8. \A x \in Sectors :
         /\ open[x] = Cardinality(Runners(x)) + Cardinality(FdHolds(x))
         /\ deny[x] = Cardinality(Runners(x))
         /\ Cardinality(Runners(x)) \in Nat /\ Cardinality(FdHolds(x)) \in Nat
  BY <1>2, Finite DEF CountsExact, Openers, Runners, FdHolds, Refs
<1>9. Holds(fd) <= open[fd.sector]
  BY <1>4, <1>7, <1>8
<1>10. /\ Live' = Live
       /\ used' \subseteq Sectors /\ ROOT \in used' /\ removed' \subseteq removed
       /\ removed' \cup lost \subseteq used' /\ removed' \cap lost = {}
       /\ open' \in [Sectors -> Nat]
       /\ \A x \in Sectors : /\ open'[x] = open[x] - (IF x = fd.sector THEN Holds(fd) ELSE 0)
                             /\ open'[x] > 0 => x \in Live \cup removed'
                             /\ x \in removed' => open'[x] > 0
  BY <1>1, <1>4, <1>9, InodeClosed
<1>11. Files' /\ Slots' /\ Named' /\ Reached' /\ LiveDirs' = LiveDirs
  BY <1>1, <1>10, DiskStays DEF IInv
<1>12. TypeOK'
  <2>1. [proc[p] EXCEPT !.fds = RemoveAt(proc[p].fds, i)] \in Processes
    BY <1>3, <1>5, <1>7 DEF Processes
  <2>2. proc' \in [Procs -> Processes]
    BY <1>1, <1>2, <2>1
  <2>. QED BY <1>1, <1>2, <1>10, <2>2 DEF TypeOK
<1>13. Uses'
  BY <1>1, <1>2, <1>10 DEF Uses
<1>14. Users'
  BY <1>1, <1>2, <1>5, <1>7, <1>11 DEF Users
<1>15. CountsExact'
  <2>1. \A x \in Sectors : Openers(x)' = Cardinality(Runners(x)') + Cardinality(FdHolds(x)')
    BY DEF Openers
  <2>2. \A x \in Sectors : Runners(x)' = Runners(x)
    BY <1>5, RunnersStay
  <2>. SUFFICES ASSUME NEW x \in Sectors
                PROVE  /\ open'[x] = Openers(x)'
                       /\ deny'[x] = Cardinality(Runners(x)')
                       /\ x \in removed' => open'[x] > 0
    BY DEF CountsExact
  <2>3. open'[x] = Openers(x)'
    <3>1. open[x] = Cardinality(Runners(x)) + Cardinality(FdHolds(x))
          /\ Cardinality(Runners(x)) \in Nat /\ Cardinality(FdHolds(x)) \in Nat
      BY <1>8
    <3>2. Cardinality(FdHolds(x)') =
             Cardinality(FdHolds(x)) - (IF x = fd.sector THEN Holds(fd) ELSE 0)
      BY <1>7
    <3>. QED BY <1>4, <1>10, <2>1, <2>2, <3>1, <3>2
  <2>4. deny'[x] = Cardinality(Runners(x)')
    BY <1>1, <1>8, <2>2
  <2>. QED BY <1>10, <2>3, <2>4
<1>. QED BY <1>11, <1>12, <1>13, <1>14, <1>15 DEF IInv

LEMMA ExitKeeps ==
    ASSUME IInv, NEW q \in Procs, Exit(q)
    PROVE  IInv'
<1>. DEFINE exe  == proc[q].exe
            dead == [NewProc EXCEPT !.st = "dead", !.fds = proc[q].fds]
<1>1. /\ proc' = [proc EXCEPT ![q] = dead]
      /\ IF exe = NODIR THEN UNCHANGED <<open, used, removed, deny>>
         ELSE inode_close(exe, 1) /\ deny' = [deny EXCEPT ![exe] = @ - 1]
      /\ UNCHANGED <<disk, lost, halted>>
  BY DEF Exit
<1>2. TypeOK /\ Uses /\ Users /\ CountsExact /\ proc \in [Procs -> Processes]
      /\ deny \in [Sectors -> Nat]
  BY DEF IInv, TypeOK
<1>3. /\ exe \in Sectors \cup {NODIR}
      /\ proc[q].fds \in Seq([sector : Sectors, dir : BOOLEAN])
  BY <1>2, ProcTypes
<1>4. /\ dead.st = "dead" /\ dead.wd = ROOT /\ dead.gone = FALSE
      /\ dead.exe = NODIR /\ dead.fds = proc[q].fds
      /\ dead \in Processes
  <2>1. dead.st = "dead" /\ dead.wd = ROOT /\ dead.gone = FALSE
        /\ dead.exe = NODIR /\ dead.fds = proc[q].fds
    BY DEF NewProc
  <2>2. dead \in Processes
    BY <1>3, NewProcType DEF Processes
  <2>. QED BY <2>1, <2>2
<1>. HIDE DEF dead
<1>5. /\ proc' \in [Procs -> Processes]
      /\ \A r \in Procs : proc'[r].fds = proc[r].fds
      /\ \A r \in Procs \ {q} : proc'[r] = proc[r]
      /\ proc'[q] = dead
  BY <1>1, <1>2, <1>4
<1>. HIDE DEF exe
<1>6. \A x \in Sectors :
         /\ open[x] = Cardinality(Runners(x)) + Cardinality(FdHolds(x))
         /\ deny[x] = Cardinality(Runners(x))
         /\ x \in removed => open[x] > 0
         /\ Cardinality(Runners(x)) \in Nat /\ Cardinality(FdHolds(x)) \in Nat
         /\ IsFiniteSet(Runners(x))
  BY <1>2, Finite DEF CountsExact, Openers, Runners, FdHolds, Refs
<1>7. \A x \in Sectors :
         /\ Runners(x)' = IF x = exe THEN Runners(x) \ {q} ELSE Runners(x)
         /\ x = exe => q \in Runners(x)
  <2>. TAKE x \in Sectors
  <2>1. x # NODIR
    BY SectorNumbers
  <2>2. Runners(x)' = Runners(x) \ {q}
    BY <1>4, <1>5, <2>1 DEF Runners
  <2>3. q \in Runners(x) <=> x = exe
    BY DEF Runners, exe
  <2>. QED BY <2>2, <2>3
<1>8. \A x \in Sectors :
         /\ Cardinality(Runners(x)') = Cardinality(Runners(x)) - (IF x = exe THEN 1 ELSE 0)
         /\ x = exe => Cardinality(Runners(x)) >= 1
  <2>. TAKE x \in Sectors
  <2>1. CASE x # exe
    BY <1>6, <1>7, <2>1
  <2>2. CASE x = exe
    <3>1. Cardinality(Runners(x) \ {q}) = Cardinality(Runners(x)) - 1
      BY <1>6, <1>7, <2>2, FS_RemoveElement
    <3>2. IsFiniteSet(Runners(x) \ {q})
      BY <1>6, FS_RemoveElement
    <3>3. Cardinality(Runners(x) \ {q}) \in Nat
      BY <3>2, FS_CardinalityType
    <3>4. Cardinality(Runners(x)) \in Nat
      BY <1>6
    <3>5. Runners(x)' = Runners(x) \ {q}
      BY <1>7, <2>2
    <3>6. Cardinality(Runners(x)') = Cardinality(Runners(x)) - 1
      BY <3>1, <3>5
    <3>7. Cardinality(Runners(x)) >= 1
      BY <3>1, <3>3, <3>4
    <3>. QED BY <2>2, <3>6, <3>7
  <2>. QED BY <2>1, <2>2
<1>9. /\ Live' = Live
      /\ used' \subseteq Sectors /\ ROOT \in used' /\ removed' \subseteq removed
      /\ removed' \cup lost \subseteq used' /\ removed' \cap lost = {}
      /\ open' \in [Sectors -> Nat] /\ deny' \in [Sectors -> Nat]
      /\ \A x \in Sectors : /\ open'[x] = open[x] - (IF x = exe THEN 1 ELSE 0)
                            /\ deny'[x] = deny[x] - (IF x = exe THEN 1 ELSE 0)
                            /\ open'[x] > 0 => x \in Live \cup removed'
                            /\ x \in removed' => open'[x] > 0
  <2>1. CASE exe = NODIR
    <3>1. UNCHANGED <<open, used, removed, deny, lost>>
      BY <1>1, <2>1 DEF exe
    <3>2. Live' = Live
      BY <3>1 DEF Live
    <3>3. \A x \in Sectors : x # exe /\ open[x] \in Nat /\ deny[x] \in Nat
      BY <1>2, <2>1, SectorNumbers DEF TypeOK
    <3>4. \A x \in Sectors : /\ open'[x] = open[x] - (IF x = exe THEN 1 ELSE 0)
                             /\ deny'[x] = deny[x] - (IF x = exe THEN 1 ELSE 0)
                             /\ open'[x] > 0 => x \in Live \cup removed'
                             /\ x \in removed' => open'[x] > 0
      BY <1>2, <1>6, <3>1, <3>3 DEF Uses
    <3>. QED BY <1>2, <3>1, <3>2, <3>4 DEF TypeOK, Uses
  <2>2. CASE exe \in Sectors
    <3>1. exe # NODIR
      BY <2>2, SectorNumbers
    <3>2. inode_close(exe, 1) /\ deny' = [deny EXCEPT ![exe] = @ - 1] /\ lost' = lost
      BY <1>1, <3>1 DEF exe
    <3>3. 1 <= open[exe] /\ 1 <= deny[exe]
      BY <1>6, <1>8, <2>2
    <3>4. deny' \in [Sectors -> Nat]
          /\ \A x \in Sectors : deny'[x] = deny[x] - (IF x = exe THEN 1 ELSE 0)
      <4>1. deny[exe] - 1 \in Nat
        BY <1>2, <2>2, <3>3
      <4>2. deny' \in [Sectors -> Nat]
        BY <1>2, <3>2, <4>1
      <4>3. \A x \in Sectors : deny[x] \in Nat
        BY <1>2
      <4>. QED BY <1>2, <3>2, <4>2, <4>3
    <3>. QED BY <2>2, <3>2, <3>3, <3>4, InodeClosed
  <2>. QED BY <1>3, <2>1, <2>2 DEF exe
<1>10. Files' /\ Slots' /\ Named' /\ Reached' /\ LiveDirs' = LiveDirs
  BY <1>1, <1>9, DiskStays DEF IInv
<1>11. TypeOK'
  BY <1>1, <1>2, <1>5, <1>9 DEF TypeOK
<1>12. Uses'
  BY <1>1, <1>2, <1>9 DEF Uses
<1>13. Users'
  <2>1. ROOT \in LiveDirs
    BY DEF IInv, Named
  <2>. QED BY <1>2, <1>4, <1>5, <1>10, <2>1 DEF Users
<1>14. CountsExact'
  <2>1. \A x \in Sectors : Openers(x)' = Cardinality(Runners(x)') + Cardinality(FdHolds(x)')
    BY DEF Openers
  <2>2. \A x \in Sectors : FdHolds(x)' = FdHolds(x)
    BY <1>5, FdsStay
  <2>. QED BY <1>6, <1>8, <1>9, <2>1, <2>2 DEF CountsExact
<1>. QED BY <1>10, <1>11, <1>12, <1>13, <1>14 DEF IInv

---------------------------------------------------------------------------
(* Names made and removed *)

(* dir_add writes in a slot that is not in use and touches no other. *)
LEMMA SlotAdded ==
    ASSUME NEW ents \in Seq(Slot), NEW e \in Slot
    PROVE  LET k   == SlotToAdd(ents)
               new == WithSlot(ents, k, e)
           IN  /\ k \in Nat /\ k > 0
               /\ k \in DOMAIN ents => ~InUse(ents[k])
               /\ new \in Seq(Slot) /\ Len(new) \in Nat /\ Len(new) >= Len(ents)
               /\ DOMAIN new = DOMAIN ents \cup {k}
               /\ new[k] = e
               /\ \A i \in DOMAIN ents : i # k => new[i] = ents[i]
<1>. DEFINE n    == Len(ents)
            Free == {i \in DOMAIN ents : ~InUse(ents[i])}
            k    == SlotToAdd(ents)
            new  == WithSlot(ents, k, e)
<1>1. n \in Nat /\ DOMAIN ents = 1 .. n
  OBVIOUS
<1>2. k \in Free \cup {n + 1} /\ \A i \in Free \cup {n + 1} : k <= i
  <2>1. Free \cup {n + 1} \subseteq Nat
    BY <1>1
  <2>2. Free \cup {n + 1} # {}
    OBVIOUS
  <2>3. k = Min(Free \cup {n + 1})
    BY DEF SlotToAdd
  <2>. HIDE DEF Free, k, n
  <2>. QED BY <2>1, <2>2, <2>3, HasLeast
<1>3. k \in 1 .. n + 1 /\ (k \in DOMAIN ents => ~InUse(ents[k]))
  <2>. HIDE DEF k
  <2>. QED BY <1>1, <1>2
<1>. HIDE DEF k
<1>4. new = IF k > n THEN Append(ents, e) ELSE [ents EXCEPT ![k] = e]
  BY DEF WithSlot
<1>. HIDE DEF new
<1>5. CASE k = n + 1
  <2>1. new = Append(ents, e)
    <3>1. k > n
      BY <1>1, <1>5
    <3>. QED BY <1>4, <3>1
  <2>2. /\ Append(ents, e) \in Seq(Slot) /\ Len(Append(ents, e)) = n + 1
        /\ DOMAIN Append(ents, e) = 1 .. n + 1 /\ Append(ents, e)[n + 1] = e
        /\ \A i \in 1 .. n : Append(ents, e)[i] = ents[i]
    OBVIOUS
  <2>3. 1 .. n + 1 = (1 .. n) \cup {n + 1}
    BY <1>1
  <2>4. DOMAIN new = DOMAIN ents \cup {k} /\ new \in Seq(Slot) /\ Len(new) = n + 1
        /\ new[k] = e /\ \A i \in DOMAIN ents : new[i] = ents[i]
    BY <1>1, <1>5, <2>1, <2>2, <2>3
  <2>. QED BY <1>1, <1>3, <2>4 DEF k, new
<1>6. CASE k \in 1 .. n
  <2>1. new = [ents EXCEPT ![k] = e]
    <3>1. ~(k > n)
      BY <1>1, <1>6
    <3>. HIDE DEF n
    <3>. QED BY <1>4, <3>1
  <2>2. new \in Seq(Slot) /\ Len(new) = n /\ DOMAIN new = 1 .. n /\ new[k] = e
        /\ \A i \in 1 .. n : i # k => new[i] = ents[i]
    BY <1>1, <1>6, <2>1
  <2>. QED BY <1>1, <1>3, <1>6, <2>2 DEF k, new
<1>. QED BY <1>1, <1>3, <1>5, <1>6

(* The same of a directory's slots that name something: if an entry in use is
   added there is one more, and if not they are the same. *)
LEMMA EntryAdded ==
    ASSUME TypeOK, Slots, Named, NEW d \in LiveDirs, NEW e \in Slot,
           disk'[d].type = disk[d].type,
           disk'[d].ents = WithSlot(disk[d].ents, SlotToAdd(disk[d].ents), e)
    PROVE  /\ InUse(e) => /\ GainsName(d, SlotToAdd(disk[d].ents), e.name, e.sector)
                          /\ SlotToAdd(disk[d].ents) \in ChildSlots(d)'
           /\ ~InUse(e) => SameNames(d)
           /\ disk'[d].ents \in Seq(Slot)
<1>. DEFINE ents == disk[d].ents
            k    == SlotToAdd(ents)
            new  == disk'[d].ents
<1>1. d \in Sectors /\ d \in Live
  BY DEF LiveDirs, Live, TypeOK
<1>2. ents \in Seq(Slot) /\ Len(ents) \in Nat /\ DOMAIN ents = 1 .. Len(ents)
  BY <1>1, InodeTypes
<1>. HIDE DEF ents, k, new
<1>3. /\ k \in Nat /\ k > 0
      /\ k \in DOMAIN ents => ~InUse(ents[k])
      /\ new \in Seq(Slot) /\ Len(new) \in Nat /\ Len(new) >= Len(ents)
      /\ DOMAIN new = DOMAIN ents \cup {k}
      /\ new[k] = e
      /\ \A i \in DOMAIN ents : i # k => new[i] = ents[i]
  <2>1. new = WithSlot(ents, k, e) /\ k = SlotToAdd(ents)
    BY DEF new, k, ents
  <2>. QED BY <1>2, <2>1, SlotAdded
<1>4. Len(ents) >= 2 /\ InUse(ents[1]) /\ InUse(ents[2])
  <2>1. Up(d) \in Sectors
    BY DEF Named, LiveDirs, Live, TypeOK
  <2>2. ents[1].sector = d /\ ents[2].sector = Up(d) /\ Len(ents) >= 2
    <3>1. disk[d].ents[1] = Entry(".", d) /\ Len(disk[d].ents) >= 2
      BY DEF Slots
    <3>. QED BY <3>1 DEF Entry, Up, ents
  <2>. QED BY <1>1, <2>1, <2>2, SectorNumbers DEF InUse
<1>5. 1 \in DOMAIN ents /\ 2 \in DOMAIN ents
  BY <1>2, <1>4
<1>6. k > 2
  BY <1>3, <1>4, <1>5
<1>7. \A i \in ChildSlots(d) : i \in DOMAIN ents /\ i > 2 /\ InUse(ents[i]) /\ i # k
  BY <1>3 DEF ChildSlots, ents
<1>8. ChildSlots(d)' = ChildSlots(d) \cup (IF InUse(e) THEN {k} ELSE {})
  <2>1. \A i : i \in ChildSlots(d) <=> i \in DOMAIN ents /\ i > 2 /\ InUse(ents[i])
    BY DEF ChildSlots, ents
  <2>2. \A i : i \in ChildSlots(d)' <=> i \in DOMAIN new /\ i > 2 /\ InUse(new[i])
    BY DEF ChildSlots, new
  <2>3. \A i \in DOMAIN ents : i # k => (i \in ChildSlots(d)' <=> i \in ChildSlots(d))
    BY <1>3, <2>1, <2>2
  <2>4. k \in ChildSlots(d)' <=> InUse(e)
    BY <1>3, <1>6, <2>2
  <2>5. \A i : i \in ChildSlots(d)' <=> i \in ChildSlots(d) \/ (InUse(e) /\ i = k)
    BY <1>3, <1>7, <2>1, <2>2, <2>3, <2>4
  <2>. QED BY <2>5
<1>9. \A i \in ChildSlots(d) \cup {1, 2} : new[i] = ents[i]
  BY <1>3, <1>5, <1>6, <1>7
<1>10. ASSUME ~InUse(e) PROVE SameNames(d)
  BY <1>2, <1>3, <1>8, <1>9, <1>10 DEF SameNames, ents, new
<1>11. ASSUME InUse(e) PROVE GainsName(d, k, e.name, e.sector) /\ k \in ChildSlots(d)'
  <2>1. new[k] = Entry(e.name, e.sector)
    BY <1>3 DEF Entry, Slot
  <2>2. k \notin ChildSlots(d) \cup {1, 2}
    BY <1>6, <1>7
  <2>3. ChildSlots(d)' = ChildSlots(d) \cup {k}
    BY <1>8, <1>11
  <2>. QED BY <1>3, <1>9, <2>1, <2>2, <2>3 DEF GainsName, ents, new
<1>. QED BY <1>3, <1>10, <1>11 DEF k, ents, new

(* What a call that makes a file finds. *)
LEMMA CreateStarts ==
    ASSUME IInv, NEW p \in Procs, NEW path \in Paths,
           NEW n \in BaseNames(path),
           NEW d, d = resolve_name_to_entry(p, path), MayCreate(p, path, d, n)
    PROVE  /\ d \in LiveDirs /\ d \in Sectors /\ d \in Live
           /\ free_map_allocate \in Sectors \ used /\ free_map_allocate \notin Live
           /\ free_map_allocate # d
           /\ open[free_map_allocate] = 0
           /\ n # "" => n \in Names
           /\ \A i \in ChildSlots(d) : disk[d].ents[i].name # n
<1>1. /\ path.abs \/ ~proc[p].gone
      /\ d \in Sectors
      /\ lookup(d, n) = NODIR /\ used # Sectors
  BY DEF MayCreate, Resolves
<1>2. TypeOK /\ Slots /\ Named /\ Uses
  BY DEF IInv
<1>3. d \in LiveDirs /\ d \in Live
  BY <1>1, NameLeadsToDir DEF LiveDirs
<1>. DEFINE s == free_map_allocate
<1>4. s \in Sectors \ used
  <2>1. Sectors \ used \subseteq Nat /\ Sectors \ used # {}
    <3>1. Sectors \subseteq Nat /\ used \subseteq Sectors
      BY <1>2, SectorNumbers DEF TypeOK
    <3>. QED BY <1>1, <3>1
  <2>. QED BY <2>1, HasLeast DEF free_map_allocate
<1>. HIDE DEF s
<1>5. s \notin Live /\ s # d
  BY <1>3, <1>4 DEF Live
<1>6. open[s] = 0
  <2>1. open[s] \in Nat /\ ~(open[s] > 0)
    BY <1>2, <1>4, <1>5 DEF TypeOK, Uses
  <2>. QED BY <2>1
<1>7. n # "" => n \in Names
  <2>1. n \in Names \cup {"", ".", ".."}
    BY PathParts
  <2>2. d # NODIR /\ Up(d) # NODIR
    <3>1. Up(d) \in Sectors
      BY <1>2, <1>3 DEF Named, LiveDirs, Live, TypeOK
    <3>. QED BY <1>1, <3>1, SectorNumbers
  <2>3. n \notin {".", ".."}
    BY <1>1, <1>2, <1>3, <2>2, LookupLive
  <2>. QED BY <2>1, <2>3
<1>8. ASSUME NEW i \in ChildSlots(d), disk[d].ents[i].name = n PROVE FALSE
  <2>1. SlotsOf(d, n) = {i}
    BY <1>2, <1>3, <1>8, SlotsOfDir
  <2>2. lookup(d, n) \in Sectors
    BY <1>1, <1>2, <2>1, Lookup
  <2>. QED BY <1>1, <2>2, SectorNumbers
<1>. QED BY <1>1, <1>3, <1>4, <1>5, <1>6, <1>7, <1>8 DEF s

(* The inodes that are made. *)
LEMMA NewInodeType ==
    ASSUME NEW s \in Sectors, NEW d \in Sectors, NEW type \in {"FILE", "DIR"}
    PROVE  /\ NewInode(s, d, type) \in {FileInode, DirInode(s, d)}
           /\ NewInode(s, d, type) \in Inodes
           /\ NewInode(s, d, type).type = type
           /\ type = "FILE" => NewInode(s, d, type).ents = <<>>
<1>1. Entry(".", s) \in Slot /\ Entry("..", d) \in Slot
  BY DEF Entry, Slot
<1>2. <<Entry(".", s), Entry("..", d)>> \in Seq(Slot) /\ <<>> \in Seq(Slot)
  BY <1>1
<1>3. \A q \in Seq(Slot) : [type |-> "FILE", ents |-> q] \in Inodes
                           /\ [type |-> "DIR", ents |-> q] \in Inodes
  BY DEF Inodes, Slot
<1>. QED BY <1>2, <1>3 DEF NewInode, FileInode, DirInode

(* Nobody's references change. *)
LEMMA CountsStay ==
    ASSUME CountsExact, \A x \in removed' : x \in Sectors /\ open[x] > 0,
           UNCHANGED <<open, deny>>,
           \A q \in Procs : proc'[q].fds = proc[q].fds /\ proc'[q].exe = proc[q].exe
    PROVE  CountsExact'
<1>1. \A s : FdHolds(s)' = FdHolds(s) /\ Runners(s)' = Runners(s)
  BY FdsStay, RunnersStay
<1>. QED BY <1>1 DEF CountsExact, Openers

(* What sys_create does to the names. *)
LEMMA CreateNames ==
    ASSUME IInv, NEW p \in Procs, NEW path \in Paths, NEW type \in {"FILE", "DIR"},
           NEW nm \in BaseNames(path),
           NEW d, d = resolve_name_to_entry(p, path), sys_create(p, path, nm, type)
    PROVE  LET s == free_map_allocate
               k == SlotToAdd(disk[d].ents)
           IN  /\ d \in LiveDirs /\ s \in Sectors \ used /\ s \notin Live /\ open[s] = 0
               /\ nm \in Names
               /\ \A i \in ChildSlots(d) : disk[d].ents[i].name # nm
               /\ Live' = Live \cup {s}
               /\ \A e \in Live \ {d} : disk'[e] = disk[e]
               /\ disk'[s] = NewInode(s, d, type)
               /\ GainsName(d, k, nm, s)
               /\ k \in ChildSlots(d)'
               /\ TypeOK' /\ Files'
<1>. DEFINE s  == free_map_allocate
            k  == SlotToAdd(disk[d].ents)
            new == WithSlot(disk[d].ents, k, Entry(nm, s))
<1>1. MayCreate(p, path, d, nm) /\ nm # ""
  BY DEF sys_create
<1>2. /\ d \in LiveDirs /\ d \in Sectors /\ d \in Live
      /\ s \in Sectors \ used /\ s \notin Live /\ s # d /\ open[s] = 0
      /\ nm \in Names
      /\ \A i \in ChildSlots(d) : disk[d].ents[i].name # nm
  BY <1>1, CreateStarts
<1>3. /\ used' = used \cup {s}
      /\ disk' = [disk EXCEPT ![s] = NewInode(s, d, type),
                              ![d].ents = WithSlot(@, SlotToAdd(@), Entry(nm, s))]
      /\ UNCHANGED <<open, removed, deny, proc, lost, halted>>
  BY DEF sys_create
<1>. HIDE DEF s
<1>4. TypeOK /\ Files /\ Slots /\ Named /\ Uses /\ disk \in [Sectors -> Inodes]
  BY DEF IInv, TypeOK
<1>5. /\ disk'[s] = NewInode(s, d, type)
      /\ disk'[d] = [disk[d] EXCEPT !.ents = new]
      /\ \A e \in Sectors : e # s /\ e # d => disk'[e] = disk[e]
      /\ DOMAIN disk' = Sectors
  BY <1>2, <1>3, <1>4
<1>6. disk'[d].type = disk[d].type /\ disk'[d].ents = new
  <2>1. disk[d] \in Inodes
    BY <1>2, <1>4
  <2>. HIDE DEF new
  <2>. QED BY <1>5, <2>1 DEF Inodes
<1>7. Entry(nm, s) \in Slot /\ InUse(Entry(nm, s))
      /\ Entry(nm, s).name = nm /\ Entry(nm, s).sector = s
  BY <1>2, SectorNumbers DEF Entry, Slot, InUse
<1>8. GainsName(d, k, nm, s) /\ k \in ChildSlots(d)' /\ disk'[d].ents \in Seq(Slot)
  BY <1>2, <1>4, <1>6, <1>7, EntryAdded
<1>9. Live' = Live \cup {s}
  BY <1>2, <1>3, <1>4 DEF Live, Uses
<1>10. TypeOK'
  <2>1. disk'[s] \in Inodes
    BY <1>2, <1>5, NewInodeType
  <2>2. disk'[d] \in Inodes
    <3>1. disk[d] \in Inodes
      BY <1>2, <1>4
    <3>. HIDE DEF new
    <3>. QED BY <1>5, <1>6, <1>8, <3>1 DEF Inodes, Slot
  <2>3. disk' \in [Sectors -> Inodes]
    <3>1. \A e \in Sectors : disk'[e] \in Inodes
      BY <1>4, <1>5, <2>1, <2>2
    <3>2. disk' = [e \in Sectors |-> disk'[e]]
      BY <1>3, <1>4
    <3>. QED BY <3>1, <3>2
  <2>. QED BY <1>2, <1>3, <1>4, <2>3 DEF TypeOK
<1>11. Files'
  <2>1. disk[d].type = "DIR"
    BY <1>2 DEF LiveDirs
  <2>2. disk'[s].type = "FILE" => disk'[s].ents = <<>>
    BY <1>2, <1>5, NewInodeType
  <2>. QED BY <1>4, <1>5, <1>6, <2>1, <2>2 DEF Files
<1>12. \A e \in Live \ {d} : disk'[e] = disk[e]
  BY <1>2, <1>4, <1>5 DEF Live, TypeOK
<1>. QED BY <1>2, <1>5, <1>8, <1>9, <1>10, <1>11, <1>12 DEF s

LEMMA CreateKeeps ==
    ASSUME IInv, NEW p \in Procs, NEW path \in Paths, NEW type \in {"FILE", "DIR"},
           NEW nm \in BaseNames(path), sys_create(p, path, nm, type)
    PROVE  IInv'
<1>. PICK d : d = resolve_name_to_entry(p, path)
  OBVIOUS
<1>. DEFINE s  == free_map_allocate
            k  == SlotToAdd(disk[d].ents)
<1>1. /\ d \in LiveDirs /\ s \in Sectors \ used /\ s \notin Live
      /\ nm \in Names
      /\ \A i \in ChildSlots(d) : disk[d].ents[i].name # nm
      /\ Live' = Live \cup {s}
      /\ \A e \in Live \ {d} : disk'[e] = disk[e]
      /\ disk'[s] = NewInode(s, d, type)
      /\ GainsName(d, k, nm, s)
      /\ TypeOK' /\ Files'
  BY CreateNames
<1>2. used' = used \cup {s} /\ UNCHANGED <<open, removed, deny, proc, lost, halted>>
  BY DEF sys_create
<1>. HIDE DEF s, k
<1>3. TypeOK /\ Slots /\ Named /\ Reached /\ Uses /\ Users /\ CountsExact
  BY DEF IInv
<1>4. d \in Sectors
  BY <1>1, <1>3 DEF LiveDirs, Live, TypeOK
<1>5. disk'[s] \in {FileInode, DirInode(s, d)}
  BY <1>1, <1>4, NewInodeType
<1>6. Slots' /\ Named' /\ Reached'
  BY <1>1, <1>3, <1>5, NameGained
<1>7. LiveDirs \subseteq LiveDirs'
  BY <1>1 DEF LiveDirs, GainsName
<1>8. Uses'
  <2>1. \A x \in removed : disk'[x].type = "FILE"
    <3>1. \A x \in removed : x # s /\ x # d
      BY <1>1, <1>3 DEF Uses, LiveDirs, Live
    <3>2. \A x \in Sectors : x # s /\ x # d => disk'[x] = disk[x]
      <4>1. disk' = [disk EXCEPT ![s] = NewInode(s, d, type),
                                 ![d].ents = WithSlot(@, SlotToAdd(@), Entry(nm, s))]
        BY DEF sys_create, s
      <4>. QED BY <1>3, <4>1 DEF TypeOK
    <3>. QED BY <1>3, <3>1, <3>2 DEF Uses, TypeOK
  <2>. QED BY <1>1, <1>2, <1>3, <2>1 DEF Uses
<1>9. Users'
  BY <1>2, <1>3, <1>7 DEF Users
<1>10. CountsExact'
  BY <1>2, <1>3, CountsStay DEF CountsExact, TypeOK
<1>. QED BY <1>1, <1>6, <1>8, <1>9, <1>10 DEF IInv

(* A create that fails leaves the names as they were. *)
LEMMA FailNames ==
    ASSUME IInv, NEW p \in Procs, NEW path \in Paths, NEW type \in {"FILE", "DIR"},
           NEW nm \in BaseNames(path),
           NEW d, d = resolve_name_to_entry(p, path), CreateFails(p, path, nm, type)
    PROVE  /\ \A e \in Live : SameNames(e)
           /\ Live' = Live /\ free_map_allocate \in Sectors \ used
           /\ \A e \in Sectors \ {free_map_allocate} : disk'[e].type = disk[e].type
           /\ TypeOK' /\ Files'
<1>. DEFINE s  == free_map_allocate
            refused == nm = "" \/ deny[d] > 0
            new == IF refused THEN disk[d].ents
                   ELSE WithSlot(disk[d].ents, SlotToAdd(disk[d].ents), HOLE)
<1>1. MayCreate(p, path, d, nm)
  BY DEF CreateFails
<1>2. /\ d \in LiveDirs /\ d \in Sectors /\ d \in Live
      /\ s \in Sectors \ used /\ s \notin Live /\ s # d
  BY <1>1, CreateStarts
<1>3. /\ used' = used \cup {s} /\ lost' = lost \cup {s}
      /\ disk' = [disk EXCEPT ![s] = NewInode(s, d, type),
                              ![d].ents = IF refused THEN @
                                          ELSE WithSlot(@, SlotToAdd(@), HOLE)]
      /\ UNCHANGED <<open, removed, deny, proc, halted>>
  BY DEF CreateFails
<1>. HIDE DEF s, refused
<1>4. TypeOK /\ Files /\ Slots /\ Named /\ Uses /\ disk \in [Sectors -> Inodes]
  BY DEF IInv, TypeOK
<1>5. /\ disk'[s] = NewInode(s, d, type)
      /\ disk'[d] = [disk[d] EXCEPT !.ents = new]
      /\ \A e \in Sectors : e # s /\ e # d => disk'[e] = disk[e]
  BY <1>2, <1>3, <1>4
<1>6. disk'[d].type = disk[d].type /\ disk'[d].ents = new
  <2>1. disk[d] \in Inodes
    BY <1>2, <1>4
  <2>. HIDE DEF new
  <2>. QED BY <1>5, <2>1 DEF Inodes
<1>7. SameNames(d) /\ new \in Seq(Slot)
  <2>1. CASE refused
    <3>1. disk'[d].ents = disk[d].ents
      BY <1>6, <2>1
    <3>2. ChildSlots(d)' = ChildSlots(d)
      BY <3>1 DEF ChildSlots
    <3>3. disk[d].ents \in Seq(Slot)
      BY <1>2, <1>4, InodeTypes
    <3>. QED BY <1>6, <3>1, <3>2, <3>3 DEF SameNames
  <2>2. CASE ~refused
    <3>1. HOLE \in Slot /\ ~InUse(HOLE)
      BY DEF HOLE, Entry, Slot, InUse
    <3>2. disk'[d].ents = WithSlot(disk[d].ents, SlotToAdd(disk[d].ents), HOLE)
      BY <1>6, <2>2
    <3>3. SameNames(d) /\ disk'[d].ents \in Seq(Slot)
      BY <1>2, <1>4, <1>6, <3>1, <3>2, EntryAdded
    <3>. QED BY <1>6, <3>3
  <2>. QED BY <2>1, <2>2
<1>. HIDE DEF new
<1>8. Live' = Live
  BY <1>2, <1>3 DEF Live
<1>9. ASSUME NEW e \in Live, e # d PROVE SameNames(e)
  <2>1. disk'[e] = disk[e]
    BY <1>2, <1>4, <1>5, <1>9 DEF Live, TypeOK
  <2>2. ChildSlots(e)' = ChildSlots(e)
    BY <2>1 DEF ChildSlots
  <2>. QED BY <2>1, <2>2 DEF SameNames
<1>10. TypeOK'
  <2>1. disk'[s] \in Inodes
    BY <1>2, <1>5, NewInodeType
  <2>2. disk'[d] \in Inodes
    <3>1. disk[d] \in Inodes
      BY <1>2, <1>4
    <3>. QED BY <1>5, <1>7, <3>1 DEF Inodes, Slot
  <2>3. disk' \in [Sectors -> Inodes]
    <3>1. \A e \in Sectors : disk'[e] \in Inodes
      BY <1>4, <1>5, <2>1, <2>2
    <3>2. disk' = [e \in Sectors |-> disk'[e]]
      BY <1>3, <1>4
    <3>. QED BY <3>1, <3>2
  <2>. QED BY <1>2, <1>3, <1>4, <2>3 DEF TypeOK
<1>11. Files'
  <2>1. disk[d].type = "DIR"
    BY <1>2 DEF LiveDirs
  <2>2. disk'[s].type = "FILE" => disk'[s].ents = <<>>
    BY <1>2, <1>5, NewInodeType
  <2>. QED BY <1>4, <1>5, <1>6, <2>1, <2>2 DEF Files
<1>12. \A e \in Sectors \ {s} : disk'[e].type = disk[e].type
  BY <1>5, <1>6
<1>. QED BY <1>2, <1>7, <1>8, <1>9, <1>10, <1>11, <1>12 DEF s

LEMMA FailKeeps ==
    ASSUME IInv, NEW p \in Procs, NEW path \in Paths, NEW type \in {"FILE", "DIR"},
           NEW nm \in BaseNames(path), CreateFails(p, path, nm, type)
    PROVE  IInv'
<1>. DEFINE s == free_map_allocate
<1>1. /\ \A e \in Live : SameNames(e)
      /\ Live' = Live /\ s \in Sectors \ used
      /\ \A e \in Sectors \ {s} : disk'[e].type = disk[e].type
      /\ TypeOK' /\ Files'
  BY FailNames
<1>2. /\ used' = used \cup {s} /\ lost' = lost \cup {s}
      /\ UNCHANGED <<open, removed, deny, proc, halted>>
  BY DEF CreateFails
<1>. HIDE DEF s
<1>3. TypeOK /\ Slots /\ Named /\ Reached /\ Uses /\ Users /\ CountsExact
  BY DEF IInv
<1>4. Slots' /\ Named' /\ Reached'
  BY <1>1, <1>3, NamesStay
<1>5. LiveDirs' = LiveDirs
  BY <1>1 DEF LiveDirs, SameNames
<1>6. Uses'
  <2>1. \A x \in removed : x \in Sectors \ {s}
    BY <1>1, <1>3 DEF Uses, TypeOK
  <2>. QED BY <1>1, <1>2, <1>3, <2>1 DEF Uses
<1>7. Users'
  BY <1>2, <1>3, <1>5 DEF Users
<1>8. CountsExact'
  BY <1>2, <1>3, CountsStay DEF CountsExact, TypeOK
<1>. QED BY <1>1, <1>4, <1>6, <1>7, <1>8 DEF IInv


(* What sys_remove does to the names. *)
LEMMA RemoveNames ==
    ASSUME IInv, NEW p \in Procs, NEW path \in Paths,
           NEW n \in BaseNames(path),
           NEW d, d = resolve_name_to_entry(p, path), sys_remove(p, path, n)
    PROVE  LET s == lookup(d, n)
               k == Min(SlotsOf(d, n))
           IN  /\ d \in LiveDirs /\ s \in Live \ {ROOT} /\ Children(s) = {}
               /\ disk[s].type = "DIR" => open[s] = 0
               /\ s = disk[d].ents[k].sector /\ n = disk[d].ents[k].name
               /\ Live' = Live \ {s}
               /\ \A e \in Live \ {d} : disk'[e] = disk[e]
               /\ \A e \in Sectors : disk'[e].type = disk[e].type
               /\ LosesName(d, k)
               /\ TypeOK' /\ Files'
<1>. DEFINE s == lookup(d, n)
            k == Min(SlotsOf(d, n))
            new == [disk[d].ents EXCEPT ![k] = UNUSED]
<1>1. /\ path.abs \/ ~proc[p].gone
      /\ n \notin {".", ".."} /\ d \in Sectors /\ s \in Sectors
      /\ disk[s].type = "DIR" => dir_is_empty(s) /\ open[s] = 0
      /\ disk' = [disk EXCEPT ![d].ents[k] = UNUSED]
      /\ IF open[s] = 0
         THEN used' = used \ {s} /\ UNCHANGED removed
         ELSE removed' = removed \cup {s} /\ UNCHANGED used
      /\ proc' = [q \in Procs |-> [proc[q] EXCEPT !.gone = @ \/ proc[q].wd = s]]
      /\ UNCHANGED <<open, deny, lost, halted>>
  BY DEF sys_remove, Resolves
<1>2. TypeOK /\ Files /\ Slots /\ Named /\ Uses /\ disk \in [Sectors -> Inodes]
  BY DEF IInv, TypeOK
<1>3. d \in LiveDirs /\ d \in Live
  BY <1>1, NameLeadsToDir DEF LiveDirs
<1>4. /\ s \in Live
      /\ k \in ChildSlots(d) /\ disk[d].ents[k].name = n /\ disk[d].ents[k].sector = s
  BY <1>1, <1>2, <1>3, SectorNumbers, LookupLive
<1>5. s # ROOT
  BY <1>2, <1>3, <1>4 DEF Named
<1>. HIDE DEF s, k
<1>6. Children(s) = {}
  <2>1. CASE disk[s].type = "DIR"
    BY <1>1, <2>1 DEF dir_is_empty, Children, ChildSlots
  <2>2. CASE disk[s].type = "FILE"
    <3>1. disk[s].ents = <<>>
      BY <1>1, <1>2, <2>2 DEF Files
    <3>. QED BY <3>1 DEF Children, ChildSlots
  <2>. QED BY <1>1, <1>2, <2>1, <2>2, InodeTypes
<1>7. Live' = Live \ {s}
  BY <1>1, <1>4 DEF Live
<1>8. /\ disk'[d] = [disk[d] EXCEPT !.ents = new]
      /\ \A e \in Sectors : e # d => disk'[e] = disk[e]
  BY <1>1, <1>2
<1>9. disk'[d].type = disk[d].type /\ disk'[d].ents = new
  <2>1. disk[d] \in Inodes
    BY <1>1, <1>2
  <2>. HIDE DEF new
  <2>. QED BY <1>8, <2>1 DEF Inodes
<1>10. UNUSED \in Slot /\ ~InUse(UNUSED)
  BY DEF UNUSED, Entry, Slot, InUse
<1>11. disk[d].ents \in Seq(Slot) /\ k \in DOMAIN disk[d].ents /\ k > 2 /\ k \in Nat
  <2>1. disk[d].ents \in Seq(Slot)
    BY <1>1, <1>2, InodeTypes
  <2>2. k \in DOMAIN disk[d].ents /\ k > 2
    BY <1>4 DEF ChildSlots
  <2>. QED BY <1>1, <1>2, <2>1, <2>2, InodeTypes
<1>12. /\ new \in Seq(Slot) /\ Len(new) = Len(disk[d].ents)
       /\ DOMAIN new = DOMAIN disk[d].ents
       /\ new[k] = UNUSED
       /\ \A i \in DOMAIN disk[d].ents : i # k => new[i] = disk[d].ents[i]
  BY <1>10, <1>11
<1>13. LosesName(d, k)
  <2>. HIDE DEF new
  <2>1. ChildSlots(d)' = ChildSlots(d) \ {k}
    BY <1>9, <1>10, <1>12 DEF ChildSlots
  <2>2. {1, 2} \subseteq DOMAIN disk[d].ents
    BY <1>2, <1>3, SlotsOfDir
  <2>3. \A i \in (ChildSlots(d) \cup {1, 2}) \ {k} : disk'[d].ents[i] = disk[d].ents[i]
    BY <1>9, <1>12, <2>2 DEF ChildSlots
  <2>4. k \notin {1, 2}
    BY <1>11
  <2>. QED BY <1>4, <1>9, <1>12, <2>1, <2>3, <2>4 DEF LosesName
<1>. HIDE DEF new
<1>14. TypeOK'
  <2>1. disk'[d] \in Inodes
    <3>1. disk[d] \in Inodes
      BY <1>1, <1>2
    <3>. QED BY <1>8, <1>12, <3>1 DEF Inodes, Slot
  <2>2. disk' \in [Sectors -> Inodes]
    <3>1. \A e \in Sectors : disk'[e] \in Inodes
      BY <1>2, <1>8, <2>1
    <3>2. disk' = [e \in Sectors |-> disk'[e]]
      BY <1>1, <1>2
    <3>. QED BY <3>1, <3>2
  <2>3. proc' \in [Procs -> Processes]
    <3>1. \A q \in Procs : [proc[q] EXCEPT !.gone = @ \/ proc[q].wd = s] \in Processes
      <4>. TAKE q \in Procs
      <4>1. proc[q] \in Processes /\ (proc[q].gone \/ proc[q].wd = s) \in BOOLEAN
        BY <1>2 DEF TypeOK
      <4>. QED BY <4>1 DEF Processes
    <3>. QED BY <1>1, <3>1
  <2>4. used' \subseteq Sectors /\ ROOT \in used' /\ removed' \subseteq Sectors
    BY <1>1, <1>2, <1>5 DEF TypeOK
  <2>. QED BY <1>1, <1>2, <2>2, <2>3, <2>4 DEF TypeOK
<1>15. \A e \in Sectors : disk'[e].type = disk[e].type
  BY <1>8, <1>9
<1>16. Files'
  <2>1. disk[d].type = "DIR"
    BY <1>3 DEF LiveDirs
  <2>. QED BY <1>2, <1>8, <1>9, <2>1 DEF Files
<1>17. \A e \in Live \ {d} : disk'[e] = disk[e]
  BY <1>2, <1>8 DEF Live, TypeOK
<1>. QED BY <1>1, <1>3, <1>4, <1>5, <1>6, <1>7, <1>13, <1>14, <1>15, <1>16, <1>17 DEF s, k

LEMMA RemoveKeeps ==
    ASSUME IInv, NEW p \in Procs, NEW path \in Paths,
           NEW n \in BaseNames(path), sys_remove(p, path, n)
    PROVE  IInv'
<1>. PICK d : d = resolve_name_to_entry(p, path)
  OBVIOUS
<1>. PICK s : s = lookup(d, n)
  OBVIOUS
<1>. PICK k : k = Min(SlotsOf(d, n))
  OBVIOUS
<1>1. /\ d \in LiveDirs /\ s \in Live \ {ROOT} /\ Children(s) = {}
      /\ disk[s].type = "DIR" => open[s] = 0
      /\ s = disk[d].ents[k].sector
      /\ Live' = Live \ {s}
      /\ \A e \in Live \ {d} : disk'[e] = disk[e]
      /\ \A e \in Sectors : disk'[e].type = disk[e].type
      /\ LosesName(d, k)
      /\ TypeOK' /\ Files'
  BY RemoveNames
<1>2. /\ IF open[s] = 0
         THEN used' = used \ {s} /\ UNCHANGED removed
         ELSE removed' = removed \cup {s} /\ UNCHANGED used
      /\ proc' = [q \in Procs |-> [proc[q] EXCEPT !.gone = @ \/ proc[q].wd = s]]
      /\ UNCHANGED <<open, deny, lost, halted>>
  BY DEF sys_remove
<1>3. TypeOK /\ Slots /\ Named /\ Reached /\ Uses /\ Users /\ CountsExact
  BY DEF IInv
<1>4. Slots' /\ Named' /\ Reached'
  BY <1>1, <1>3, NameLost
<1>5. LiveDirs' = LiveDirs \ {s}
  BY <1>1, <1>3 DEF LiveDirs, Live, TypeOK
<1>6. s \in Sectors /\ s \in used /\ s \notin removed /\ s \notin lost
  BY <1>1, <1>3 DEF Live, TypeOK
<1>7. disk[s].type = "FILE" \/ open[s] = 0
  BY <1>1, <1>3, <1>6, InodeTypes
<1>8. Uses'
  <2>1. removed' \cup lost' \subseteq used'
    BY <1>2, <1>3, <1>6 DEF Uses
  <2>2. removed' \cap lost' = {}
    BY <1>2, <1>3, <1>6 DEF Uses
  <2>3. \A x \in removed' : disk'[x].type = "FILE"
    <3>1. removed \subseteq Sectors
      BY <1>3 DEF TypeOK
    <3>2. \A x \in removed' : disk[x].type = "FILE" /\ x \in Sectors
      BY <1>2, <1>3, <1>6, <1>7, <3>1 DEF Uses
    <3>. QED BY <1>1, <3>2
  <2>4. \A x \in Sectors : open'[x] > 0 => x \in Live' \cup removed'
    <3>1. ~(open[s] = 0) => s \in removed'
      BY <1>2
    <3>2. open[s] = 0 => ~(open[s] > 0)
      OBVIOUS
    <3>3. removed \subseteq removed'
      BY <1>2
    <3>. QED BY <1>1, <1>2, <1>3, <3>1, <3>2, <3>3 DEF Uses
  <2>. QED BY <2>1, <2>2, <2>3, <2>4 DEF Uses
<1>9. \A q \in Procs : /\ proc'[q].fds = proc[q].fds /\ proc'[q].exe = proc[q].exe
                       /\ proc'[q].st = proc[q].st /\ proc'[q].wd = proc[q].wd
                       /\ ~proc'[q].gone => ~proc[q].gone /\ proc[q].wd # s
  <2>. SUFFICES ASSUME NEW q \in Procs
                PROVE  /\ proc'[q].fds = proc[q].fds /\ proc'[q].exe = proc[q].exe
                       /\ proc'[q].st = proc[q].st /\ proc'[q].wd = proc[q].wd
                       /\ ~proc'[q].gone => ~proc[q].gone /\ proc[q].wd # s
    OBVIOUS
  <2>1. proc[q] \in Processes
    BY <1>3 DEF TypeOK
  <2>2. proc'[q] = [proc[q] EXCEPT !.gone = @ \/ proc[q].wd = s]
    BY <1>2
  <2>. QED BY <2>1, <2>2 DEF Processes
<1>10. Users'
  BY <1>3, <1>5, <1>9 DEF Users
<1>11. CountsExact'
  <2>1. \A x \in removed' : x \in Sectors /\ open[x] > 0
    <3>1. open[s] \in Nat
      BY <1>3, <1>6 DEF TypeOK
    <3>2. open[s] # 0 => open[s] > 0
      BY <3>1
    <3>. QED BY <1>2, <1>3, <1>6, <3>2 DEF CountsExact, TypeOK
  <2>. QED BY <1>2, <1>3, <1>9, <2>1, CountsStay
<1>. QED BY <1>1, <1>4, <1>8, <1>10, <1>11 DEF IInv

---------------------------------------------------------------------------
(* The invariant *)

(* The first process runs the one file of the root. *)
LEMMA FirstProc ==
    LET first == [NewProc EXCEPT !.st = "run", !.exe = PROGRAM]
    IN  /\ first \in Processes /\ first.exe = PROGRAM /\ first.fds = <<>>
        /\ first.st = "run" /\ first.wd = ROOT /\ first.gone = FALSE
<1>1. PROGRAM \in Sectors /\ ROOT \in Sectors
  <2>1. NumSectors \in Nat \ {0, 1}
    BY DirectoryAssumption
  <2>. QED BY <2>1, SectorNumbers DEF PROGRAM, Sectors
<1>2. <<>> \in Seq([sector : Sectors, dir : BOOLEAN])
  OBVIOUS
<1>. QED BY <1>1, <1>2 DEF NewProc, Processes


(* At first there is the root, and in it the one file. *)
LEMMA FirstDisk ==
    ASSUME Init
    PROVE  /\ ROOT \in Sectors /\ PROGRAM \in Sectors /\ ROOT # PROGRAM
           /\ disk \in [Sectors -> Inodes]
           /\ disk[ROOT].type = "DIR" /\ disk[ROOT].ents \in Seq(Slot) /\ Len(disk[ROOT].ents) = 3
           /\ disk[ROOT].ents[1] = Entry(".", ROOT) /\ disk[ROOT].ents[2] = Entry("..", ROOT)
           /\ disk[ROOT].ents[3] = Entry(Program, PROGRAM)
           /\ \A s \in Sectors \ {ROOT} : disk[s].type = "FILE" /\ disk[s].ents = <<>>
<1>. DEFINE two == <<Entry(".", ROOT), Entry("..", ROOT)>>
            three == Append(two, Entry(Program, PROGRAM))
<1>1. ROOT \in Sectors /\ PROGRAM \in Sectors /\ ROOT # PROGRAM
  <2>1. NumSectors \in Nat \ {0, 1}
    BY DirectoryAssumption
  <2>. QED BY <2>1, SectorNumbers DEF PROGRAM, ROOT, Sectors
<1>2. Entry(".", ROOT) \in Slot /\ Entry("..", ROOT) \in Slot /\ Entry(Program, PROGRAM) \in Slot
  BY <1>1, DirectoryAssumption DEF Entry, Slot
<1>3. /\ three \in Seq(Slot) /\ Len(three) = 3
      /\ three[1] = Entry(".", ROOT) /\ three[2] = Entry("..", ROOT)
      /\ three[3] = Entry(Program, PROGRAM)
  <2>1. two \in Seq(Slot) /\ Len(two) = 2
        /\ two[1] = Entry(".", ROOT) /\ two[2] = Entry("..", ROOT)
    BY <1>2
  <2>. DEFINE e == Entry(Program, PROGRAM)
  <2>2. e \in Slot
    BY <1>2
  <2>. HIDE DEF two, e
  <2>3. /\ Append(two, e) \in Seq(Slot) /\ Len(Append(two, e)) = 3
        /\ Append(two, e)[3] = e
    <3>1. two \in Seq(Slot)
      BY <2>1
    <3>2. Append(two, e) \in Seq(Slot)
      BY <2>2, <3>1
    <3>3. Len(Append(two, e)) = Len(two) + 1 /\ Append(two, e)[Len(two) + 1] = e
      BY <2>2, <3>1, AppendProperties
    <3>. QED BY <2>1, <3>2, <3>3
  <2>4. Append(two, e)[1] = two[1] /\ Append(two, e)[2] = two[2]
    BY <2>1, <2>2
  <2>. QED BY <2>1, <2>3, <2>4 DEF e
<1>4. /\ disk[ROOT] = [DirInode(ROOT, ROOT) EXCEPT !.ents = three]
      /\ \A s \in Sectors \ {ROOT} : disk[s] = FileInode
      /\ disk = [s \in Sectors |-> disk[s]]
  <2>1. disk = [s \in Sectors |->
                 IF s = ROOT
                 THEN [DirInode(ROOT, ROOT) EXCEPT !.ents = Append(@, Entry(Program, PROGRAM))]
                 ELSE FileInode]
    BY DEF Init
  <2>2. DirInode(ROOT, ROOT).ents = two
    BY DEF DirInode
  <2>. QED BY <1>1, <2>1, <2>2
<1>. HIDE DEF two, three
<1>5. disk[ROOT] = [type |-> "DIR", ents |-> three]
  BY <1>4 DEF DirInode
<1>6. disk[ROOT] \in Inodes
  <2>1. \A q \in Seq(Slot) : [type |-> "DIR", ents |-> q] \in Inodes
    BY DEF Inodes, Slot
  <2>. QED BY <1>3, <1>5, <2>1
<1>7. FileInode \in Inodes
  BY DEF FileInode, Inodes
<1>8. disk \in [Sectors -> Inodes]
  <2>1. \A s \in Sectors : disk[s] \in Inodes
    BY <1>4, <1>6, <1>7
  <2>. QED BY <1>4, <2>1
<1>9. disk[ROOT].type = "DIR" /\ disk[ROOT].ents = three
  BY <1>5
<1>10. \A s \in Sectors \ {ROOT} : disk[s].type = "FILE" /\ disk[s].ents = <<>>
  BY <1>4 DEF FileInode
<1>. QED BY <1>1, <1>3, <1>8, <1>9, <1>10

LEMMA FirstTree ==
    ASSUME Init
    PROVE  /\ Live = {ROOT, PROGRAM} /\ LiveDirs = {ROOT}
           /\ ChildSlots(ROOT) = {3} /\ Children(ROOT) = {PROGRAM}
           /\ ChildSlots(PROGRAM) = {} /\ Children(PROGRAM) = {}
<1>1. Live = {ROOT, PROGRAM}
  BY DEF Init, Live
<1>2. LiveDirs = {ROOT}
  BY <1>1, FirstDisk DEF LiveDirs
<1>3. InUse(Entry(Program, PROGRAM)) /\ Entry(Program, PROGRAM).sector = PROGRAM
  BY DEF InUse, Entry, PROGRAM
<1>4. ChildSlots(ROOT) = {3}
  <2>1. DOMAIN disk[ROOT].ents = 1 .. 3 /\ disk[ROOT].ents[3] = Entry(Program, PROGRAM)
    BY FirstDisk
  <2>. QED BY <1>3, <2>1 DEF ChildSlots
<1>5. Children(ROOT) = {PROGRAM}
  BY <1>3, <1>4, FirstDisk DEF Children
<1>6. ChildSlots(PROGRAM) = {}
  <2>1. disk[PROGRAM].ents = <<>>
    BY FirstDisk
  <2>. QED BY <2>1 DEF ChildSlots
<1>. QED BY <1>1, <1>2, <1>4, <1>5, <1>6 DEF Children

LEMMA FirstUsers ==
    ASSUME Init
    PROVE  /\ proc \in [Procs -> Processes]
           /\ \A p \in Procs : /\ proc[p].fds = <<>> /\ proc[p].wd = ROOT /\ proc[p].gone = FALSE
                               /\ proc[p].st = IF p = Initial THEN "run" ELSE "none"
                               /\ proc[p].exe = IF p = Initial THEN PROGRAM ELSE NODIR
<1>1. proc = [p \in Procs |->
                 IF p = Initial THEN [NewProc EXCEPT !.st = "run", !.exe = PROGRAM]
                 ELSE NewProc]
  BY DEF Init
<1>. QED BY <1>1, FirstProc, NewProcType

LEMMA FirstCounts ==
    ASSUME Init
    PROVE  CountsExact
<1>1. PROGRAM \in Sectors /\ NODIR \notin Sectors /\ Initial \in Procs
  BY FirstDisk, SectorNumbers, DirectoryAssumption
<1>2. ASSUME NEW s \in Sectors
      PROVE  Cardinality(Runners(s)) = (IF s = PROGRAM THEN 1 ELSE 0)
  <2>1. s = PROGRAM => Runners(s) = {Initial}
    BY <1>1, FirstUsers DEF Runners
  <2>2. s # PROGRAM => Runners(s) = {}
    BY <1>1, FirstUsers DEF Runners
  <2>. QED BY <2>1, <2>2, FS_Singleton, FS_EmptySet
<1>3. ASSUME NEW s \in Sectors PROVE Cardinality(FdHolds(s)) = 0
  <2>1. \A p \in Procs : \A i : i \notin DOMAIN proc[p].fds
    <3>1. \A p \in Procs : proc[p].fds = <<>>
      BY FirstUsers
    <3>2. \A i : i \notin DOMAIN <<>>
      OBVIOUS
    <3>. QED BY <3>1, <3>2
  <2>2. FdHolds(s) = {}
    BY <2>1 DEF FdHolds
  <2>. QED BY <2>2, FS_EmptySet
<1>4. /\ open = [s \in Sectors |-> IF s = PROGRAM THEN 1 ELSE 0]
      /\ deny = [s \in Sectors |-> IF s = PROGRAM THEN 1 ELSE 0]
      /\ removed = {}
  BY DEF Init
<1>. QED BY <1>2, <1>3, <1>4 DEF CountsExact, Openers

LEMMA InitHolds ==
    ASSUME Init
    PROVE  IInv
<1>1. /\ used = {ROOT, PROGRAM} /\ removed = {} /\ lost = {} /\ halted = "no"
      /\ open = [s \in Sectors |-> IF s = PROGRAM THEN 1 ELSE 0]
      /\ deny = [s \in Sectors |-> IF s = PROGRAM THEN 1 ELSE 0]
  BY DEF Init
<1>2. TypeOK
  BY <1>1, FirstDisk, FirstUsers DEF TypeOK
<1>3. Files
  BY FirstDisk DEF Files
<1>4. Slots
  <2>1. Entry(Program, PROGRAM).name \in Names /\ Entry("..", ROOT).name = ".."
    BY DirectoryAssumption DEF Entry
  <2>. QED BY <2>1, FirstDisk, FirstTree DEF Slots
<1>5. Named
  <2>1. disk[ROOT].ents[3].sector = PROGRAM /\ Up(ROOT) = ROOT
    BY FirstDisk DEF Entry, Up
  <2>. QED BY <2>1, FirstDisk, FirstTree DEF Named
<1>6. Reached
  BY FirstTree DEF Reached, HoldsTree
<1>7. Uses
  BY <1>1, FirstTree DEF Uses
<1>8. Users
  <2>1. MaxFds \in Nat
    BY DirectoryAssumption
  <2>2. \A p \in Procs : proc[p].fds = <<>> /\ Len(proc[p].fds) <= MaxFds
    <3>1. \A p \in Procs : proc[p].fds = <<>>
      BY FirstUsers
    <3>2. Len(<<>>) <= MaxFds
      BY <2>1
    <3>. QED BY <3>1, <3>2
  <2>3. \A p \in Procs : proc[p].wd \in LiveDirs
    BY FirstTree, FirstUsers
  <2>4. \A p \in Procs : /\ proc[p].st \in {"none", "new"} => proc[p].exe = NODIR
                         /\ proc[p].st # "load"
    BY FirstUsers
  <2>. QED BY <2>2, <2>3, <2>4 DEF Users
<1>9. CountsExact
  BY FirstCounts
<1>. QED BY <1>2, <1>3, <1>4, <1>5, <1>6, <1>7, <1>8, <1>9 DEF IInv

(* Every action keeps the invariant. *)
LEMMA NextKeeps ==
    ASSUME IInv, Next
    PROVE  IInv'
<1>1. ASSUME NEW p \in Procs, NEW path \in Paths, NEW type \in {"FILE", "DIR"},
             NEW n \in BaseNames(path), sys_create(p, path, n, type)
      PROVE  IInv'
  BY <1>1, CreateKeeps
<1>2. ASSUME NEW p \in Procs, NEW path \in Paths, NEW type \in {"FILE", "DIR"},
             NEW n \in BaseNames(path), CreateFails(p, path, n, type)
      PROVE  IInv'
  BY <1>2, FailKeeps
<1>3. ASSUME NEW p \in Procs, NEW path \in Paths, NEW n, MakeTorn(p, path, n) PROVE IInv'
  BY <1>3, HaltKeeps DEF MakeTorn
<1>4. ASSUME NEW p \in Procs, NEW path \in Paths, NEW n \in BaseNames(path),
             sys_remove(p, path, n)
      PROVE  IInv'
  BY <1>4, RemoveKeeps
<1>5. ASSUME NEW p \in Procs, NEW path \in Paths, sys_open(p, path) PROVE IInv'
  BY <1>5, OpenKeeps
<1>6. ASSUME NEW p \in Procs, NEW path \in Paths, sys_chdir(p, path) PROVE IInv'
  BY <1>6, ChdirKeeps
<1>7. ASSUME NEW p \in Procs, NEW path \in Paths, ChdirToFile(p, path) PROVE IInv'
  BY <1>7, HaltKeeps DEF ChdirToFile
<1>8. ASSUME NEW p \in Procs, NEW path \in Paths, LoadOpen(p, path) PROVE IInv'
  BY <1>8, LoadOpenKeeps
<1>9. ASSUME NEW p \in Procs, NEW path \in Paths, LoadNotFound(p, path) PROVE IInv'
  BY <1>9, LoadNotFoundKeeps
<1>10. ASSUME NEW p \in Procs, NEW path \in Paths, NEW state, LookBelowFile(p, state, path)
       PROVE  IInv'
  BY <1>10, HaltKeeps DEF LookBelowFile
<1>11. ASSUME NEW p \in Procs, NEW path \in Paths, NEW state, LookInRemoved(p, state, path)
       PROVE  IInv'
  BY <1>11, HaltKeeps DEF LookInRemoved
<1>12. ASSUME NEW p \in Procs, NEW i, sys_close(p, i) PROVE IInv'
  BY <1>12, CloseKeeps
<1>13. ASSUME NEW p \in Procs, NEW q \in Procs, Exec(p, q) PROVE IInv'
  BY <1>13, ExecKeeps
<1>14. ASSUME NEW q \in Procs, Loaded(q) PROVE IInv'
  BY <1>14, LoadedKeeps
<1>15. ASSUME NEW q \in Procs, Exit(q) PROVE IInv'
  BY <1>15, ExitKeeps
<1>. QED BY <1>1, <1>2, <1>3, <1>4, <1>5, <1>6, <1>7, <1>8, <1>9, <1>10, <1>11, <1>12,
            <1>13, <1>14, <1>15 DEF Next

LEMMA StutterKeeps ==
    ASSUME IInv, UNCHANGED vars
    PROVE  IInv'
<1>1. /\ UNCHANGED <<disk, used, open, removed, deny, lost, halted>>
      /\ proc' = proc
  BY DEF vars
<1>2. LiveDirs' = LiveDirs
  BY <1>1 DEF LiveDirs, Live
<1>3. Users' /\ proc' \in [Procs -> Processes]
  BY <1>1, <1>2 DEF IInv, Users, TypeOK
<1>4. \A q \in Procs : proc'[q].fds = proc[q].fds /\ proc'[q].exe = proc[q].exe
  BY <1>1
<1>. QED BY <1>1, <1>3, <1>4, HoldersStay

LEMMA Invariance == Spec => []IInv
<1>1. Init => IInv
  BY InitHolds
<1>2. IInv /\ [Next]_vars => IInv'
  BY NextKeeps, StutterKeeps
<1>. QED BY <1>1, <1>2, PTL DEF Spec

(* Every variable keeps its type: above all the numbers of references, of
   inode_open, inode_close, inode_deny_write and inode_allow_write, never become
   negative. *)
THEOREM TypeCorrect == Spec => []TypeOK
<1>1. IInv => TypeOK
  BY DEF IInv
<1>. QED BY <1>1, Invariance, PTL

(* inode_open, inode_close, inode_deny_write and inode_allow_write agree: the
   counts are those of the references that processes have. *)
THEOREM CountsAreExact == Spec => []CountsExact
<1>1. IInv => CountsExact
  BY DEF IInv
<1>. QED BY <1>1, Invariance, PTL

(* dir_create, dir_add and dir_remove keep a tree, of which the free map is the
   account. *)
THEOREM TreeIsSound == Spec => []TreeSound
<1>1. IInv => TreeSound
  BY InvariantIsTree
<1>. QED BY <1>1, Invariance, PTL

---------------------------------------------------------------------------
(* The calls implement NameSpec *)

(* What is held, as NameSpec has it. *)
HeldNodes == {s \in Sectors : open[s] > 0}

(* Steps that leave alone the names of what is live. *)
LEMMA LinksStay ==
    ASSUME Live' = Live, \A e \in Live : SameNames(e)
    PROVE  Links' = Links /\ LiveDirs' = LiveDirs
<1>1. ASSUME NEW e \in Live
      PROVE  {Link(e, i) : i \in ChildSlots(e)}' = {Link(e, i) : i \in ChildSlots(e)}
  BY DEF SameNames, Link
<1>2. Links' = Links
  BY <1>1 DEF Links
<1>. QED BY <1>2 DEF LiveDirs, SameNames

LEMMA SameDiskSameNames ==
    ASSUME disk' = disk
    PROVE  \A e : SameNames(e)
<1>. TAKE e
<1>1. ChildSlots(e)' = ChildSlots(e)
  BY DEF ChildSlots
<1>. QED BY <1>1 DEF SameNames

(* Every live inode but the root has a name, and nothing else has. *)
LEMMA LinkedIsLive ==
    ASSUME IInv
    PROVE  /\ Abstract!Linked = Live \ {ROOT}
           /\ \A l \in Links : \E d \in Live : \E i \in ChildSlots(d) : l = Link(d, i)
           /\ \A d \in Live : \A i \in ChildSlots(d) : Link(d, i) \in Links
<1>1. \A l : l \in Links <=> \E d \in Live : \E i \in ChildSlots(d) : l = Link(d, i)
  BY DEF Links
<1>2. Named /\ Reached /\ ROOT \in Live
  BY DEF IInv, Named, LiveDirs
<1>3. \A x : x \in Abstract!Linked <=> \E d \in Live : x \in Children(d)
  <2>1. \A d, i : Link(d, i).node = disk[d].ents[i].sector
    BY DEF Link
  <2>2. \A x : x \in Abstract!Linked <=> \E l \in Links : x = l.node
    BY DEF Abstract!Linked
  <2>. QED BY <1>1, <2>1, <2>2 DEF Children
<1>4. Abstract!Linked \subseteq Live \ {ROOT}
  BY <1>2, <1>3 DEF Named, Children
<1>5. Live \ {ROOT} \subseteq Abstract!Linked
  <2>. DEFINE S == {x \in Live : x = ROOT \/ \E d \in Live : x \in Children(d)}
  <2>1. HoldsTree(S)
    <3>1. \A d \in S : Children(d) \subseteq S
      BY <1>2 DEF Named, Children
    <3>. QED BY <1>2, <3>1 DEF HoldsTree
  <2>2. S = Live
    <3>1. S \in SUBSET Live
      OBVIOUS
    <3>. HIDE DEF S
    <3>. QED BY <1>2, <2>1, <3>1 DEF Reached
  <2>. QED BY <1>3, <2>2
<1>. QED BY <1>1, <1>4, <1>5

(* sys_create and sys_mkdir *)
LEMMA CreateMakes ==
    ASSUME IInv, NEW p \in Procs, NEW path \in Paths, NEW type \in {"FILE", "DIR"},
           NEW nm \in BaseNames(path), sys_create(p, path, nm, type)
    PROVE  \E l \in Links' \ Links, isDir \in BOOLEAN : Abstract!Make(l, isDir)
<1>. PICK d : d = resolve_name_to_entry(p, path)
  OBVIOUS
<1>. PICK s : s = free_map_allocate
  OBVIOUS
<1>. PICK k : k = SlotToAdd(disk[d].ents)
  OBVIOUS
<1>. DEFINE l == [dir |-> d, name |-> nm, node |-> s]
<1>1. /\ d \in LiveDirs /\ s \in Sectors \ used /\ s \notin Live /\ open[s] = 0
      /\ nm \in Names
      /\ \A i \in ChildSlots(d) : disk[d].ents[i].name # nm
      /\ Live' = Live \cup {s}
      /\ \A e \in Live \ {d} : disk'[e] = disk[e]
      /\ disk'[s] = NewInode(s, d, type)
      /\ GainsName(d, k, nm, s) /\ k \in ChildSlots(d)'
  BY CreateNames
<1>2. UNCHANGED open
  BY DEF sys_create
<1>3. d \in Live /\ d \in Sectors /\ ROOT \in Live /\ s \in Sectors
  BY <1>1 DEF IInv, LiveDirs, Live, Named, TypeOK
<1>4. disk'[s].type = type /\ ChildSlots(s)' = {}
  <2>1. disk'[s] \in {FileInode, DirInode(s, d)} /\ disk'[s].type = type
    BY <1>1, <1>3, NewInodeType
  <2>2. \A i \in DOMAIN disk'[s].ents : ~(i > 2)
    BY <2>1 DEF FileInode, DirInode
  <2>. QED BY <2>1, <2>2 DEF ChildSlots
<1>5. Links' = Links \cup {l}
  <2>1. \A x : x \in Links' <=> \E e \in Live' : \E i \in ChildSlots(e)' : x = Link(e, i)'
    BY DEF Links
  <2>2. \A x : x \in Links <=> \E e \in Live : \E i \in ChildSlots(e) : x = Link(e, i)
    BY DEF Links
  <2>3. \A e \in Live \ {d} : /\ ChildSlots(e)' = ChildSlots(e)
                              /\ \A i : Link(e, i)' = Link(e, i)
    BY <1>1 DEF ChildSlots, Link
  <2>4. /\ ChildSlots(d)' = ChildSlots(d) \cup {k}
        /\ \A i \in ChildSlots(d) : Link(d, i)' = Link(d, i)
    BY <1>1 DEF GainsName, Link
  <2>5. Link(d, k)' = l
    BY <1>1 DEF GainsName, Link, Entry
  <2>6. \A x \in Links' : x \in Links \cup {l}
    <3>. HIDE DEF l
    <3>. QED BY <1>1, <1>3, <1>4, <2>1, <2>2, <2>3, <2>4, <2>5
  <2>7. \A x \in Links : x \in Links'
    <3>. HIDE DEF l
    <3>. QED BY <1>1, <1>3, <2>1, <2>2, <2>3, <2>4
  <2>8. l \in Links'
    <3>. HIDE DEF l
    <3>. QED BY <1>1, <1>3, <2>1, <2>4, <2>5
  <2>. HIDE DEF l
  <2>. QED BY <2>6, <2>7, <2>8
<1>6. LiveDirs' = IF type = "DIR" THEN LiveDirs \cup {s} ELSE LiveDirs
  <2>1. \A e \in Live : disk'[e].type = disk[e].type
    BY <1>1 DEF GainsName
  <2>. QED BY <1>1, <1>4, <2>1 DEF LiveDirs
<1>7. ~\E m \in Links : m.dir = d /\ m.name = nm
  <2>1. \A e, i : Link(e, i).dir = e /\ Link(e, i).name = disk[e].ents[i].name
    BY DEF Link
  <2>. QED BY <1>1, <2>1, LinkedIsLive
<1>8. l.dir = d /\ l.name = nm /\ l.node = s
  OBVIOUS
<1>9. s \notin Abstract!Linked \cup HeldNodes \cup {ROOT}
  BY <1>1, <1>3, LinkedIsLive DEF HeldNodes
<1>. HIDE DEF l
<1>10. HeldNodes' = HeldNodes
  BY <1>2 DEF HeldNodes
<1>11. Abstract!Make(l, type = "DIR")
  BY <1>1, <1>5, <1>6, <1>7, <1>8, <1>9, <1>10 DEF Abstract!Make, LiveDirs, HeldNodes
<1>12. l \in Links' \ Links
  BY <1>5, <1>7, <1>8
<1>. QED BY <1>11, <1>12

(* sys_remove *)
LEMMA RemoveDrops ==
    ASSUME IInv, NEW p \in Procs, NEW path \in Paths,
           NEW n \in BaseNames(path), sys_remove(p, path, n)
    PROVE  \E l \in Links : Abstract!Drop(l)
<1>. PICK d : d = resolve_name_to_entry(p, path)
  OBVIOUS
<1>. PICK s : s = lookup(d, n)
  OBVIOUS
<1>. PICK k : k = Min(SlotsOf(d, n))
  OBVIOUS
<1>. PICK l : l = Link(d, k)
  OBVIOUS
<1>1. /\ d \in LiveDirs /\ s \in Live \ {ROOT} /\ Children(s) = {}
      /\ disk[s].type = "DIR" => open[s] = 0
      /\ s = disk[d].ents[k].sector
      /\ Live' = Live \ {s}
      /\ \A e \in Live \ {d} : disk'[e] = disk[e]
      /\ \A e \in Sectors : disk'[e].type = disk[e].type
      /\ LosesName(d, k)
  BY RemoveNames
<1>2. UNCHANGED open
  BY DEF sys_remove
<1>3. d \in Live /\ k \in ChildSlots(d) /\ d # s
  <2>1. k \in ChildSlots(d)
    BY <1>1 DEF LosesName
  <2>2. s \in Children(d)
    BY <1>1, <2>1 DEF Children
  <2>. QED BY <1>1, <2>1, <2>2 DEF LiveDirs
<1>4. ChildSlots(s) = {}
  BY <1>1 DEF Children
<1>5. l \in Links /\ l.node = s /\ l.dir = d
  BY <1>1, <1>3, LinkedIsLive DEF Link
<1>6. Links' = Links \ {l}
  <2>1. \A x : x \in Links' <=> \E e \in Live' : \E i \in ChildSlots(e)' : x = Link(e, i)'
    BY DEF Links
  <2>2. \A x : x \in Links <=> \E e \in Live : \E i \in ChildSlots(e) : x = Link(e, i)
    BY DEF Links
  <2>3. \A e \in Live \ {d} : /\ ChildSlots(e)' = ChildSlots(e)
                              /\ \A i : Link(e, i)' = Link(e, i)
    BY <1>1 DEF ChildSlots, Link
  <2>4. /\ ChildSlots(d)' = ChildSlots(d) \ {k}
        /\ \A i \in ChildSlots(d) \ {k} : Link(d, i)' = Link(d, i)
    BY <1>1 DEF LosesName, Link
  <2>5. \A e \in Live : \A i \in ChildSlots(e) : Link(e, i) = l => e = d /\ i = k
    <3>1. Named
      BY DEF IInv
    <3>2. \A e, i : Link(e, i).node = disk[e].ents[i].sector
      BY DEF Link
    <3>. QED BY <1>3, <3>1, <3>2 DEF Named
  <2>6. \A e \in Live' : \A i \in ChildSlots(e)' :
           e \in Live /\ i \in ChildSlots(e) /\ Link(e, i)' = Link(e, i) /\ ~(e = d /\ i = k)
    BY <1>1, <2>3, <2>4
  <2>7. \A e \in Live : \A i \in ChildSlots(e) : ~(e = d /\ i = k) =>
           e \in Live' /\ i \in ChildSlots(e)' /\ Link(e, i)' = Link(e, i)
    BY <1>1, <1>4, <2>3, <2>4
  <2>8. \A x \in Links' : x \in Links /\ x # l
    BY <2>1, <2>2, <2>5, <2>6
  <2>9. \A x \in Links : x # l => x \in Links'
    BY <2>1, <2>2, <2>7
  <2>. QED BY <2>8, <2>9
<1>7. LiveDirs' = LiveDirs \ {s}
  BY <1>1 DEF IInv, LiveDirs, Live, TypeOK
<1>8. s \in LiveDirs => s \notin HeldNodes /\ ~\E m \in Links : m.dir = s
  <2>1. s \in LiveDirs => s \notin HeldNodes
    <3>1. 0 > 0 <=> FALSE
      OBVIOUS
    <3>. QED BY <1>1, <3>1 DEF LiveDirs, HeldNodes
  <2>2. \A e, i : Link(e, i).dir = e
    BY DEF Link
  <2>. QED BY <1>4, <2>1, <2>2, LinkedIsLive
<1>9. HeldNodes' = HeldNodes
  BY <1>2 DEF HeldNodes
<1>10. Abstract!Drop(l)
  <2>1. LiveDirs' = LiveDirs \ {l.node}
    BY <1>5, <1>7
  <2>2. l.node \in LiveDirs => l.node \notin HeldNodes /\ ~\E m \in Links : m.dir = l.node
    BY <1>5, <1>8
  <2>. QED BY <1>5, <1>6, <1>9, <2>1, <2>2 DEF Abstract!Drop, LiveDirs, HeldNodes
<1>. QED BY <1>5, <1>10

(* sys_open and load *)
LEMMA OpenHolds ==
    ASSUME IInv, NEW s \in Live, NEW k \in Nat \ {0}, disk' = disk, Live' = Live,
           open' = [open EXCEPT ![s] = @ + k]
    PROVE  \E x \in Sectors : Abstract!Hold(x)
<1>1. s \in Sectors /\ open \in [Sectors -> Nat]
  BY DEF IInv, TypeOK, Live
<1>2. s \in Abstract!Linked \cup {ROOT}
  BY LinkedIsLive
<1>3. Links' = Links /\ LiveDirs' = LiveDirs
  BY LinksStay, SameDiskSameNames
<1>4. HeldNodes' = HeldNodes \cup {s}
  <2>1. open'[s] = open[s] + k /\ \A x \in Sectors : x # s => open'[x] = open[x]
    BY <1>1
  <2>2. open'[s] > 0
    BY <1>1, <2>1
  <2>. QED BY <1>1, <2>1, <2>2 DEF HeldNodes
<1>5. Abstract!Hold(s)
  BY <1>2, <1>3, <1>4 DEF Abstract!Hold, LiveDirs, HeldNodes
<1>. QED BY <1>1, <1>5

(* sys_close and process_exit *)
LEMMA CloseReleases ==
    ASSUME IInv, NEW s \in Sectors, NEW k \in Nat, inode_close(s, k),
           lost' = lost, disk' = disk
    PROVE  (\E x \in Sectors : Abstract!Release(x)) \/ UNCHANGED <<Links, LiveDirs, HeldNodes>>
<1>1. open \in [Sectors -> Nat]
  BY DEF IInv, TypeOK
<1>2. /\ Live' = Live
      /\ \A x \in Sectors : open'[x] = open[x] - (IF x = s THEN k ELSE 0)
  <2>1. open' = [open EXCEPT ![s] = @ - k]
    BY DEF inode_close
  <2>2. \A x \in Sectors : open[x] \in Nat
    BY <1>1
  <2>3. \A x \in Sectors : open'[x] = open[x] - (IF x = s THEN k ELSE 0)
    BY <1>1, <2>1, <2>2
  <2>4. Live' = Live
    BY DEF inode_close, Live
  <2>. QED BY <2>3, <2>4
<1>3. Links' = Links /\ LiveDirs' = LiveDirs
  BY <1>2, LinksStay, SameDiskSameNames
<1>4. \A x \in Sectors : x # s => open'[x] = open[x]
  BY <1>1, <1>2
<1>5. CASE open'[s] > 0
  <2>1. open'[s] = open[s] - k
    BY <1>2
  <2>2. open[s] \in Nat
    BY <1>1
  <2>3. open[s] > 0
    BY <1>5, <2>1, <2>2
  <2>4. HeldNodes' = HeldNodes
    BY <1>4, <1>5, <2>3 DEF HeldNodes
  <2>. QED BY <1>3, <2>4
<1>6. CASE ~(open'[s] > 0)
  <2>1. HeldNodes' = HeldNodes \ {s}
    BY <1>4, <1>6 DEF HeldNodes
  <2>2. Abstract!Release(s)
    BY <1>3, <2>1 DEF Abstract!Release, LiveDirs, HeldNodes
  <2>. QED BY <2>2
<1>. QED BY <1>5, <1>6

(* Every step is a step of NameSpec, or changes nothing that it speaks of. *)
LEMMA StepsAreAllowed ==
    ASSUME IInv, [Next]_vars
    PROVE  Abstract!Next \/ UNCHANGED <<Links, LiveDirs, HeldNodes>>
<1>1. ASSUME disk' = disk, Live' = Live, open' = open
      PROVE  UNCHANGED <<Links, LiveDirs, HeldNodes>>
  BY <1>1, LinksStay, SameDiskSameNames DEF HeldNodes
<1>2. ASSUME UNCHANGED <<disk, used, open, removed, lost>>
      PROVE  UNCHANGED <<Links, LiveDirs, HeldNodes>>
  BY <1>1, <1>2 DEF Live
<1>3. ASSUME NEW p \in Procs, NEW path \in Paths, NEW type \in {"FILE", "DIR"},
             NEW n \in BaseNames(path), sys_create(p, path, n, type)
      PROVE  Abstract!Next
  BY <1>3, CreateMakes DEF Abstract!Next
<1>4. ASSUME NEW p \in Procs, NEW path \in Paths, NEW type \in {"FILE", "DIR"},
             NEW n \in BaseNames(path), CreateFails(p, path, n, type)
      PROVE  UNCHANGED <<Links, LiveDirs, HeldNodes>>
  <2>1. PICK d : d = resolve_name_to_entry(p, path)
    OBVIOUS
  <2>2. Live' = Live /\ \A e \in Live : SameNames(e)
    BY <1>4, <2>1, FailNames
  <2>3. open' = open
    BY <1>4 DEF CreateFails
  <2>. QED BY <2>2, <2>3, LinksStay DEF HeldNodes
<1>5. ASSUME NEW p \in Procs, NEW path \in Paths, NEW n \in BaseNames(path),
             sys_remove(p, path, n)
      PROVE  Abstract!Next
  BY <1>5, RemoveDrops DEF Abstract!Next
<1>6. ASSUME NEW p \in Procs, NEW path \in Paths, sys_open(p, path)
      PROVE  Abstract!Next
  <2>. DEFINE s  == resolve_name_to_inode(p, path)
              fd == [sector |-> s, dir |-> disk[s].type = "DIR"]
  <2>1. /\ (path.abs \/ ~proc[p].gone) /\ s \in Sectors
        /\ open' = [open EXCEPT ![s] = @ + Holds(fd)]
        /\ UNCHANGED <<disk, used, removed, lost>>
    BY <1>6 DEF sys_open, Resolves
  <2>2. Holds(fd) \in Nat \ {0}
    BY DEF Holds
  <2>3. s \in Live
    BY <2>1, NameLeadsToInode
  <2>4. Live' = Live
    BY <2>1 DEF Live
  <2>. HIDE DEF s, fd
  <2>. QED BY <2>1, <2>2, <2>3, <2>4, OpenHolds DEF Abstract!Next
<1>7. ASSUME NEW q \in Procs, NEW path \in Paths, LoadOpen(q, path)
      PROVE  Abstract!Next
  <2>. DEFINE s == resolve_name_to_inode(q, path)
  <2>1. /\ (path.abs \/ ~proc[q].gone) /\ s \in Sectors
        /\ open' = [open EXCEPT ![s] = @ + 1]
        /\ UNCHANGED <<disk, used, removed, lost>>
    BY <1>7 DEF LoadOpen, Resolves
  <2>2. s \in Live
    BY <2>1, NameLeadsToInode
  <2>3. Live' = Live
    BY <2>1 DEF Live
  <2>4. 1 \in Nat \ {0}
    OBVIOUS
  <2>. HIDE DEF s
  <2>. QED BY <2>1, <2>2, <2>3, <2>4, OpenHolds DEF Abstract!Next
<1>8. ASSUME NEW p \in Procs, NEW i, sys_close(p, i)
      PROVE  Abstract!Next \/ UNCHANGED <<Links, LiveDirs, HeldNodes>>
  <2>. DEFINE fd == proc[p].fds[i]
  <2>1. /\ i \in DOMAIN proc[p].fds
        /\ inode_close(fd.sector, Holds(fd))
        /\ UNCHANGED <<disk, lost>>
    BY <1>8 DEF sys_close
  <2>2. fd.sector \in Sectors /\ Holds(fd) \in Nat
    <3>1. fd \in [sector : Sectors, dir : BOOLEAN]
      BY <2>1, ProcTypes DEF IInv
    <3>2. fd.sector \in Sectors /\ Holds(fd) \in {1, 2}
      BY <3>1, HoldsOneOrTwo
    <3>. QED BY <3>2
  <2>. HIDE DEF fd
  <2>. QED BY <2>1, <2>2, CloseReleases DEF Abstract!Next
<1>9. ASSUME NEW q \in Procs, Exit(q)
      PROVE  Abstract!Next \/ UNCHANGED <<Links, LiveDirs, HeldNodes>>
  <2>1. CASE proc[q].exe = NODIR
    BY <1>2, <1>9, <2>1 DEF Exit
  <2>2. CASE proc[q].exe # NODIR
    <3>. DEFINE exe == proc[q].exe
    <3>1. inode_close(exe, 1) /\ UNCHANGED <<disk, lost>>
      BY <1>9, <2>2 DEF Exit
    <3>2. exe \in Sectors
      BY <2>2, ProcTypes DEF IInv
    <3>. HIDE DEF exe
    <3>. QED BY <3>1, <3>2, CloseReleases DEF Abstract!Next
  <2>. QED BY <2>1, <2>2
<1>10. ASSUME NEW p \in Procs, NEW path \in Paths, NEW n,
              \/ MakeTorn(p, path, n) \/ sys_chdir(p, path) \/ ChdirToFile(p, path)
              \/ LoadNotFound(p, path)
       PROVE  UNCHANGED <<Links, LiveDirs, HeldNodes>>
  BY <1>2, <1>10 DEF MakeTorn, sys_chdir, ChdirToFile, LoadNotFound
<1>11. ASSUME NEW p \in Procs, NEW path \in Paths, NEW state,
              LookBelowFile(p, state, path) \/ LookInRemoved(p, state, path)
       PROVE  UNCHANGED <<Links, LiveDirs, HeldNodes>>
  BY <1>2, <1>11 DEF LookBelowFile, LookInRemoved
<1>12. ASSUME NEW p \in Procs, NEW q \in Procs, Exec(p, q) \/ Loaded(q)
       PROVE  UNCHANGED <<Links, LiveDirs, HeldNodes>>
  BY <1>2, <1>12 DEF Exec, Loaded
<1>13. CASE UNCHANGED vars
  BY <1>2, <1>13 DEF vars
<1>. QED BY <1>3, <1>4, <1>5, <1>6, <1>7, <1>8, <1>9, <1>10, <1>11, <1>12, <1>13 DEF Next

LEMMA FirstNames ==
    ASSUME Init
    PROVE  Abstract!Init
<1>1. Live = {ROOT, PROGRAM} /\ LiveDirs = {ROOT}
      /\ ChildSlots(ROOT) = {3} /\ ChildSlots(PROGRAM) = {}
  BY FirstTree
<1>2. Link(ROOT, 3) = [dir |-> ROOT, name |-> Program, node |-> PROGRAM]
  BY FirstDisk DEF Link, Entry
<1>3. Links = {Link(ROOT, 3)}
  BY <1>1 DEF Links
<1>4. HeldNodes = {PROGRAM}
  <2>1. open = [s \in Sectors |-> IF s = PROGRAM THEN 1 ELSE 0] /\ PROGRAM \in Sectors
    BY FirstDisk DEF Init
  <2>. QED BY <2>1 DEF HeldNodes
<1>5. Links \subseteq [dir : {ROOT}, name : Names, node : Sectors \ {ROOT}]
  <2>1. Program \in Names /\ PROGRAM \in Sectors \ {ROOT}
    BY FirstDisk, DirectoryAssumption
  <2>. QED BY <1>2, <1>3, <2>1
<1>6. \A l, m \in Links : l.name = m.name <=> l.node = m.node
  BY <1>3
<1>7. HeldNodes \subseteq Abstract!Linked
  BY <1>2, <1>3, <1>4 DEF Abstract!Linked
<1>. QED BY <1>1, <1>5, <1>6, <1>7 DEF Abstract!Init, LiveDirs, HeldNodes

(* filesys_create, filesys_remove, sys_open, sys_close, load and process_exit do
   to names and to what is held what NameSpec allows, and nothing else. *)
THEOREM NamesImplementNameSpec == Spec => ImplementsNameSpec
<1>1. Init => Abstract!Init
  BY FirstNames
<1>2. IInv /\ [Next]_vars => [Abstract!Next]_(Abstract!vars)
  BY StepsAreAllowed DEF Abstract!vars, LiveDirs, HeldNodes
<1>. QED BY <1>1, <1>2, Invariance, PTL DEF Spec, ImplementsNameSpec, Abstract!Spec

=============================================================================
