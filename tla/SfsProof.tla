------------------------------ MODULE SfsProof ------------------------------
(***************************************************************************)
(* Proofs about the directory, the descriptors, the inodes and their       *)
(* copies on the disk in Sfs.tla, for any number of inodes, any names, any *)
(* sizes of the disk and its blocks and any reads and writes.              *)
(***************************************************************************)
EXTENDS Sfs, FiniteSetTheorems, WellFoundedInduction, TLAPS

USE SfsAssumption

-----------------------------------------------------------------------------
(* The first of a set of numbers: the loops of sfs_fopen() that look for   *)
(* an empty entry, an unused inode and a free descriptor.                  *)

LEMMA MinIsFirst ==
  ASSUME NEW S, S \subseteq Inodes, S # {}
  PROVE  Min(S) \in S /\ \A x \in S : Min(S) <= x
<1> DEFINE B == {S \cap (0 .. x) : x \in S}
<1>1. NumInodes \in Nat /\ \A x \in S : x \in 0 .. NumInodes - 1
  BY DEF Inodes
<1>2. IsFiniteSet(S)
  <2>1. IsFiniteSet(Inodes)
    BY FS_Interval DEF Inodes
  <2>2. QED BY <2>1, FS_Subset
<1>3. IsWellFoundedOn(StrictSubsetOrdering(S), SUBSET S)
  BY <1>2, FS_StrictSubsetOrderingWellFounded, FS_FiniteSubsetsOfFinite
<1>4. B \subseteq SUBSET S /\ B # {}
  OBVIOUS
<1> HIDE DEF B
<1>5. PICK T \in B : \A U \in B : <<U, T>> \notin StrictSubsetOrdering(S)
  BY <1>3, <1>4, WFMin
<1>6. PICK m \in S : T = S \cap (0 .. m)
  BY DEF B
<1>7. ASSUME NEW x \in S, x < m PROVE FALSE
  <2> DEFINE U == S \cap (0 .. x)
  <2>1. U \in B
    BY DEF B
  <2>2. U \subseteq T /\ m \in T /\ m \notin U
    BY <1>1, <1>6, <1>7
  <2>3. <<U, T>> \in StrictSubsetOrdering(S)
    BY <1>6, <2>2 DEF StrictSubsetOrdering
  <2>4. QED BY <1>5, <2>1, <2>3
<1>8. \A x \in S : m <= x
  BY <1>1, <1>7
<1>9. QED BY <1>8 DEF Min

-----------------------------------------------------------------------------
(* The inductive invariant.                                                *)

(* The fields that the directory depends on are there.                     *)
Shape == /\ DOMAIN table = Inodes
         /\ \A i \in Inodes : "used" \in DOMAIN table[i]
         /\ DOMAIN fdt = Inodes
         /\ \A k \in Inodes : /\ {"inode", "open"} \subseteq DOMAIN fdt[k]
                               /\ fdt[k].open \in {0, 1}
         /\ root \in [Inodes -> [filename : Names \union {NoName},
                                 inoteindex : 0 .. Free]]

(* A descriptor has the inode of a listed file, 0 after sfs_remove(), one  *)
(* that does not exist when inodes had run out, or was never used.         *)
Linked ==
  /\ \A i \in Inodes : table[i].used \in {0, 1}
  /\ table[0].used = 1
  /\ \A i \in Listed : /\ root[i].inoteindex \in 1 .. NumInodes - 1
                       /\ table[root[i].inoteindex].used = 1
  /\ \A i, j \in Listed :
       i # j => /\ root[i].filename # root[j].filename
                /\ root[i].inoteindex # root[j].inoteindex
  /\ \A k \in Inodes : fdt[k].inode \in Files \union {0, NumInodes, Free}
  /\ \A k \in Inodes : fdt[k].open = 1 => fdt[k].inode # 0
  /\ \A f \in Files : \E k \in Inodes : fdt[k].inode = f
  /\ \A k, l \in Inodes :
       fdt[k].inode = fdt[l].inode /\ fdt[k].inode \in Files => k = l

(* Unused inodes run out before descriptors do: this is why sfs_fopen()    *)
(* never fills several entries with one name, although its loop goes on    *)
(* when it finds no descriptor.                                            *)
Room == Cardinality(Unused) <= Cardinality(Descriptors(Free))

DirInv == Shape /\ Linked /\ Room

LEMMA SetsAreFinite ==
  /\ IsFiniteSet(Unused) /\ Cardinality(Unused) \in Nat
  /\ \A j : IsFiniteSet(Descriptors(j)) /\ Cardinality(Descriptors(j)) \in Nat
  /\ \A n : IsFiniteSet(Entries(n))
<1>1. IsFiniteSet(Inodes)
  BY FS_Interval DEF Inodes
<1>2. /\ Unused \subseteq Inodes
      /\ \A j : Descriptors(j) \subseteq Inodes
      /\ \A n : Entries(n) \subseteq Inodes
  BY DEF Unused, Descriptors, Entries
<1>3. QED BY <1>1, <1>2, FS_Subset, FS_CardinalityType

LEMMA DirInvInit == Init => DirInv
<1> SUFFICES ASSUME Init PROVE DirInv
  OBVIOUS
<1>1. Shape
  BY DEF Init, Shape, Formatted, NoInode, NoFile, NoDescriptor, Inodes, Free
<1>2. Listed = {} /\ Files = {}
  BY DEF Init, Listed, Files, NoFile
<1>3. Linked
  BY <1>2 DEF Init, Linked, Formatted, NoInode, NoDescriptor, Inodes, Free
<1>4. Room
  <2>1. Unused = Inodes \ {0} /\ Descriptors(Free) = Inodes
    BY DEF Init, Unused, Descriptors, Formatted, NoInode, NoDescriptor
  <2>2. IsFiniteSet(Inodes) /\ Cardinality(Inodes) \in Nat
    <3>1. IsFiniteSet(Inodes)
      BY FS_Interval DEF Inodes
    <3>2. QED BY <3>1, FS_CardinalityType
  <2>3. 0 \in Inodes
    BY DEF Inodes
  <2>4. Cardinality(Inodes \ {0}) = Cardinality(Inodes) - 1
    BY <2>2, <2>3, FS_RemoveElement
  <2>5. QED BY <2>1, <2>2, <2>4 DEF Room
<1>5. QED BY <1>1, <1>3, <1>4 DEF DirInv

-----------------------------------------------------------------------------
(* Calls that change no entry and give no descriptor another inode.        *)

DirectorySame ==
  /\ root' = root
  /\ DOMAIN table' = Inodes
  /\ \A i \in Inodes : /\ "used" \in DOMAIN table'[i]
                       /\ table'[i].used = table[i].used
  /\ DOMAIN fdt' = Inodes
  /\ \A k \in Inodes : /\ {"inode", "open"} \subseteq DOMAIN fdt'[k]
                       /\ fdt'[k].open \in {0, 1}
                       /\ fdt'[k].inode = fdt[k].inode
                       /\ \/ fdt'[k].open = 0
                          \/ fdt'[k].open = fdt[k].open
                          \/ fdt[k].inode \in Files

LEMMA DirectorySameKeeps ==
  ASSUME DirInv, DirectorySame PROVE DirInv'
<1>1. /\ Listed' = Listed /\ Files' = Files
      /\ Unused' = Unused /\ Descriptors(Free)' = Descriptors(Free)
  BY DEF DirectorySame, Listed, Files, Unused, Descriptors, Free
<1>2. Shape'
  BY DEF DirInv, Shape, DirectorySame, Free
<1>3. Linked'
  <2>1. 0 \in Inodes /\ \A i \in Listed : i \in Inodes
    BY DEF Inodes, Listed
  <2>2. /\ \A i \in Inodes : table'[i].used \in {0, 1}
        /\ table'[0].used = 1
        /\ \A i \in Listed : /\ root'[i].inoteindex \in 1 .. NumInodes - 1
                             /\ table'[root'[i].inoteindex].used = 1
    BY <2>1 DEF DirInv, Linked, DirectorySame, Inodes
  <2>3. \A k \in Inodes : fdt'[k].open = 1 => fdt'[k].inode # 0
    <3>1. 0 \notin Files
      BY DEF Files, DirInv, Linked
    <3>2. QED BY <3>1 DEF DirInv, Linked, DirectorySame
  <2>4. QED
    BY <1>1, <2>2, <2>3 DEF DirInv, Linked, DirectorySame, Free
<1>4. Room'
  BY <1>1 DEF DirInv, Room
<1>5. QED BY <1>2, <1>3, <1>4 DEF DirInv

LEMMA FopenExistingSame ==
  ASSUME DirInv, NEW name \in Names, FopenExisting(name) PROVE DirectorySame
<1> USE DEF DirInv
<1>1. PICK e \in Inodes : Entries(name) = {e} /\ e \in Listed
  <2>1. PICK e \in Entries(name) : TRUE
    BY DEF FopenExisting
  <2>2. \A i \in Entries(name) : i \in Listed /\ root[i].filename = name
    BY DEF Entries, Listed
  <2>3. Entries(name) = {e}
    BY <2>1, <2>2 DEF Linked
  <2>4. QED BY <2>1, <2>2, <2>3 DEF Entries
<1> DEFINE j == root[e].inoteindex
           k == Min(Descriptors(j))
<1>2. j \in Files
  BY <1>1 DEF Files
<1>3. k \in Inodes /\ fdt[k].inode = j
  <2>1. Descriptors(j) # {} /\ Descriptors(j) \subseteq Inodes
    BY <1>2 DEF Descriptors, Linked
  <2>2. k \in Descriptors(j)
    BY <2>1, MinIsFirst
  <2>3. QED BY <2>2 DEF Descriptors
<1>4. /\ root' = root /\ table' = table
      /\ \/ fdt' = fdt
         \/ fdt' = [fdt EXCEPT ![k].open = 1, ![k].rwptr = 0,
                               ![k].wptr = table[j].size]
  <2>1. /\ root' = root /\ table' = table
        /\ LET found == {i \in Entries(name) :
                           Descriptors(root[i].inoteindex) # {}}
           IN IF found = {} THEN UNCHANGED fdt
              ELSE LET f == root[Min(found)].inoteindex
                       d == Min(Descriptors(f))
                   IN fdt' = IF fdt[d].open = 1 THEN fdt
                             ELSE [fdt EXCEPT ![d].open = 1, ![d].rwptr = 0,
                                              ![d].wptr = table[f].size]
    BY DEF FopenExisting
  <2> DEFINE found == {i \in Entries(name) :
                         Descriptors(root[i].inoteindex) # {}}
  <2>2. CASE found = {}
    BY <2>1, <2>2
  <2>3. CASE found # {}
    <3>1. found = {e}
      BY <1>1, <2>3
    <3>2. Min(found) = e
      BY <3>1, MinIsFirst
    <3>3. QED BY <2>1, <2>3, <3>2
  <2>4. QED BY <2>2, <2>3
<1> HIDE DEF j, k
<1>5. QED BY <1>2, <1>3, <1>4 DEF DirectorySame, Shape

(* A descriptor with an inode has that of a listed file, or inode 0.       *)
LEMMA HasInodeIsFile ==
  ASSUME DirInv, NEW k \in Inodes, HasInode(k), fdt[k].inode # 0
  PROVE  fdt[k].inode \in Files /\ fdt[k].inode \in Inodes
<1>1. fdt[k].inode \in Files
  BY DEF DirInv, Linked, HasInode, Free
<1>2. QED BY <1>1 DEF DirInv, Linked, Files, Inodes

LEMMA MemorySame ==
  ASSUME DirInv, UNCHANGED memory PROVE DirectorySame
BY DEF DirInv, Shape, DirectorySame, memory

LEMMA FreadSame ==
  ASSUME DirInv, NEW k \in Inodes, NEW length \in Lengths, Fread(k, length)
  PROVE  DirectorySame
<1>1. CASE UNCHANGED memory
  BY <1>1, MemorySame
<1>2. CASE /\ UNCHANGED <<table, root>>
           /\ \E n : fdt' = [fdt EXCEPT ![k].rwptr = n]
  BY <1>2 DEF DirInv, Shape, DirectorySame
<1>3. \/ UNCHANGED memory
      \/ /\ UNCHANGED <<table, root>>
         /\ \E n : fdt' = [fdt EXCEPT ![k].rwptr = n]
  BY DEF Fread, GiveUp
<1>4. QED BY <1>1, <1>2, <1>3

LEMMA StoreWriteSame ==
  ASSUME DirInv, NEW k \in Inodes, NEW w, NEW s, StoreWrite(k, w, s)
  PROVE  DirectorySame
<1>1. PICK ptrs, indirect, size, to :
        /\ table' = [table EXCEPT ![fdt[k].inode].data_ptrs = ptrs,
                                  ![fdt[k].inode].indirectptr = indirect,
                                  ![fdt[k].inode].size = size]
        /\ fdt' = [fdt EXCEPT ![k].wptr = to]
  BY DEF StoreWrite
<1>2. root' = root
  BY DEF StoreWrite
<1>3. QED BY <1>1, <1>2 DEF DirInv, Shape, DirectorySame

LEMMA FwriteSame ==
  ASSUME DirInv, NEW k \in Inodes, NEW length \in Lengths, Fwrite(k, length)
  PROVE  DirectorySame
<1>1. \/ UNCHANGED memory
      \/ \E w, s : StoreWrite(k, w, s)
  BY DEF Fwrite, GiveUp
<1>2. QED BY <1>1, MemorySame, StoreWriteSame

LEMMA FseekSame ==
  ASSUME DirInv, NEW k \in Inodes, NEW loc, Fseek(k, loc)
  PROVE  DirectorySame
<1>1. /\ UNCHANGED <<table, root>>
      /\ \E to : fdt' = [fdt EXCEPT ![k].wptr = to, ![k].rwptr = to]
  BY DEF Fseek
<1>2. QED BY <1>1 DEF DirInv, Shape, DirectorySame

LEMMA FcloseSame ==
  ASSUME DirInv, NEW k \in Inodes, Fclose(k)
  PROVE  DirectorySame
BY DEF Fclose, DirInv, Shape, DirectorySame

-----------------------------------------------------------------------------
(* sfs_fopen() of a new name.                                              *)

LEMMA RankOfFirst ==
  ASSUME NEW S, S \subseteq Inodes, S # {} PROVE Rank(Min(S), S) = 0
<1>1. {x \in S : x < Min(S)} = {}
  <2>1. \A x \in S : Min(S) \in Int /\ x \in Int /\ Min(S) <= x
    <3>1. \A x \in Inodes : x \in Int
      BY DEF Inodes
    <3>2. QED BY <3>1, MinIsFirst
  <2>2. QED BY <2>1
<1>2. QED BY <1>1, FS_EmptySet DEF Rank

(* Either one entry gets one inode, or inodes are used up.  That several   *)
(* entries are filled needs unused inodes without a free descriptor.       *)
LEMMA CreatedIs ==
  ASSUME DirInv, NEW name, Entries(NoName) # {}
  PROVE  \/ Unused = {} /\ DOMAIN Created(name) = {} /\ Created(name) = Empty
         \/ /\ Descriptors(Free) # {}
            /\ \E e \in Entries(NoName), j \in Unused :
                 Created(name) = [i \in {e} |-> j]
<1> DEFINE empty == Entries(NoName)
           tries == IF Descriptors(Free) = {} THEN empty ELSE {Min(empty)}
           inode == [i \in tries |->
                       IF Rank(i, empty) < Cardinality(Unused)
                         THEN CHOOSE j \in Unused :
                                Rank(j, Unused) = Rank(i, empty)
                         ELSE NumInodes]
           has   == {i \in tries : inode[i] < NumInodes}
<1>1. Created(name) = [i \in has |-> inode[i]]
  BY DEF Created, Restrict
<1>2. /\ empty \subseteq Inodes /\ Unused \subseteq Inodes
      /\ Min(empty) \in empty
  <2>1. empty \subseteq Inodes /\ Unused \subseteq Inodes
    BY DEF Entries, Unused
  <2>2. QED BY <2>1, MinIsFirst
<1>3. Rank(Min(empty), empty) = 0
  BY <1>2, RankOfFirst
<1>4. \A i \in tries : Rank(i, empty) \in Nat
  <2>1. \A i : {x \in empty : x < i} \subseteq empty
    OBVIOUS
  <2>2. QED BY <2>1, SetsAreFinite, FS_Subset, FS_CardinalityType DEF Rank
<1>5. CASE Unused = {}
  <2>1. Cardinality(Unused) = 0
    BY <1>5, FS_EmptySet
  <2>2. \A i \in tries : inode[i] = NumInodes
    <3>1. \A n \in Nat : ~(n < 0)
      OBVIOUS
    <3>2. QED BY <1>4, <2>1, <3>1
  <2>3. has = {}
    <3>1. ~(NumInodes < NumInodes)
      OBVIOUS
    <3>2. QED BY <2>2, <3>1, Zenon
  <2>4. QED BY <1>1, <1>5, <2>3 DEF Empty
<1>6. CASE Unused # {}
  <2>1. Cardinality(Unused) \in Nat /\ Cardinality(Unused) # 0
    BY <1>6, SetsAreFinite, FS_EmptySet
  <2>2. Descriptors(Free) # {}
    <3>1. Cardinality({}) = 0
      BY FS_EmptySet
    <3>2. Cardinality(Unused) <= Cardinality(Descriptors(Free))
      BY DEF DirInv, Room
    <3>3. QED BY <2>1, <3>1, <3>2
  <2>3. tries = {Min(empty)}
    BY <2>2
  <2> DEFINE e == Min(empty)
             j == CHOOSE x \in Unused : Rank(x, Unused) = 0
  <2>4. j \in Unused
    <3>1. Min(Unused) \in Unused /\ Rank(Min(Unused), Unused) = 0
      BY <1>2, <1>6, MinIsFirst, RankOfFirst
    <3>2. QED BY <3>1
  <2>5. inode[e] = j
    BY <1>3, <2>1, <2>3
  <2>6. j < NumInodes
    <3>1. \A x \in Unused : x < NumInodes
      BY <1>2 DEF Inodes
    <3>2. QED BY <2>4, <3>1, Zenon
  <2>7. has = {e}
    BY <2>3, <2>5, <2>6
  <2>8. Created(name) = [i \in {e} |-> j]
    BY <1>1, <2>5, <2>7
  <2>9. QED BY <1>2, <2>2, <2>4, <2>8
<1>7. QED BY <1>5, <1>6

LEMMA FopenNewStep ==
  ASSUME DirInv, NEW name \in Names, FopenNew(name) PROVE DirInv'
<1> USE DEF DirInv
<1>1. name # NoName
  OBVIOUS
<1>2. /\ Entries(name) = {} /\ Entries(NoName) # {}
      /\ Unused \subseteq Inodes /\ Descriptors(Free) \subseteq Inodes
  BY DEF FopenNew, Unused, Descriptors
<1>3. CASE Unused = {} /\ DOMAIN Created(name) = {} /\ Created(name) = Empty
  <2>1. /\ DOMAIN table' = Inodes
        /\ \A i \in Inodes : table'[i] = table[i]
        /\ root' = root
        /\ \/ fdt' = fdt
           \/ \E d \in Inodes :
                /\ fdt[d].inode = Free
                /\ fdt' = [fdt EXCEPT ![d] = [inode |-> NumInodes, rwptr |-> 0,
                                              wptr |-> 0, open |-> 1]]
    <3>1. Range(Created(name)) = {}
      BY <1>3 DEF Range
    <3>2. table' = [i \in Inodes |-> table[i]]
      BY <3>1 DEF FopenNew
    <3>3. root' = [i \in Inodes |-> root[i]]
      BY <1>3 DEF FopenNew
    <3>4. root' = root
      BY <3>3 DEF Shape
    <3>5. Descriptors(Free) # {} =>
            Min(Descriptors(Free)) \in Descriptors(Free)
      BY <1>2, MinIsFirst
    <3>6. QED BY <1>2, <1>3, <3>2, <3>4, <3>5 DEF FopenNew, Descriptors
  <2>2. Listed' = Listed /\ Files' = Files /\ Unused' = Unused
    BY <2>1 DEF Listed, Files, Unused
  <2>3. Shape'
    BY <2>1 DEF Shape
  <2>4. Linked'
    <3>1. \A f \in Files : f # Free /\ f # NumInodes
      BY DEF Linked, Files, Free
    <3>2. /\ \A i \in Inodes : table'[i].used \in {0, 1}
          /\ table'[0].used = 1
          /\ \A i \in Listed : /\ root'[i].inoteindex \in 1 .. NumInodes - 1
                               /\ table'[root'[i].inoteindex].used = 1
      <4>1. 0 \in Inodes /\ \A i \in 1 .. NumInodes - 1 : i \in Inodes
        BY DEF Inodes
      <4>2. QED BY <2>1, <4>1 DEF Linked
    <3>3. \A k \in Inodes :
            \/ fdt'[k] = fdt[k]
            \/ /\ fdt[k].inode = Free /\ fdt'[k].inode = NumInodes
               /\ NumInodes # 0
      BY <2>1 DEF Shape
    <3>4. /\ \A k \in Inodes :
               fdt'[k].inode \in Files \union {0, NumInodes, Free}
          /\ \A k \in Inodes : fdt'[k].open = 1 => fdt'[k].inode # 0
      BY <3>3 DEF Linked
    <3>5. /\ \A f \in Files : \E k \in Inodes : fdt'[k].inode = f
          /\ \A k, l \in Inodes :
               fdt'[k].inode = fdt'[l].inode /\ fdt'[k].inode \in Files
                 => k = l
      BY <3>1, <3>3 DEF Linked
    <3>6. QED
      BY <2>1, <2>2, <3>2, <3>4, <3>5 DEF Linked, Free
  <2>5. Room'
    <3>1. Unused' = {}
      BY <1>3, <2>2
    <3>2. Cardinality(Unused') = 0
      BY <3>1, FS_EmptySet
    <3>3. Cardinality(Descriptors(Free)') \in Nat
      <4>1. IsFiniteSet(Inodes)
        BY FS_Interval DEF Inodes
      <4>2. Descriptors(Free)' \subseteq Inodes
        BY DEF Descriptors
      <4>3. QED BY <4>1, <4>2, FS_Subset, FS_CardinalityType
    <3>4. QED BY <3>2, <3>3 DEF Room
  <2>6. QED BY <2>3, <2>4, <2>5
<1>4. ASSUME Descriptors(Free) # {}, NEW e \in Entries(NoName),
             NEW j \in Unused, Created(name) = [i \in {e} |-> j]
      PROVE  DirInv'
  <2> DEFINE d == Min(Descriptors(Free))
  <2>1. d \in Inodes /\ fdt[d].inode = Free
    BY <1>2, <1>4, MinIsFirst DEF Descriptors
  <2>2. e \in Inodes /\ e \notin Listed /\ j \in Inodes /\ table[j].used = 0
    BY DEF Entries, Listed, Unused
  <2>3. j # 0 /\ j \in 1 .. NumInodes - 1 /\ j \notin Files
    <3>1. j # 0 /\ j \notin Files
      BY <2>2 DEF Linked, Files
    <3>2. QED BY <2>2, <3>1 DEF Inodes
  <2>4. /\ DOMAIN Created(name) = {e} /\ Range(Created(name)) = {j}
        /\ Created(name) # Empty /\ Created(name)[Min({e})] = j
    <3>1. DOMAIN Created(name) = {e} /\ Created(name)[e] = j
      BY <1>4
    <3>2. DOMAIN Empty = {}
      BY DEF Empty
    <3>3. Min({e}) = e
      BY <2>2, MinIsFirst
    <3>4. QED BY <3>1, <3>2, <3>3 DEF Range
  <2>5. /\ table' = [i \in Inodes |->
                       IF i = j THEN [table[i] EXCEPT !.used = 1, !.size = 0]
                                ELSE table[i]]
        /\ root' = [i \in Inodes |->
                      IF i = e THEN [filename |-> name, inoteindex |-> j]
                               ELSE root[i]]
        /\ fdt' = [fdt EXCEPT ![d] = [inode |-> j, rwptr |-> 0, wptr |-> 0,
                                      open |-> 1]]
    <3>1. table' = [i \in Inodes |->
                       IF i = j THEN [table[i] EXCEPT !.used = 1, !.size = 0]
                                ELSE table[i]]
      BY <2>4 DEF FopenNew
    <3>2. root' = [i \in Inodes |->
                      IF i = e THEN [filename |-> name, inoteindex |-> j]
                               ELSE root[i]]
      BY <1>4, <2>4 DEF FopenNew
    <3>3. fdt' = [fdt EXCEPT ![d] = [inode |-> j, rwptr |-> 0, wptr |-> 0,
                                     open |-> 1]]
      BY <1>4, <2>4 DEF FopenNew
    <3>4. QED BY <3>1, <3>2, <3>3
  <2> HIDE DEF d
  <2>6. /\ Listed' = Listed \union {e} /\ Files' = Files \union {j}
        /\ root'[e].filename = name /\ root'[e].inoteindex = j
        /\ \A i \in Listed : root'[i] = root[i]
    BY <1>1, <2>2, <2>5 DEF Listed, Files
  <2>7. Unused' = Unused \ {j} /\ Descriptors(Free)' = Descriptors(Free) \ {d}
    <3>1. /\ \A i \in Inodes : table'[i].used = IF i = j THEN 1
                                                ELSE table[i].used
      BY <2>5 DEF Shape
    <3>2. Unused' = Unused \ {j}
      BY <3>1 DEF Unused
    <3>3. \A k \in Inodes : fdt'[k].inode = IF k = d THEN j ELSE fdt[k].inode
      BY <2>1, <2>5 DEF Shape
    <3>4. Descriptors(Free)' = Descriptors(Free) \ {d}
      BY <2>1, <2>3, <3>3 DEF Descriptors, Free
    <3>5. QED BY <3>2, <3>4
  <2>8. Shape'
    <3>1. \A i \in Inodes : "used" \in DOMAIN table'[i]
      BY <2>5 DEF Shape
    <3>2. \A k \in Inodes : {"inode", "open"} \subseteq DOMAIN fdt'[k]
      BY <2>5 DEF Shape
    <3>3. root' \in [Inodes -> [filename : Names \union {NoName},
                               inoteindex : 0 .. Free]]
      <4>1. j \in 0 .. Free
        BY <2>3 DEF Free
      <4>2. QED BY <2>5, <4>1 DEF Shape
    <3>4. QED BY <2>5, <3>1, <3>2, <3>3 DEF Shape, Free
  <2>9. Linked'
    <3>1. /\ \A i \in Inodes : table'[i].used = IF i = j THEN 1
                                                ELSE table[i].used
          /\ \A k \in Inodes : /\ fdt'[k].inode = IF k = d THEN j
                                                  ELSE fdt[k].inode
                               /\ k # d => fdt'[k].open = fdt[k].open
      BY <2>1, <2>5 DEF Shape
    <3>2. /\ \A i \in Inodes : table'[i].used \in {0, 1}
          /\ table'[0].used = 1
      BY <2>3, <3>1 DEF Linked, Inodes
    <3>3. \A i \in Listed' : /\ root'[i].inoteindex \in 1 .. NumInodes - 1
                             /\ table'[root'[i].inoteindex].used = 1
      BY <2>3, <2>6, <3>1 DEF Linked, Inodes
    <3>4. \A i, l \in Listed' :
            i # l => /\ root'[i].filename # root'[l].filename
                     /\ root'[i].inoteindex # root'[l].inoteindex
      <4>1. \A i \in Listed : /\ root[i].filename # name
                              /\ root[i].inoteindex # j
        BY <1>2, <2>3 DEF Entries, Listed, Files
      <4>2. QED BY <2>6, <4>1 DEF Linked
    <3>5. \A k \in Inodes :
            fdt'[k].inode \in Files' \union {0, NumInodes, Free}
      BY <2>6, <3>1 DEF Linked
    <3>6. \A k \in Inodes : fdt'[k].open = 1 => fdt'[k].inode # 0
      BY <2>3, <3>1 DEF Linked
    <3>7. \A f \in Files' : \E k \in Inodes : fdt'[k].inode = f
      <4>1. \A f \in Files : f # Free
        BY DEF Linked, Files, Free
      <4>2. QED BY <2>1, <2>6, <3>1, <4>1 DEF Linked
    <3>8. \A k, l \in Inodes :
            fdt'[k].inode = fdt'[l].inode /\ fdt'[k].inode \in Files' => k = l
      <4>1. \A k \in Inodes : fdt[k].inode # j
        BY <2>3 DEF Linked, Free
      <4>2. QED BY <2>6, <3>1, <4>1 DEF Linked
    <3>9. QED
      BY <3>2, <3>3, <3>4, <3>5, <3>6, <3>7, <3>8 DEF Linked, Free
  <2>10. Room'
    <3>1. d \in Descriptors(Free)
      BY <2>1 DEF Descriptors
    <3>2. /\ Cardinality(Unused \ {j}) = Cardinality(Unused) - 1
          /\ Cardinality(Descriptors(Free) \ {d})
               = Cardinality(Descriptors(Free)) - 1
      BY <3>1, SetsAreFinite, FS_RemoveElement
    <3>3. QED BY <2>7, <3>2, SetsAreFinite DEF Room
  <2>11. QED BY <2>8, <2>9, <2>10
<1>5. QED BY <1>2, <1>3, <1>4, CreatedIs

-----------------------------------------------------------------------------
(* sfs_remove(): the descriptor of the file refers to no file any more.    *)

LEMMA SfsRemoveStep ==
  ASSUME DirInv, NEW name \in Names, SfsRemove(name) PROVE DirInv'
<1> USE DEF DirInv
<1> DEFINE e == RemovedEntry(name)
           inode == root[e].inoteindex
<1>1. e \in Listed /\ e \in Inodes
  <2>1. PICK i \in Entries(name) : TRUE
    BY DEF SfsRemove
  <2>2. \A l \in Entries(name) : l \in Listed /\ root[l].filename = name
    BY DEF Entries, Listed
  <2>3. Entries(name) = {i} /\ i \in Int
    BY <2>1, <2>2 DEF Linked, Listed, Inodes
  <2>4. i \in Entries(name) /\ \A l \in Entries(name) : i >= l
    BY <2>3
  <2>5. e \in Entries(name)
    BY <2>4 DEF RemovedEntry, Max
  <2>6. QED BY <2>2, <2>5 DEF Entries
<1>2. inode \in Files /\ inode \in 1 .. NumInodes - 1 /\ inode \in Inodes
  BY <1>1 DEF Files, Linked, Inodes
<1>3. CASE UNCHANGED memory
  BY <1>3, MemorySame, DirectorySameKeeps
<1>4. CASE /\ root' = [root EXCEPT ![e].filename = NoName]
           /\ fdt' = DescriptorsWithout(inode)
           /\ \E ptrs : table' = [table EXCEPT ![inode].data_ptrs = ptrs,
                                               ![inode].indirectptr = Cut]
  <2> HIDE DEF e, inode
  <2>1. /\ \A i \in Inodes : table'[i].used = table[i].used
        /\ Unused' = Unused
    <3>1. \A i \in Inodes : table'[i].used = table[i].used
      BY <1>4 DEF Shape
    <3>2. QED BY <3>1 DEF Unused
  <2>2. /\ \A i \in Inodes \ {e} : root'[i] = root[i]
        /\ root'[e].filename = NoName
        /\ root'[e].inoteindex = root[e].inoteindex
    BY <1>1, <1>4 DEF Shape
  <2>3. Listed' = Listed \ {e} /\ Files' = Files \ {root[e].inoteindex}
    <3>1. Listed' = Listed \ {e}
      BY <2>2 DEF Listed
    <3>2. QED BY <1>1, <2>2, <3>1 DEF Files, Linked, Listed
  <2>4. \A k \in Inodes :
          IF fdt[k].inode = inode THEN fdt'[k].inode = 0 /\ fdt'[k].open = 0
          ELSE fdt'[k] = fdt[k]
    BY <1>4 DEF DescriptorsWithout, NoDescriptor
  <2>5. Descriptors(Free)' = Descriptors(Free)
    <3>1. inode # Free /\ 0 # Free
      BY <1>2 DEF Free, inode
    <3>2. QED BY <2>4, <3>1 DEF Descriptors, Free
  <2>6. Shape'
    BY <1>1, <1>4 DEF Shape, DescriptorsWithout, NoDescriptor, Free
  <2>7. Linked'
    <3>1. inode = root[e].inoteindex /\ 0 \in Inodes
      BY DEF inode, Inodes
    <3>2. \A i \in Listed' : /\ root'[i].inoteindex \in 1 .. NumInodes - 1
                             /\ table'[root'[i].inoteindex].used = 1
      BY <2>1, <2>2, <2>3 DEF Linked, Listed, Inodes
    <3>3. \A i, l \in Listed' :
            i # l => /\ root'[i].filename # root'[l].filename
                     /\ root'[i].inoteindex # root'[l].inoteindex
      BY <2>2, <2>3 DEF Linked, Listed
    <3>4. \A k \in Inodes :
            fdt'[k].inode \in Files' \union {0, NumInodes, Free}
      BY <2>3, <2>4, <3>1 DEF Linked
    <3>5. \A k \in Inodes : fdt'[k].open = 1 => fdt'[k].inode # 0
      BY <2>4 DEF Linked
    <3>6. \A f \in Files' : \E k \in Inodes : fdt'[k].inode = f
      BY <2>3, <2>4, <3>1 DEF Linked
    <3>7. \A k, l \in Inodes :
            fdt'[k].inode = fdt'[l].inode /\ fdt'[k].inode \in Files' => k = l
      <4>1. 0 \notin Files
        BY DEF Files, Linked
      <4>2. QED BY <2>3, <2>4, <4>1 DEF Linked
    <3>8. QED
      BY <2>1, <3>1, <3>2, <3>3, <3>4, <3>5, <3>6, <3>7 DEF Linked, Free
  <2>8. Room'
    BY <2>1, <2>5 DEF Room
  <2>9. QED BY <2>6, <2>7, <2>8
<1>5. \/ UNCHANGED memory
      \/ /\ root' = [root EXCEPT ![e].filename = NoName]
         /\ fdt' = DescriptorsWithout(inode)
         /\ \E ptrs : table' = [table EXCEPT ![inode].data_ptrs = ptrs,
                                             ![inode].indirectptr = Cut]
  BY DEF SfsRemove, GiveUp
<1>6. QED BY <1>3, <1>4, <1>5

-----------------------------------------------------------------------------
(* The theorems.                                                           *)

LEMMA DirInvStep == DirInv /\ [RemoveNext]_vars => DirInv'
<1> SUFFICES ASSUME DirInv, [RemoveNext]_vars PROVE DirInv'
  OBVIOUS
<1>1. CASE UNCHANGED vars
  BY <1>1, MemorySame, DirectorySameKeeps DEF vars
<1>2. CASE \E name \in Names : FopenExisting(name)
  BY <1>2, FopenExistingSame, DirectorySameKeeps
<1>3. CASE \E name \in Names : FopenNew(name)
  BY <1>3, FopenNewStep
<1>4. CASE \E k \in Inodes : Fclose(k)
  BY <1>4, FcloseSame, DirectorySameKeeps
<1>5. CASE \E k \in Inodes : FreadClosed(k) \/ UseWithoutInode(k)
  BY <1>5, MemorySame, DirectorySameKeeps
     DEF FreadClosed, UseWithoutInode, GiveUp
<1>6. CASE \E k \in Inodes : \E length \in Lengths : Fread(k, length)
  BY <1>6, FreadSame, DirectorySameKeeps
<1>7. CASE \E k \in Inodes : \E length \in Lengths : Fwrite(k, length)
  BY <1>7, FwriteSame, DirectorySameKeeps
<1>8. CASE \E k \in Inodes : \E loc \in Positions : Fseek(k, loc)
  BY <1>8, FseekSame, DirectorySameKeeps
<1>9. CASE Getnextfilename
  BY <1>9, MemorySame, DirectorySameKeeps DEF Getnextfilename
<1>10. CASE \E name \in Names : SfsRemove(name)
  BY <1>10, SfsRemoveStep
<1>11. QED
  BY <1>1, <1>2, <1>3, <1>4, <1>5, <1>6, <1>7, <1>8, <1>9, <1>10
     DEF RemoveNext, FileCall

LEMMA DirInvCorrect == RemoveSpec => []DirInv
BY DirInvInit, DirInvStep, PTL DEF RemoveSpec

(* sfs_fopen() and sfs_remove() keep names, inodes and descriptors apart:  *)
(* no name twice, no inode under two names, and one descriptor for each    *)
(* file, whatever is written and in whatever order files are created and   *)
(* removed, also when entries, inodes and descriptors run out.             *)
THEOREM DirectoryConsistentCorrect == RemoveSpec => []DirectoryConsistent
<1>1. DirInv => DirectoryConsistent
  <2> SUFFICES ASSUME DirInv PROVE DirectoryConsistent
    OBVIOUS
  <2>1. ASSUME NEW f \in Files
        PROVE  table[f].used = 1 /\ Cardinality(Descriptors(f)) = 1
    <3>1. table[f].used = 1
      BY DEF DirInv, Linked, Files
    <3>2. PICK k \in Inodes : fdt[k].inode = f
      BY DEF DirInv, Linked
    <3>3. Descriptors(f) = {k}
      BY <3>2 DEF DirInv, Linked, Descriptors
    <3>4. QED BY <3>1, <3>3, FS_Singleton
  <2>2. QED BY <2>1 DEF DirectoryConsistent, DirInv, Linked
<1>2. QED BY <1>1, DirInvCorrect, PTL

(* A descriptor, open or closed, has the inode of a file in the directory, *)
(* none, or inode 0 and is closed: sfs_remove() leaves no descriptor with  *)
(* the inode of the file it removes.                                       *)
THEOREM DescriptorsListedCorrect == RemoveSpec => []DescriptorsListed
<1>1. DirInv => DescriptorsListed
  <2> SUFFICES ASSUME DirInv, NEW k \in Inodes, HasInode(k)
               PROVE  \/ fdt[k].inode \in Files
                      \/ fdt[k].inode = 0 /\ fdt[k].open = 0
    BY DEF DescriptorsListed
  <2>1. CASE fdt[k].inode # 0
    BY <2>1, HasInodeIsFile
  <2>2. CASE fdt[k].inode = 0
    <3>1. fdt[k].open # 1
      BY <2>2 DEF DirInv, Linked
    <3>2. fdt[k].open \in {0, 1}
      BY DEF DirInv, Shape
    <3>3. QED BY <2>2, <3>1, <3>2
  <2>3. QED BY <2>1, <2>2
<1>2. QED BY <1>1, DirInvCorrect, PTL

-----------------------------------------------------------------------------
(* The sizes of the disk and its parts.                                    *)

HIDE SfsAssumption

LEMMA Sizes ==
  /\ BlockSize \in Nat /\ 1 < BlockSize
  /\ NumBlocks \in Nat /\ 3 < NumBlocks
  /\ BitmapBits \in Nat /\ NumBlocks <= BitmapBits
  /\ NumInodes \in Nat /\ 0 < NumInodes
  /\ Direct \in Nat /\ 0 < Direct /\ Direct <= BlockSize
  BY SfsAssumption

USE Sizes

-----------------------------------------------------------------------------
(* Numbers: least elements, induction up to a bound, blocks and cells.     *)

LEMMA LeastNat ==
  ASSUME NEW S, S \subseteq Nat, S # {}
  PROVE  \E m \in S : \A x \in S : m <= x
<1>1. PICK m \in S : \A x \in S : ~(<<x, m>> \in OpToRel(<, Nat))
  BY NatLessThanWellFounded, WFMin
<1>2. ASSUME NEW x \in S, x < m PROVE FALSE
  <2>1. <<x, m>> \in Nat \X Nat
    OBVIOUS
  <2>2. <<x, m>> \in OpToRel(<, Nat)
    BY <1>2, <2>1 DEF OpToRel
  <2>3. QED BY <1>1, <2>2
<1>3. QED
  <2>1. \A x \in S : x \in Int /\ m \in Int
    OBVIOUS
  <2>2. QED BY <1>2, <2>1

LEMMA UpTo ==
  ASSUME NEW a \in Int, NEW b \in Int, NEW S,
         a <= b => a \in S,
         \A n \in a .. b - 1 : n \in S => n + 1 \in S
  PROVE  a .. b \subseteq S
<1> DEFINE Bad == {n \in Nat : a + n <= b /\ a + n \notin S}
<1>1. CASE Bad = {}
  <2>1. ASSUME NEW n \in a .. b PROVE n \in S
    <3>1. n - a \in Nat /\ a + (n - a) = n /\ n <= b
      OBVIOUS
    <3>2. QED BY <1>1, <3>1
  <2>2. QED BY <2>1
<1>2. CASE Bad # {}
  <2>1. PICK m \in Bad : \A x \in Bad : m <= x
    <3>1. Bad \subseteq Nat
      OBVIOUS
    <3> HIDE DEF Bad
    <3>2. QED BY <1>2, <3>1, LeastNat
  <2>2. m \in Nat /\ a + m <= b /\ a + m \notin S
    BY <2>1
  <2>3. m # 0
    <3>1. m = 0 => a \in S
      BY <2>2
    <3>2. QED BY <2>2, <3>1
  <2>4. m - 1 \in Nat /\ a + (m - 1) <= b /\ m - 1 < m
    BY <2>2, <2>3
  <2>5. a + (m - 1) \in S
    BY <2>1, <2>4
  <2>6. a + (m - 1) \in a .. b - 1 /\ (a + (m - 1)) + 1 = a + m
    BY <2>2, <2>4
  <2>7. QED BY <2>2, <2>5, <2>6
<1>3. QED BY <1>1, <1>2

(* The round after the last one starts from what the last one has left.    *)
LEMMA LoopIs ==
  ASSUME NEW w, NEW s, NEW first \in Nat
  PROVE  \A j \in -1 .. Direct + BlockSize - 1 :
           Loop(w, s, first)[j] =
             IF j < first THEN s ELSE PutBlock(w, Loop(w, s, first)[j - 1], j)
<1> DEFINE n == Direct + BlockSize - 1
           Step(g, j) == IF j < first THEN s ELSE PutBlock(w, g[j - 1], j)
           Is(g, m) == g = [j \in -1 .. m |-> Step(g, j)]
           Good == {m \in -1 .. n : \E g : Is(g, m)}
<1>1. n \in Int /\ -1 <= n
  OBVIOUS
<1> HIDE DEF n
<1>2. -1 \in Good
  <2> DEFINE h == [j \in -1 .. -1 |-> s]
  <2>1. \A j \in -1 .. -1 : j < first
    OBVIOUS
  <2>2. [j \in -1 .. -1 |-> Step(h, j)] = h
    BY <2>1
  <2>3. Is(h, -1)
    BY <2>2
  <2>4. -1 \in -1 .. n
    BY <1>1
  <2> HIDE DEF Is, h
  <2>5. QED BY <2>3, <2>4
<1>3. ASSUME NEW m \in -1 .. n - 1, m \in Good PROVE m + 1 \in Good
  <2>1. PICK g : Is(g, m)
    BY <1>3
  <2> DEFINE h == [j \in -1 .. m + 1 |-> IF j <= m THEN g[j] ELSE Step(g, j)]
  <2>2. ASSUME NEW j \in -1 .. m + 1 PROVE h[j] = Step(h, j)
    <3>1. CASE j < first
      <4>1. j <= m => g[j] = s
        BY <2>1, <3>1
      <4>2. QED BY <3>1, <4>1
    <3>2. CASE ~(j < first)
      <4>1. j - 1 \in -1 .. m
        BY <3>2
      <4>2. h[j - 1] = g[j - 1]
        BY <4>1
      <4>3. j <= m => g[j] = PutBlock(w, g[j - 1], j)
        BY <2>1, <3>2
      <4>4. h[j] = PutBlock(w, g[j - 1], j)
        BY <3>2, <4>3
      <4>5. QED BY <3>2, <4>2, <4>4
    <3>3. QED BY <3>1, <3>2
  <2>3. Is(h, m + 1)
    BY <2>2
  <2>4. m + 1 \in -1 .. n
    BY <1>1
  <2> HIDE DEF Is, h
  <2>5. QED BY <2>3, <2>4
<1> HIDE DEF Good
<1>4. n \in Good
  <2>1. -1 .. n \subseteq Good
    BY <1>1, <1>2, <1>3, UpTo
  <2>2. QED BY <1>1, <2>1
<1>5. PICK g : Is(g, n)
  BY <1>4 DEF Good
<1>6. Loop(w, s, first) = CHOOSE h : Is(h, n)
  BY DEF Loop, n
<1> HIDE DEF Is
<1>7. Is(Loop(w, s, first), n)
  BY <1>5, <1>6
<1>8. QED BY <1>7 DEF n, Is

LEMMA BlockAndCell ==
  ASSUME NEW x \in Nat
  PROVE  /\ x \div BlockSize \in Nat /\ x % BlockSize \in Cells
         /\ x = (x \div BlockSize) * BlockSize + (x % BlockSize)
  BY DEF Cells

LEMMA TimesBlock ==
  ASSUME NEW a \in Nat, NEW b \in Nat, a <= b
  PROVE  /\ a * BlockSize \in Nat /\ b * BlockSize \in Nat
         /\ a * BlockSize <= b * BlockSize
         /\ (a + 1) * BlockSize = a * BlockSize + BlockSize
  OBVIOUS

(* Block j holds the positions from j * BlockSize on.                      *)
LEMMA BlockOf ==
  ASSUME NEW x \in Nat, NEW j \in Nat
  PROVE  /\ j <= x \div BlockSize <=> j * BlockSize <= x
         /\ x \div BlockSize <= j <=> x < j * BlockSize + BlockSize
<1> DEFINE q == x \div BlockSize
           r == x % BlockSize
<1>1. q \in Nat /\ r \in 0 .. BlockSize - 1 /\ x = q * BlockSize + r
  BY BlockAndCell DEF Cells
<1>2. q * BlockSize \in Nat /\ j * BlockSize \in Nat
  <2>1. \A n \in Nat : n * BlockSize \in Nat
    OBVIOUS
  <2>2. QED BY <1>1, <2>1, Zenon
<1> HIDE DEF q, r
<1>3. j <= q => j * BlockSize <= x
  BY <1>1, <1>2, TimesBlock
<1>4. q + 1 <= j => x < j * BlockSize
  <2>1. q + 1 <= j => (q + 1) * BlockSize <= j * BlockSize
    BY <1>1, TimesBlock
  <2>2. (q + 1) * BlockSize = q * BlockSize + BlockSize
    BY <1>1, TimesBlock
  <2>3. QED BY <1>1, <1>2, <2>1, <2>2
<1>5. q <= j => x < j * BlockSize + BlockSize
  <2>1. q <= j => q * BlockSize <= j * BlockSize
    BY <1>1, TimesBlock
  <2>2. QED BY <1>1, <1>2, <2>1
<1>6. j + 1 <= q => j * BlockSize + BlockSize <= x
  <2>1. j + 1 <= q => (j + 1) * BlockSize <= q * BlockSize
    BY <1>1, TimesBlock
  <2>2. (j + 1) * BlockSize = j * BlockSize + BlockSize
    BY TimesBlock
  <2>3. QED BY <1>1, <1>2, <2>1, <2>2
<1>7. j <= q \/ q + 1 <= j
  BY <1>1
<1>8. q <= j \/ j + 1 <= q
  BY <1>1
<1>9. j <= q <=> j * BlockSize <= x
  BY <1>2, <1>3, <1>4, <1>7, <1>1
<1>10. q <= j <=> x < j * BlockSize + BlockSize
  BY <1>2, <1>5, <1>6, <1>8, <1>1
<1>11. QED BY <1>9, <1>10 DEF q

(* The end of a file that fits is in one of its blocks.                    *)
LEMMA EndInSlots ==
  ASSUME NEW n \in Nat, n < MaxSize PROVE n \div BlockSize \in Slots
<1> DEFINE m == n \div BlockSize
           T == (Direct + BlockSize) * BlockSize
<1>1. /\ Direct + BlockSize - 1 \in Nat
      /\ (Direct + BlockSize - 1) + 1 = Direct + BlockSize
      /\ m \in Nat
  BY BlockAndCell
<1>2. m <= Direct + BlockSize - 1
        <=> n < (Direct + BlockSize - 1) * BlockSize + BlockSize
  BY <1>1, BlockOf
<1>3. ((Direct + BlockSize - 1) + 1) * BlockSize
        = (Direct + BlockSize - 1) * BlockSize + BlockSize
  BY <1>1, TimesBlock
<1>4. n < T
  BY DEF MaxSize
<1>5. m <= Direct + BlockSize - 1
  BY <1>1, <1>2, <1>3, <1>4
<1> HIDE DEF m
<1>6. m \in Slots
  BY <1>1, <1>5 DEF Slots
<1>7. QED BY <1>6 DEF m

LEMMA PlaceOfCell ==
  ASSUME NEW j \in Nat, NEW c \in Cells
  PROVE  /\ j * BlockSize + c \in Nat
         /\ (j * BlockSize + c) \div BlockSize = j
         /\ (j * BlockSize + c) % BlockSize = c
<1> DEFINE x == j * BlockSize + c
<1>1. j * BlockSize \in Nat /\ c \in 0 .. BlockSize - 1
  <2>1. j * BlockSize \in Nat
    OBVIOUS
  <2>2. QED BY <2>1 DEF Cells
<1>2. x \in Nat /\ x = j * BlockSize + c
  BY <1>1
<1> HIDE DEF x
<1>3. x \div BlockSize \in Nat /\ x % BlockSize \in Nat
  BY <1>2, BlockAndCell DEF Cells
<1>4. j <= x \div BlockSize /\ x \div BlockSize <= j
  BY <1>1, <1>2, BlockOf
<1>5. x \div BlockSize = j
  BY <1>3, <1>4
<1>6. x = j * BlockSize + (x % BlockSize)
  BY <1>2, <1>5, BlockAndCell
<1>7. x % BlockSize = c
  BY <1>1, <1>2, <1>3, <1>6
<1>8. QED BY <1>2, <1>5, <1>7 DEF x

LEMMA MinOfTwo ==
  ASSUME NEW a \in Int, NEW b \in Int
  PROVE  /\ Min({a, b}) = IF a <= b THEN a ELSE b
         /\ Max({a, b}) = IF a <= b THEN b ELSE a
<1>1. PICK x \in {a, b} : \A y \in {a, b} : x <= y
  <2>1. a <= b \/ b <= a
    OBVIOUS
  <2>2. QED BY <2>1
<1>2. PICK z \in {a, b} : \A y \in {a, b} : z >= y
  <2>1. a <= b \/ b <= a
    OBVIOUS
  <2>2. QED BY <2>1
<1>3. Min({a, b}) \in {a, b} /\ \A y \in {a, b} : Min({a, b}) <= y
  BY <1>1 DEF Min
<1>4. Max({a, b}) \in {a, b} /\ \A y \in {a, b} : Max({a, b}) >= y
  BY <1>2 DEF Max
<1>5. QED BY <1>3, <1>4

LEMMA LowestIs ==
  ASSUME NEW free, free \subseteq 0 .. BitmapBits - 1
  PROVE  /\ Lowest(free) \in free \union {BitmapBits}
         /\ Lowest(free) \in 0 .. BitmapBits
<1>1. CASE free = {}
  BY <1>1 DEF Lowest
<1>2. CASE free # {}
  <2>1. free \subseteq Nat
    OBVIOUS
  <2>2. PICK m \in free : \A x \in free : m <= x
    BY <1>2, <2>1, LeastNat
  <2>3. Min(free) \in free
    BY <2>2 DEF Min
  <2>4. Lowest(free) = Min(free)
    BY <1>2 DEF Lowest
  <2>5. \A x \in free : x \in 0 .. BitmapBits
    OBVIOUS
  <2>6. QED BY <2>3, <2>4, <2>5, Zenon
<1>3. QED BY <1>1, <1>2

-----------------------------------------------------------------------------
(* One round of sfs_fwrite(): the types and what a round leaves alone.     *)

Unreserved == 4 .. BitmapBits - 1

(* Only the numbers in data_ptrs[] are known to be numbers of the bitmap.  *)
SlotMaps == {f \in [Slots -> Nat] :
               \A p \in Pointers : f[p] \in 0 .. BitmapBits}

States == [slots : SlotMaps, free : SUBSET Unreserved,
           indirect : 0 .. BitmapBits, disk : [Blocks -> [Cells -> Nat]],
           count : Nat, unread : BOOLEAN]

Writes == [isfirst : BOOLEAN, pointer : Nat, length : Nat, from : Nat,
           taken : Nat, first : Nat, last : Nat]

LEMMA OldCellType ==
  ASSUME NEW w \in Writes, NEW s \in States, NEW j \in Slots, NEW c \in Cells
  PROVE  OldCell(w, s, j, c) \in Nat
<1>1. s.slots[j] \in Nat
  BY DEF States, SlotMaps
<1>2. BlockOn(s.disk, s.slots[j])[c] \in Nat
  <2>1. CASE s.slots[j] < NumBlocks
    <3>1. s.slots[j] \in Blocks
      BY <1>1, <2>1 DEF Blocks
    <3>2. s.disk[s.slots[j]] \in [Cells -> Nat]
      BY <3>1 DEF States, SlotMaps
    <3>3. QED BY <2>1, <3>2 DEF BlockOn
  <2>2. CASE ~(s.slots[j] < NumBlocks)
    BY <2>2 DEF BlockOn, Zeros
  <2>3. QED BY <2>1, <2>2
<1>3. QED BY <1>2 DEF OldCell

LEMMA CellsForType ==
  ASSUME calls \in Nat, NEW w \in Writes, NEW s \in States, NEW j \in Slots
  PROVE  CellsFor(w, s, j) \in [Cells -> Nat]
<1> SUFFICES ASSUME NEW c \in Cells, Within(w, j, c)
             PROVE  Buffer((j * BlockSize + c) - w.from, w.length) \in Nat
  BY OldCellType DEF CellsFor
<1> DEFINE q == (j * BlockSize + c) - w.from
<1>1. j \in Nat
  BY DEF Slots
<1>2. w.from \in Nat /\ w.taken \in Nat /\ w.length \in Nat
  BY DEF Writes
<1>3. j * BlockSize + c \in Nat
  BY <1>1, PlaceOfCell
<1>4. q \in Nat
  <2>1. w.from <= j * BlockSize + c
    BY <1>2, <1>3 DEF Within
  <2>2. \A x \in Nat, y \in Nat : y <= x => x - y \in Nat
    OBVIOUS
  <2>3. QED BY <1>2, <1>3, <2>1, <2>2, Zenon
<1> HIDE DEF q
<1>5. 1000 * (calls + 1) + q \in Nat
  BY <1>4
<1>6. Buffer(q, w.length) \in Nat
  BY <1>5 DEF Buffer, Overread
<1>7. QED BY <1>6 DEF q

LEMMA BlockForType ==
  ASSUME NEW w \in Writes, NEW s \in States, NEW j \in Slots
  PROVE  /\ BlockFor(w, s, j) \in Nat
         /\ Allocates(w, s, j) =>
              /\ BlockFor(w, s, j) = Lowest(s.free)
              /\ BlockFor(w, s, j) \in s.free \union {BitmapBits}
         /\ ~Allocates(w, s, j) => BlockFor(w, s, j) = s.slots[j]
<1>1. s.slots[j] \in Nat
  BY DEF States, SlotMaps
<1>2. s.free \subseteq 0 .. BitmapBits - 1
  BY DEF States, SlotMaps, Unreserved
<1>3. /\ Lowest(s.free) \in s.free \union {BitmapBits}
      /\ Lowest(s.free) \in 0 .. BitmapBits
  BY <1>2, LowestIs
<1>4. Lowest(s.free) \in Nat
  BY <1>3
<1>5. QED BY <1>1, <1>3, <1>4 DEF BlockFor

LEMMA CountForType ==
  ASSUME NEW w, NEW j PROVE CountFor(w, j) \in Nat
<1>1. IsFiniteSet(Cells)
  BY FS_Interval DEF Cells
<1>2. IsFiniteSet({c \in Cells : Within(w, j, c)})
  BY <1>1, FS_Subset
<1>3. QED BY <1>2, FS_CardinalityType DEF CountFor

LEMMA PutSlots ==
  ASSUME NEW w, NEW s \in States, NEW j \in Slots
  PROVE  PutBlock(w, s, j).slots = [s.slots EXCEPT ![j] = BlockFor(w, s, j)]
  BY DEF PutBlock, States, SlotMaps

LEMMA PutFree ==
  ASSUME NEW w, NEW s \in States, NEW j \in Slots
  PROVE  PutBlock(w, s, j).free = IF Allocates(w, s, j)
                                    THEN s.free \ {BlockFor(w, s, j)}
                                    ELSE s.free
  BY DEF PutBlock, States, SlotMaps

LEMMA PutDisk ==
  ASSUME NEW w, NEW s \in States, NEW j \in Slots
  PROVE  PutBlock(w, s, j).disk =
           IF BlockFor(w, s, j) < NumBlocks
             THEN [s.disk EXCEPT ![BlockFor(w, s, j)] = CellsFor(w, s, j)]
             ELSE s.disk
  BY DEF PutBlock, States, SlotMaps

LEMMA PutCount ==
  ASSUME NEW w, NEW s \in States, NEW j \in Slots
  PROVE  PutBlock(w, s, j).count = IF BlockFor(w, s, j) < NumBlocks
                                     THEN s.count + CountFor(w, j)
                                     ELSE s.count
  BY DEF PutBlock, States, SlotMaps

LEMMA PutRest ==
  ASSUME NEW w, NEW s \in States, NEW j \in Slots
  PROVE  /\ PutBlock(w, s, j).indirect = s.indirect
         /\ PutBlock(w, s, j).unread = s.unread
  BY DEF PutBlock, States, SlotMaps

LEMMA PutBlockType ==
  ASSUME calls \in Nat, NEW w \in Writes, NEW s \in States, NEW j \in Slots
  PROVE  PutBlock(w, s, j) \in States
<1> DEFINE b == BlockFor(w, s, j)
           t == PutBlock(w, s, j)
<1>1. /\ s.slots \in [Slots -> Nat] /\ s.free \subseteq Unreserved
      /\ s.disk \in [Blocks -> [Cells -> Nat]] /\ s.count \in Nat
  BY DEF States, SlotMaps
<1>2. b \in Nat
  BY BlockForType
<1>3. CellsFor(w, s, j) \in [Cells -> Nat]
  BY CellsForType
<1>4. CountFor(w, j) \in Nat
  BY CountForType
<1>5. /\ t.slots = [s.slots EXCEPT ![j] = b]
      /\ t.free \subseteq s.free
      /\ \/ t.disk = s.disk
         \/ t.disk = [s.disk EXCEPT ![b] = CellsFor(w, s, j)]
      /\ t.count = s.count \/ t.count = s.count + CountFor(w, j)
  <2>1. t.slots = [s.slots EXCEPT ![j] = b]
    BY PutSlots
  <2>2. t.free \subseteq s.free
    BY PutFree
  <2>3. \/ t.disk = s.disk
        \/ t.disk = [s.disk EXCEPT ![b] = CellsFor(w, s, j)]
    BY PutDisk
  <2>4. t.count = s.count \/ t.count = s.count + CountFor(w, j)
    BY PutCount
  <2>5. QED BY <2>1, <2>2, <2>3, <2>4
<1>6. t =
        [s EXCEPT !.slots = t.slots, !.free = t.free, !.disk = t.disk,
                  !.count = t.count]
  BY DEF PutBlock
<1> HIDE DEF t, b
<1>7. t.slots \in SlotMaps /\ t.free \subseteq Unreserved
  <2>1. t.slots \in [Slots -> Nat] /\ t.free \subseteq Unreserved
    BY <1>1, <1>2, <1>5
  <2>2. ASSUME NEW p \in Pointers PROVE t.slots[p] \in 0 .. BitmapBits
    <3>1. p \in Slots
      BY DEF Pointers, Slots
    <3>2. t.slots[p] = b \/ t.slots[p] = s.slots[p]
      BY <1>1, <1>5, <3>1
    <3>3. s.slots[p] \in 0 .. BitmapBits
      BY DEF States, SlotMaps
    <3>4. CASE p = j
      <4>1. b \in 0 .. BitmapBits
        <5>1. s.slots[j] \in 0 .. BitmapBits
          BY <3>4, <3>3
        <5>2. s.free \subseteq 0 .. BitmapBits - 1
          BY DEF States, Unreserved
        <5>3. Lowest(s.free) \in 0 .. BitmapBits
          BY <5>2, LowestIs
        <5>4. QED BY <5>1, <5>3 DEF b, BlockFor
      <4>2. QED BY <3>2, <3>3, <4>1
    <3>5. CASE p # j
      BY <1>1, <1>5, <3>1, <3>3, <3>5
    <3>6. QED BY <3>4, <3>5
  <2>3. QED BY <2>1, <2>2 DEF SlotMaps
<1>8. t.disk \in [Blocks -> [Cells -> Nat]]
  BY <1>1, <1>3, <1>5
<1>9. t.count \in Nat
  BY <1>1, <1>4, <1>5
<1>10. t \in States
  BY <1>6, <1>7, <1>8, <1>9 DEF States
<1>11. QED BY <1>10 DEF t

LEMMA LoopType ==
  ASSUME calls \in Nat, NEW w \in Writes, NEW s \in States, NEW first \in Nat
  PROVE  \A j \in -1 .. Direct + BlockSize - 1 : Loop(w, s, first)[j] \in States
<1> DEFINE n == Direct + BlockSize - 1
           S == {j \in -1 .. n : Loop(w, s, first)[j] \in States}
<1>1. n \in Int /\ -1 <= n /\ n \in Nat
  OBVIOUS
<1>2. \A j \in -1 .. n :
        Loop(w, s, first)[j] =
          IF j < first THEN s ELSE PutBlock(w, Loop(w, s, first)[j - 1], j)
  BY LoopIs
<1>3. -1 \in S
  <2>1. -1 \in -1 .. n /\ -1 < first
    BY <1>1
  <2>2. QED BY <1>2, <2>1
<1>4. ASSUME NEW j \in -1 .. n - 1, j \in S PROVE j + 1 \in S
  <2>1. j + 1 \in -1 .. n /\ (j + 1) - 1 = j
    BY <1>1
  <2>2. j + 1 \in Slots
    BY <1>1 DEF Slots
  <2>3. Loop(w, s, first)[j] \in States
    BY <1>4
  <2>4. PutBlock(w, Loop(w, s, first)[j], j + 1) \in States
    BY <2>2, <2>3, PutBlockType
  <2>5. Loop(w, s, first)[j + 1] =
          IF j + 1 < first THEN s ELSE PutBlock(w, Loop(w, s, first)[j], j + 1)
    BY <1>2, <2>1
  <2>6. QED BY <2>1, <2>4, <2>5
<1> HIDE DEF S, n
<1>5. -1 .. n \subseteq S
  BY <1>1, <1>3, <1>4, UpTo
<1>6. QED BY <1>5 DEF S, n

-----------------------------------------------------------------------------
(* A whole write.                                                          *)

InodeRecords == [used : {0, 1}, size : Nat,
                 data_ptrs : [Pointers -> 0 .. BitmapBits - 1],
                 indirectptr : 0 .. BitmapBits - 1]

LEMMA WriteOfType ==
  ASSUME NEW inode \in Inodes, table \in [Inodes -> InodeRecords],
         NEW pointer \in Nat, NEW length \in Nat
  PROVE  WriteOf(inode, pointer, length) \in Writes
<1> DEFINE w == WriteOf(inode, pointer, length)
<1>1. \A x \in Nat : x \div BlockSize \in Nat /\ x % BlockSize \in Nat
  BY BlockAndCell DEF Cells
<1>2. \A x \in Nat : x * BlockSize \in Nat
  OBVIOUS
<1>3. pointer + length \in Nat /\ (pointer % BlockSize) + length \in Nat
  <2>1. pointer % BlockSize \in Nat
    BY <1>1
  <2>2. QED BY <2>1
<1>4. w.last \in Nat
  <2>1. LastOfFirst(pointer, length) \in Nat
    BY <1>1, <1>3 DEF LastOfFirst
  <2>2. QED BY <1>1, <1>3, <2>1 DEF WriteOf
<1>5. w.isfirst \in BOOLEAN /\ w.pointer = pointer /\ w.length = length
  BY DEF WriteOf
<1>6. w.from \in Nat /\ w.first \in Nat
  BY <1>1 DEF WriteOf
<1>7. w.taken \in Nat
  <2>1. w.taken = IF w.isfirst
                    THEN (w.last * BlockSize) + (length % BlockSize)
                    ELSE length
    BY DEF WriteOf
  <2>2. w.last * BlockSize \in Nat /\ length % BlockSize \in Nat
    BY <1>1, <1>2, <1>4
  <2>3. QED BY <2>1, <2>2
<1>8. w = [isfirst |-> w.isfirst, pointer |-> w.pointer, length |-> w.length,
           from |-> w.from, taken |-> w.taken, first |-> w.first,
           last |-> w.last]
  BY DEF WriteOf
<1> HIDE DEF w
<1>9. w \in Writes
  BY <1>4, <1>5, <1>6, <1>7, <1>8 DEF Writes
<1>10. QED BY <1>9 DEF w

(* Inode 0 is in use and, when nothing is removed, no descriptor has it.   *)
Rooted == /\ table[0].used = 1 /\ savedtable[0].used = 1
          /\ \A k \in Inodes : fdt[k].inode # 0

(* What is in memory and on the disk: types, wherever the program is.      *)
Typed ==
  /\ Rooted
  /\ table \in [Inodes -> InodeRecords] /\ savedtable \in [Inodes -> InodeRecords]
  /\ root \in [Inodes -> [filename : Names \union {NoName},
                          inoteindex : 0 .. Free]]
  /\ \A i \in Listed : root[i].inoteindex \in Inodes
  /\ fdt \in [Inodes -> [inode : 0 .. Free, rwptr : Nat, wptr : Nat,
                         open : {0, 1}]]
  /\ free_bit_map \subseteq Unreserved /\ savedmap \subseteq Unreserved
  /\ disk \in [Blocks -> [Cells -> Nat]]
  /\ onstack \in [Slots -> Nat]
  /\ calls \in Nat

LEMMA NumbersType ==
  ASSUME NEW f, NEW a, \A p \in Pointers : f[p] \in Nat,
         \A c \in Cells : a[c] \in Nat
  PROVE  /\ Numbers(f, a) \in [Slots -> Nat]
         /\ \A p \in Pointers : Numbers(f, a)[p] = f[p]
<1>4. \A p \in Pointers : Numbers(f, a)[p] = f[p]
  BY DEF Numbers, Pointers, Slots
<1> SUFFICES ASSUME NEW j \in Slots
             PROVE  (IF j < Direct THEN f[j] ELSE a[j - Direct]) \in Nat
  BY <1>4 DEF Numbers
<1>1. j < Direct => j \in Pointers
  BY DEF Slots, Pointers
<1>2. ~(j < Direct) => j - Direct \in Cells
  BY DEF Slots, Cells
<1>3. QED BY <1>1, <1>2

LEMMA BeforeType ==
  ASSUME Typed, NEW inode \in Inodes
  PROVE  Before(inode) \in States
<1>1. table[inode] \in InodeRecords
  BY DEF Typed
<1>2. \A p \in Pointers : table[inode].data_ptrs[p] \in Nat
  BY <1>1 DEF InodeRecords
<1>3. \A c \in Cells : Zeros[c] \in Nat
  BY DEF Zeros
<1>4. Numbers(table[inode].data_ptrs, Zeros) \in SlotMaps
  <2>1. \A p \in Pointers : table[inode].data_ptrs[p] \in 0 .. BitmapBits
    BY <1>1 DEF InodeRecords
  <2>2. QED BY <1>2, <1>3, <2>1, NumbersType DEF SlotMaps
<1>5. table[inode].indirectptr \in 0 .. BitmapBits
  BY <1>1 DEF InodeRecords
<1>6. QED BY <1>4, <1>5 DEF Before, States, Typed

LEMMA UnsetType ==
  ASSUME Typed, NEW used, NEW unset \in OnStack(used)
  PROVE  unset \in [Slots -> Nat]
<1>1. onstack \in [Slots -> Nat] /\ Clean \in [Slots -> Nat]
  BY DEF Typed, Clean
<1>2. ASSUME NEW r \in Residue, r # Left
      PROVE  [c \in Slots |-> r] \in [Slots -> Nat]
  <2>1. r \in Nat
    BY <1>2, SfsAssumption
  <2>2. QED BY <2>1
<1>3. QED BY <1>1, <1>2 DEF OnStack

LEMMA ArrayOnType ==
  ASSUME NEW d \in [Blocks -> [Cells -> Nat]], NEW b \in Nat,
         NEW unset \in [Slots -> Nat]
  PROVE  \A c \in Cells : ArrayOn(d, b, unset)[c] \in Nat
<1>1. \A c \in Cells : c \in Slots
  BY DEF Cells, Slots
<1>2. b < NumBlocks => b \in Blocks
  BY DEF Blocks
<1>3. QED BY <1>1, <1>2 DEF ArrayOn

LEMMA OpenedType ==
  ASSUME NEW w \in Writes, NEW s \in States, NEW unset \in [Slots -> Nat]
  PROVE  Opened(w, s, unset) \in States
<1>1. ASSUME NEW u \in States, NEW a, \A c \in Cells : a[c] \in Nat
      PROVE  Numbers(u.slots, a) \in SlotMaps
  <2>1. \A p \in Pointers : u.slots[p] \in 0 .. BitmapBits
    BY DEF States, SlotMaps
  <2>2. \A p \in Pointers : u.slots[p] \in Nat
    BY <2>1
  <2>3. QED BY <1>1, <2>1, <2>2, NumbersType DEF SlotMaps
<1>2. ASSUME NEW u \in States
      PROVE  ArrayUnread(u, unset) \in States /\ ArrayRead(u, unset) \in States
  <2>1. \A c \in Cells : unset[c] \in Nat
    <3>1. \A c \in Cells : c \in Slots
      BY DEF Cells, Slots
    <3>2. QED BY <3>1
  <2>2. \A c \in Cells : ArrayOn(u.disk, u.indirect, unset)[c] \in Nat
    <3>1. u.disk \in [Blocks -> [Cells -> Nat]] /\ u.indirect \in Nat
      BY DEF States
    <3>2. QED BY <3>1, ArrayOnType
  <2>3. /\ Numbers(u.slots, unset) \in SlotMaps
        /\ Numbers(u.slots, ArrayOn(u.disk, u.indirect, unset)) \in SlotMaps
    BY <1>1, <2>1, <2>2
  <2>4. \A a \in SlotMaps, b \in BOOLEAN :
          [u EXCEPT !.slots = a, !.unread = b] \in States
    BY DEF States
  <2>5. (u.indirect >= NumBlocks) \in BOOLEAN
    OBVIOUS
  <2>6. QED BY <2>3, <2>4, <2>5 DEF ArrayRead, ArrayUnread
<1>3. NewIndirect(s) \in States
  <2>1. s.free \subseteq 0 .. BitmapBits - 1
    BY DEF States, SlotMaps, Unreserved
  <2>2. Lowest(s.free) \in 0 .. BitmapBits
    BY <2>1, LowestIs
  <2>3. QED BY <2>2 DEF NewIndirect, States, SlotMaps
<1>4. Opened(w, s, unset) \in {ArrayUnread(NewIndirect(s), unset),
                               ArrayRead(s, unset),
                               ArrayRead(NewIndirect(s), unset),
                               ArrayUnread(s, unset)}
  BY DEF Opened, Writes
<1>5. QED BY <1>2, <1>3, <1>4

LEMMA WrittenType ==
  ASSUME calls \in Nat, NEW w \in Writes, w.last \in Slots,
         NEW s \in States, NEW unset \in [Slots -> Nat]
  PROVE  Written(w, s, unset) \in States
<1> DEFINE m == Min({w.last, Direct - 1})
           direct == Loop(w, s, w.first)[m]
           opened == Opened(w, direct, unset)
<1>1. w.first \in Nat /\ w.last \in 0 .. Direct + BlockSize - 1
  BY DEF Writes, Slots
<1>2. m \in -1 .. Direct + BlockSize - 1
  <2>1. w.last \in Int /\ Direct - 1 \in Int
    BY <1>1
  <2>2. m = IF w.last <= Direct - 1 THEN w.last ELSE Direct - 1
    BY <2>1, MinOfTwo
  <2>3. QED BY <1>1, <2>2
<1>3. direct \in States
  BY <1>1, <1>2, LoopType
<1>4. opened \in States
  BY <1>3, OpenedType
<1>5. Max({w.first, Direct}) \in Nat
  <2>1. w.first \in Int /\ Direct \in Int
    BY <1>1
  <2>2. Max({w.first, Direct}) = IF w.first <= Direct THEN Direct ELSE w.first
    BY <2>1, MinOfTwo
  <2>3. QED BY <1>1, <2>2
<1>6. w.last \in -1 .. Direct + BlockSize - 1
  BY <1>1
<1>7. Loop(w, opened, Max({w.first, Direct}))[w.last] \in States
  BY <1>4, <1>5, <1>6, LoopType
<1>8. QED BY <1>3, <1>7 DEF Written

-----------------------------------------------------------------------------
(* The entries that sfs_fopen() fills.                                     *)

LEMMA RankExists ==
  ASSUME NEW S, S \subseteq Inodes, NEW r \in Nat, r < Cardinality(S)
  PROVE  \E j \in S : Rank(j, S) = r
<1> DEFINE Ranks == {n \in Nat : \E j \in S : Rank(j, S) = n}
           last  == Cardinality(S) - 1
<1>1. IsFiniteSet(S) /\ Cardinality(S) \in Nat
  <2>1. IsFiniteSet(Inodes)
    BY FS_Interval DEF Inodes
  <2>2. QED BY <2>1, FS_Subset, FS_CardinalityType
<1>2. last \in Int /\ 0 <= last
  BY <1>1
<1>3. 0 \in Ranks
  <2>1. S # {}
    <3>1. Cardinality(S) # 0
      BY <1>1
    <3>2. QED BY <1>1, <3>1, FS_EmptySet
  <2>2. Min(S) \in S /\ Rank(Min(S), S) = 0
    BY <2>1, MinIsFirst, RankOfFirst
  <2>3. QED BY <2>2
<1>4. ASSUME NEW n \in 0 .. last - 1, n \in Ranks PROVE n + 1 \in Ranks
  <2>1. PICK j \in S : Rank(j, S) = n
    BY <1>4
  <2> DEFINE L == {x \in S : x < j}
             G == {x \in S : j < x}
  <2>2. /\ IsFiniteSet(L) /\ Cardinality(L) = n /\ j \notin L
        /\ IsFiniteSet(L \union {j}) /\ Cardinality(L \union {j}) = n + 1
    <3>1. j \in Int
      BY DEF Inodes
    <3>2. IsFiniteSet(L) /\ Cardinality(L) = n /\ j \notin L
      BY <1>1, <2>1, <3>1, FS_Subset DEF Rank
    <3>3. QED BY <3>2, FS_AddElement
  <2>3. G # {}
    <3>1. SUFFICES ASSUME G = {} PROVE FALSE
      OBVIOUS
    <3>2. \A x \in S : x \in Int
      BY DEF Inodes
    <3>3. S = L \union {j}
      BY <3>1, <3>2
    <3>4. Cardinality(S) = n + 1
      BY <2>2, <3>3
    <3>5. QED BY <1>1, <3>4
  <2>4. Min(G) \in G /\ \A x \in G : Min(G) <= x
    <3>1. G \subseteq Inodes
      OBVIOUS
    <3> HIDE DEF G
    <3>2. QED BY <2>3, <3>1, MinIsFirst
  <2>5. {x \in S : x < Min(G)} = L \union {j}
    <3>1. \A x \in S : x \in Int
      BY DEF Inodes
    <3>2. Min(G) \in Int /\ j < Min(G)
      BY <2>4, <3>1
    <3>3. ASSUME NEW x \in S PROVE x < Min(G) <=> x < j \/ x = j
      <4>1. j < x => Min(G) <= x
        BY <2>4
      <4> HIDE DEF G
      <4>2. QED BY <3>1, <3>2, <4>1
    <3> HIDE DEF G
    <3>4. QED BY <3>3
  <2>6. Rank(Min(G), S) = n + 1
    BY <2>2, <2>5 DEF Rank
  <2>7. n + 1 \in Nat
    OBVIOUS
  <2>8. QED BY <2>4, <2>6, <2>7
<1> HIDE DEF Ranks, last
<1>5. 0 .. last \subseteq Ranks
  BY <1>2, <1>3, <1>4, UpTo
<1>6. r \in 0 .. last
  BY <1>1 DEF last
<1>7. QED BY <1>5, <1>6 DEF Ranks

LEMMA CreatedInodes ==
  ASSUME NEW name
  PROVE  /\ DOMAIN Created(name) \subseteq Inodes \/ Entries(NoName) = {}
         /\ \A i \in DOMAIN Created(name) : /\ Created(name)[i] \in Inodes
                                            /\ Created(name)[i] \in Unused
<1> DEFINE empty == Entries(NoName)
           tries == IF Descriptors(Free) = {} THEN empty ELSE {Min(empty)}
           inode == [i \in tries |->
                       IF Rank(i, empty) < Cardinality(Unused)
                         THEN CHOOSE j \in Unused :
                                Rank(j, Unused) = Rank(i, empty)
                         ELSE NumInodes]
           has   == {i \in tries : inode[i] < NumInodes}
<1>1. Created(name) = [i \in has |-> inode[i]]
  BY DEF Created, Restrict
<1>2. empty \subseteq Inodes /\ Unused \subseteq Inodes
  BY DEF Entries, Unused
<1>3. empty # {} => tries \subseteq Inodes
  BY <1>2, MinIsFirst
<1>4. ASSUME NEW i \in has PROVE inode[i] \in Inodes /\ inode[i] \in Unused
  <2>1. Rank(i, empty) \in Nat
    <3>1. {x \in empty : x < i} \subseteq empty
      OBVIOUS
    <3>2. QED BY <3>1, SetsAreFinite, FS_Subset, FS_CardinalityType DEF Rank
  <2>2. inode[i] # NumInodes
    <3>1. ~(NumInodes < NumInodes)
      OBVIOUS
    <3>2. QED BY <3>1, Zenon
  <2>3. Rank(i, empty) < Cardinality(Unused)
    BY <2>2
  <2>4. \E j \in Unused : Rank(j, Unused) = Rank(i, empty)
    BY <1>2, <2>1, <2>3, RankExists
  <2>5. inode[i] \in Unused
    BY <2>3, <2>4
  <2>6. QED BY <1>2, <2>5
<1> HIDE DEF inode, tries
<1>5. QED BY <1>1, <1>3, <1>4

-----------------------------------------------------------------------------
(* Types.                                                                  *)

LEMMA FormattedType == Formatted \in [Inodes -> InodeRecords]
<1>1. 0 \in Pointers /\ 3 \in 0 .. BitmapBits - 1 /\ 0 \in 0 .. BitmapBits - 1
  BY DEF Pointers
<1>2. NoInode \in InodeRecords
  BY <1>1 DEF NoInode, InodeRecords
<1>3. [NoInode EXCEPT !.used = 1, !.data_ptrs[0] = 3] \in InodeRecords
  BY <1>1 DEF NoInode, InodeRecords
<1>4. QED BY <1>2, <1>3 DEF Formatted

LEMMA FreshTypes ==
  /\ [i \in Inodes |-> NoFile] \in
       [Inodes -> [filename : Names \union {NoName}, inoteindex : 0 .. Free]]
  /\ NoDescriptor \in [inode : 0 .. Free, rwptr : Nat, wptr : Nat,
                       open : {0, 1}]
  /\ (0 .. BitmapBits - 1) \ Reserved \subseteq Unreserved
  /\ [b \in Blocks |-> IF b = 0 THEN Superblock ELSE Zeros]
       \in [Blocks -> [Cells -> Nat]]
<1>1. Superblock \in [Cells -> Nat] /\ Zeros \in [Cells -> Nat]
  BY DEF Superblock, Zeros, Magic
<1>2. NoFile \in [filename : Names \union {NoName}, inoteindex : 0 .. Free]
  BY DEF NoFile, Free
<1>3. (0 .. BitmapBits - 1) \ Reserved \subseteq Unreserved
  BY DEF Reserved, Unreserved
<1>4. NoDescriptor \in [inode : 0 .. Free, rwptr : Nat, wptr : Nat,
                        open : {0, 1}]
  BY DEF NoDescriptor, Free
<1>5. QED BY <1>1, <1>2, <1>3, <1>4

LEMMA TypedInit == Init => Typed
<1> SUFFICES ASSUME Init PROVE Typed
  OBVIOUS
<1>1. table \in [Inodes -> InodeRecords] /\ savedtable \in [Inodes -> InodeRecords]
  BY FormattedType DEF Init
<1>2. /\ root \in [Inodes -> [filename : Names \union {NoName},
                              inoteindex : 0 .. Free]]
      /\ Listed = {}
  BY FreshTypes DEF Init, Listed, NoFile
<1>3. fdt \in [Inodes -> [inode : 0 .. Free, rwptr : Nat, wptr : Nat,
                          open : {0, 1}]]
  BY FreshTypes DEF Init
<1>4. /\ free_bit_map \subseteq Unreserved /\ savedmap \subseteq Unreserved
      /\ disk \in [Blocks -> [Cells -> Nat]]
  BY FreshTypes DEF Init
<1>5. onstack \in [Slots -> Nat] /\ calls \in Nat
  BY DEF Init, Clean
<1>6. Rooted
  BY DEF Init, Rooted, Formatted, NoInode, NoDescriptor, Inodes, Free
<1>7. QED BY <1>1, <1>2, <1>3, <1>4, <1>5, <1>6 DEF Typed

(* The variables that Typed and SavedFiles are about.                      *)
typedvars == <<table, root, fdt, free_bit_map, disk, savedtable, savedmap,
               savedroot, onstack>>

LEMMA TypedSame ==
  ASSUME Typed, UNCHANGED typedvars, calls' \in Nat PROVE Typed'
BY DEF Typed, Rooted, typedvars, Listed

LEMMA RootedSame ==
  ASSUME Rooted, \A k \in Inodes : fdt'[k].inode = fdt[k].inode,
         table'[0].used = table[0].used,
         savedtable' = savedtable \/ savedtable' = table'
  PROVE  Rooted'
BY DEF Rooted

LEMMA CallCounts == ASSUME Typed, Call PROVE calls' \in Nat
BY DEF Typed, Call

LEMMA TypedFormat == ASSUME Typed, Format PROVE Typed'
<1>1. table' \in [Inodes -> InodeRecords]
  <2>1. ASSUME NEW i \in Inodes
        PROVE  [Formatted[i] EXCEPT !.size = table[i].size] \in InodeRecords
    <3>1. table[i].size \in Nat
      BY DEF Typed, InodeRecords
    <3>2. Formatted[i] \in InodeRecords
      BY FormattedType
    <3>3. QED BY <3>1, <3>2 DEF InodeRecords
  <2>2. QED BY <2>1 DEF Format
<1>2. savedtable' \in [Inodes -> InodeRecords]
  BY <1>1 DEF Format
<1>3. /\ root' \in [Inodes -> [filename : Names \union {NoName},
                               inoteindex : 0 .. Free]]
      /\ Listed' = {}
  BY FreshTypes DEF Format, Listed, NoFile
<1>4. fdt' \in [Inodes -> [inode : 0 .. Free, rwptr : Nat, wptr : Nat,
                           open : {0, 1}]]
  BY FreshTypes DEF Format
<1>5. /\ free_bit_map' \subseteq Unreserved /\ savedmap' \subseteq Unreserved
      /\ disk' \in [Blocks -> [Cells -> Nat]]
  BY FreshTypes DEF Format
<1>6. onstack' \in [Slots -> Nat] /\ calls' \in Nat
  BY CallCounts DEF Format, Typed
<1>7. Rooted'
  <2>1. 0 \in Inodes /\ table'[0] = [Formatted[0] EXCEPT !.size = table[0].size]
    BY DEF Format, Inodes
  <2>2. Formatted[0].used = 1 /\ Formatted[0] \in InodeRecords
    BY <2>1, FormattedType DEF Formatted, NoInode
  <2>3. table'[0].used = 1
    BY <2>1, <2>2 DEF InodeRecords
  <2>4. QED BY <2>3 DEF Rooted, Format, NoDescriptor, Free
<1>8. QED BY <1>1, <1>2, <1>3, <1>4, <1>5, <1>6, <1>7 DEF Typed

(* The first entry with a name that has a descriptor is one in use.        *)
LEMMA TypedFopenExisting ==
  ASSUME Typed, NEW name \in Names, FopenExisting(name) PROVE Typed'
<1> DEFINE found == {i \in Entries(name) : Descriptors(root[i].inoteindex) # {}}
           j == root[Min(found)].inoteindex
           k == Min(Descriptors(j))
<1>1. \/ fdt' = fdt
      \/ /\ found # {}
         /\ fdt' = [fdt EXCEPT ![k].open = 1, ![k].rwptr = 0,
                               ![k].wptr = table[j].size]
  BY DEF FopenExisting
<1>2. fdt' \in [Inodes -> [inode : 0 .. Free, rwptr : Nat, wptr : Nat,
                           open : {0, 1}]]
  <2>1. CASE fdt' = fdt
    BY <2>1 DEF Typed
  <2>2. CASE /\ found # {}
             /\ fdt' = [fdt EXCEPT ![k].open = 1, ![k].rwptr = 0,
                                   ![k].wptr = table[j].size]
    <3>1. Min(found) \in found
      <4>1. found \subseteq Inodes
        BY DEF Entries
      <4> HIDE DEF found
      <4>2. QED BY <2>2, <4>1, MinIsFirst
    <3>2. Min(found) \in Listed /\ Descriptors(j) # {}
      <4>1. name # NoName
        BY SfsAssumption
      <4>2. QED BY <3>1, <4>1 DEF Entries, Listed
    <3>3. j \in Inodes
      BY <3>2 DEF Typed
    <3>4. table[j].size \in Nat
      BY <3>3 DEF Typed, InodeRecords
    <3> HIDE DEF j, k
    <3>5. QED BY <2>2, <3>4 DEF Typed
  <2>3. QED BY <1>1, <2>1, <2>2
<1>3. /\ UNCHANGED <<table, root, free_bit_map, disk, savedtable, savedmap,
                     savedroot, onstack>>
      /\ calls' \in Nat
  BY CallCounts DEF FopenExisting, ondisk
<1>4. Rooted'
  <2>1. fdt \in [Inodes -> [inode : 0 .. Free, rwptr : Nat, wptr : Nat,
                            open : {0, 1}]]
    BY DEF Typed
  <2> HIDE DEF found, k, j
  <2>2. \A l \in Inodes : fdt'[l].inode = fdt[l].inode
    BY <1>1, <2>1
  <2>3. QED BY <1>3, <2>2, RootedSame DEF Typed
<1>5. QED BY <1>2, <1>3, <1>4 DEF Typed, Listed

LEMMA TypedFopenNew ==
  ASSUME Typed, NEW name \in Names, FopenNew(name) PROVE Typed'
<1> DEFINE created == Created(name)
<1>1. /\ DOMAIN created \subseteq Inodes
      /\ \A i \in DOMAIN created : created[i] \in Inodes /\ created[i] # 0
  <2>1. 0 \notin Unused
    BY DEF Unused, Typed, Rooted
  <2>2. QED BY <2>1, CreatedInodes DEF FopenNew
<1>2. table' \in [Inodes -> InodeRecords]
  <2>1. table' = [i \in Inodes |->
                    IF i \in Range(created)
                      THEN [table[i] EXCEPT !.used = 1, !.size = 0]
                      ELSE table[i]]
    BY DEF FopenNew
  <2>2. ASSUME NEW i \in Inodes
        PROVE  [table[i] EXCEPT !.used = 1, !.size = 0] \in InodeRecords
    <3>1. table[i] \in InodeRecords
      BY DEF Typed
    <3>2. QED BY <3>1 DEF InodeRecords
  <2>3. \A i \in Inodes : table[i] \in InodeRecords
    BY DEF Typed
  <2> HIDE DEF created
  <2>4. QED BY <2>1, <2>2, <2>3
<1>3. root' = [i \in Inodes |->
                 IF i \in DOMAIN created
                   THEN [filename |-> name, inoteindex |-> created[i]]
                   ELSE root[i]]
  BY DEF FopenNew
<1>4. /\ root' \in [Inodes -> [filename : Names \union {NoName},
                               inoteindex : 0 .. Free]]
      /\ \A i \in Listed' : root'[i].inoteindex \in Inodes
  <2> HIDE DEF created
  <2>1. \A i \in Inodes : i \in 0 .. Free
    BY DEF Inodes, Free
  <2>2. root' \in [Inodes -> [filename : Names \union {NoName},
                              inoteindex : 0 .. Free]]
    BY <1>1, <1>3, <2>1 DEF Typed
  <2>3. ASSUME NEW i \in Listed' PROVE root'[i].inoteindex \in Inodes
    <3>1. i \in Inodes /\ root'[i].filename # NoName
      BY DEF Listed
    <3>2. i \notin DOMAIN created => i \in Listed /\ root'[i] = root[i]
      BY <1>3, <3>1 DEF Listed
    <3>3. i \in DOMAIN created => root'[i].inoteindex = created[i]
      BY <1>3, <3>1
    <3>4. QED BY <1>1, <3>2, <3>3 DEF Typed
  <2>4. QED BY <2>2, <2>3
<1>5. /\ fdt' \in [Inodes -> [inode : 0 .. Free, rwptr : Nat, wptr : Nat,
                              open : {0, 1}]]
      /\ \A k \in Inodes : fdt'[k].inode # 0
  <2> DEFINE new == IF created = Empty THEN NumInodes
                    ELSE created[Min(DOMAIN created)]
  <2>1. \/ fdt' = fdt
        \/ fdt' = [fdt EXCEPT ![Min(Descriptors(Free))] =
                     [inode |-> new, rwptr |-> 0, wptr |-> 0, open |-> 1]]
    BY DEF FopenNew
  <2>2. new \in 0 .. Free /\ new # 0
    <3>1. \A i \in Inodes : i \in 0 .. Free
      BY DEF Inodes, Free
    <3>2. NumInodes \in 0 .. Free
      BY DEF Free
    <3>3. ASSUME created # Empty
          PROVE  Min(DOMAIN created) \in DOMAIN created
      <4>1. DOMAIN created # {}
        BY <3>3 DEF Empty, Created, Restrict
      <4> HIDE DEF created
      <4>2. QED BY <1>1, <4>1, MinIsFirst
    <3>4. QED BY <1>1, <3>1, <3>2, <3>3
  <2>3. /\ fdt \in [Inodes -> [inode : 0 .. Free, rwptr : Nat, wptr : Nat,
                               open : {0, 1}]]
        /\ \A k \in Inodes : fdt[k].inode # 0
    BY DEF Typed, Rooted
  <2> HIDE DEF new
  <2>4. QED BY <2>1, <2>2, <2>3
<1>6. /\ UNCHANGED <<free_bit_map, disk, savedtable, savedmap, onstack>>
      /\ calls' \in Nat
  BY CallCounts DEF FopenNew
<1>7. Rooted'
  <2>1. 0 \in Inodes /\ 0 \notin Range(created)
    BY <1>1 DEF Range, Inodes
  <2>2. table' = [j \in Inodes |->
                    IF j \in Range(created)
                      THEN [table[j] EXCEPT !.used = 1, !.size = 0]
                      ELSE table[j]]
    BY DEF FopenNew
  <2> HIDE DEF created
  <2>3. table'[0] = table[0]
    BY <2>1, <2>2
  <2>4. QED BY <1>5, <1>6, <2>3 DEF Typed, Rooted
<1>8. QED BY <1>2, <1>4, <1>5, <1>6, <1>7 DEF Typed

LEMMA ArrayOfType ==
  ASSUME NEW slots, \A j \in Slots : slots[j] \in Nat
  PROVE  ArrayOf(slots) \in [Slots -> Nat]
<1>1. \A c \in Cells : Direct + c \in Slots
  BY DEF Cells, Slots
<1>2. QED BY <1>1 DEF ArrayOf

LEMMA HasInodeType ==
  ASSUME Typed, NEW k \in Inodes, HasInode(k)
  PROVE  /\ fdt[k].inode \in Inodes /\ fdt[k].inode # 0
         /\ fdt[k].wptr \in Nat /\ fdt[k].rwptr \in Nat
<1>1. fdt[k] \in [inode : 0 .. Free, rwptr : Nat, wptr : Nat, open : {0, 1}]
  BY DEF Typed
<1>2. fdt[k].inode \in 0 .. Free /\ fdt[k].inode < NumInodes
  BY <1>1 DEF HasInode
<1>3. fdt[k].inode # 0
  BY DEF Typed, Rooted
<1>4. QED BY <1>1, <1>2, <1>3 DEF Inodes, Free

LEMMA TypedFread ==
  ASSUME Typed, NEW k \in Inodes, NEW length \in Lengths, Fread(k, length)
  PROVE  Typed'
<1> DEFINE inode == fdt[k].inode
           file  == table[inode]
           from  == fdt[k].rwptr
           read  == IF from + length > file.size THEN file.size - from ELSE length
           behind == (from + read) \div BlockSize >= Direct
           slots(unset) == Numbers(file.data_ptrs,
                                   ArrayOn(disk, file.indirectptr, unset))
<1>1. inode \in Inodes /\ from \in Nat
  BY HasInodeType DEF Fread
<1>2. file \in InodeRecords /\ from \in Nat /\ length \in Nat
  BY <1>1, SfsAssumption DEF Typed
<1>3. read \in Int
  BY <1>2 DEF InodeRecords
<1>4. CASE UNCHANGED <<memory, ondisk, onstack>>
  <2>1. UNCHANGED typedvars
    BY <1>4 DEF typedvars, memory, ondisk
  <2>2. calls' \in Nat
    BY CallCounts DEF Fread
  <2>3. QED BY <2>1, <2>2, TypedSame
<1>5. CASE /\ ~(read < 0)
           /\ \E unset \in OnStack(behind) :
                /\ fdt' = [fdt EXCEPT ![k].rwptr = from + read]
                /\ onstack' = IF behind THEN ArrayOf(slots(unset)) ELSE onstack
           /\ UNCHANGED <<table, root, free_bit_map, ondisk>>
  <2>1. PICK unset \in OnStack(behind) :
          /\ fdt' = [fdt EXCEPT ![k].rwptr = from + read]
          /\ onstack' = IF behind THEN ArrayOf(slots(unset)) ELSE onstack
    BY <1>5
  <2>2. from + read \in Nat
    BY <1>2, <1>3, <1>5
  <2>3. slots(unset) \in [Slots -> Nat]
    <3>1. unset \in [Slots -> Nat]
      BY UnsetType
    <3>2. /\ disk \in [Blocks -> [Cells -> Nat]]
          /\ file.indirectptr \in Nat
          /\ \A p \in Pointers : file.data_ptrs[p] \in Nat
      BY <1>2 DEF Typed, InodeRecords
    <3> HIDE DEF file
    <3>3. \A c \in Cells : ArrayOn(disk, file.indirectptr, unset)[c] \in Nat
      BY <3>1, <3>2, ArrayOnType
    <3>4. QED BY <3>2, <3>3, NumbersType
  <2>4. onstack' \in [Slots -> Nat]
    <3>1. onstack \in [Slots -> Nat]
      BY DEF Typed
    <3> HIDE DEF slots, behind
    <3>2. ArrayOf(slots(unset)) \in [Slots -> Nat]
      BY <2>3, ArrayOfType
    <3>3. QED BY <2>1, <3>1, <3>2
  <2> HIDE DEF from, read, slots, behind
  <2>5. /\ fdt' \in [Inodes -> [inode : 0 .. Free, rwptr : Nat, wptr : Nat,
                                open : {0, 1}]]
        /\ \A l \in Inodes : fdt'[l].inode = fdt[l].inode
    BY <2>1, <2>2 DEF Typed
  <2>6. calls' \in Nat
    BY CallCounts DEF Fread
  <2>7. Rooted'
    BY <1>5, <2>5, RootedSame DEF Typed, ondisk
  <2>8. QED BY <1>5, <2>4, <2>5, <2>6, <2>7 DEF Typed, Listed, ondisk
<1>6. \/ UNCHANGED <<memory, ondisk, onstack>>
      \/ /\ ~(read < 0)
         /\ \E unset \in OnStack(behind) :
              /\ fdt' = [fdt EXCEPT ![k].rwptr = from + read]
              /\ onstack' = IF behind THEN ArrayOf(slots(unset)) ELSE onstack
         /\ UNCHANGED <<table, root, free_bit_map, ondisk>>
  BY DEF Fread, GiveUp
<1>7. QED BY <1>4, <1>5, <1>6

(* The sizes and pointers that a write leaves.                             *)
LEMMA StoredType ==
  ASSUME Typed, NEW k \in Inodes, HasInode(k), NEW s \in States,
         NEW w \in Writes, w.last \in Slots,
         BitmapBits \notin Range(s.slots) \union {s.indirect},
         StoreWrite(k, w, s)
  PROVE  /\ table' \in [Inodes -> InodeRecords]
         /\ savedtable' \in [Inodes -> InodeRecords]
         /\ fdt' \in [Inodes -> [inode : 0 .. Free, rwptr : Nat, wptr : Nat,
                                 open : {0, 1}]]
         /\ disk' \in [Blocks -> [Cells -> Nat]]
         /\ onstack' \in [Slots -> Nat]
<1> DEFINE inode    == fdt[k].inode
           pointer  == fdt[k].wptr
           size     == table[inode].size
           newsize  == IF w.isfirst THEN size + s.count
                                    ELSE Max({size, pointer + w.length})
<1>1. inode \in Inodes /\ pointer \in Nat
  BY HasInodeType
<1>2. size \in Nat /\ s.count \in Nat /\ w.length \in Nat
  BY <1>1 DEF Typed, InodeRecords, States, Writes
<1>3. newsize \in Nat
  <2>1. /\ size \in Int /\ pointer + w.length \in Int
        /\ pointer + w.length \in Nat
    BY <1>1, <1>2
  <2>2. Max({size, pointer + w.length}) =
          IF size <= pointer + w.length THEN pointer + w.length ELSE size
    BY <2>1, MinOfTwo
  <2>3. QED BY <1>2, <2>1, <2>2
<1>4. [p \in Pointers |-> s.slots[p]] \in [Pointers -> 0 .. BitmapBits - 1]
  <2>1. ASSUME NEW p \in Pointers PROVE s.slots[p] \in 0 .. BitmapBits - 1
    <3>1. s.slots[p] \in 0 .. BitmapBits
      BY DEF States, SlotMaps
    <3>2. p \in DOMAIN s.slots
      BY DEF States, SlotMaps, Pointers, Slots
    <3>3. s.slots[p] # BitmapBits
      BY <3>2 DEF Range
    <3>4. QED BY <3>1, <3>3
  <2>2. QED BY <2>1
<1>5. s.indirect \in 0 .. BitmapBits - 1
  <2>1. s.indirect \in 0 .. BitmapBits /\ s.indirect # BitmapBits
    BY DEF States
  <2>2. QED BY <2>1
<1>6. table' = [table EXCEPT
                  ![inode].data_ptrs = [p \in Pointers |-> s.slots[p]],
                  ![inode].indirectptr = s.indirect,
                  ![inode].size = newsize]
  BY DEF StoreWrite
<1>7. table' \in [Inodes -> InodeRecords]
  <2> HIDE DEF inode, newsize
  <2>1. table \in [Inodes -> InodeRecords]
    BY DEF Typed
  <2>2. [table[inode] EXCEPT !.data_ptrs = [p \in Pointers |-> s.slots[p]],
                             !.indirectptr = s.indirect, !.size = newsize]
          \in InodeRecords
    BY <1>1, <1>3, <1>4, <1>5, <2>1 DEF InodeRecords
  <2>3. table' = [table EXCEPT ![inode] =
          [table[inode] EXCEPT !.data_ptrs = [p \in Pointers |-> s.slots[p]],
                               !.indirectptr = s.indirect, !.size = newsize]]
    BY <1>1, <1>6, <2>1
  <2>4. QED BY <2>1, <2>2, <2>3
<1>8. savedtable' \in [Inodes -> InodeRecords]
  <2>1. savedtable' = table' \/ savedtable' = savedtable
    BY DEF StoreWrite
  <2>2. QED BY <1>7, <2>1 DEF Typed
<1>9. fdt' \in [Inodes -> [inode : 0 .. Free, rwptr : Nat, wptr : Nat,
                           open : {0, 1}]]
  <2>1. fdt' = [fdt EXCEPT ![k].wptr = pointer + s.count]
    BY DEF StoreWrite
  <2>2. pointer + s.count \in Nat
    BY <1>1, <1>2
  <2> HIDE DEF pointer
  <2>3. QED BY <2>1, <2>2 DEF Typed
<1>10. \A j \in Slots : s.slots[j] \in Nat
  BY DEF States, SlotMaps
<1>11. ArrayOf(s.slots) \in [Slots -> Nat]
  BY <1>10, ArrayOfType
<1>12. disk' \in [Blocks -> [Cells -> Nat]]
  <2>1. s.disk \in [Blocks -> [Cells -> Nat]]
    BY DEF States
  <2>2. Restrict(ArrayOf(s.slots), Cells) \in [Cells -> Nat]
    <3>1. \A c \in Cells : c \in Slots
      BY DEF Cells, Slots
    <3>2. QED BY <1>11, <3>1 DEF Restrict
  <2>3. StoredArray(s) \in [Blocks -> [Cells -> Nat]]
    BY <2>1, <2>2 DEF StoredArray
  <2>4. disk' = StoredArray(s) \/ disk' = s.disk
    BY DEF StoreWrite
  <2>5. QED BY <2>1, <2>3, <2>4
<1>13. onstack' \in [Slots -> Nat]
  <2>1. onstack' = ArrayOf(s.slots) \/ onstack' = onstack
    BY DEF StoreWrite
  <2>2. QED BY <1>11, <2>1 DEF Typed
<1>14. QED BY <1>7, <1>8, <1>9, <1>12, <1>13

(* A write goes through with the result of its rounds, or is not followed. *)
LEMMA FwriteIs ==
  ASSUME Typed, NEW k \in Inodes, NEW length \in Lengths, Fwrite(k, length)
  PROVE  LET inode == fdt[k].inode
             w     == WriteOf(inode, fdt[k].wptr, length)
         IN /\ inode \in Inodes /\ HasInode(k) /\ w \in Writes
            /\ fdt[k].wptr \in Nat /\ length \in Nat
            /\ \/ GiveUp
               \/ /\ w.last \in Slots
                  /\ \E unset \in OnStack(w.last >= Direct) :
                       LET s == Written(w, Before(inode), unset)
                       IN /\ unset \in [Slots -> Nat]
                          /\ s \in States
                          /\ BitmapBits \notin Range(s.slots) \union {s.indirect}
                          /\ StoreWrite(k, w, s)
                          /\ stray' = (\/ stray
                                       \/ s.unread /\ ~(w.isfirst /\ unset = Clean))
<1> DEFINE inode == fdt[k].inode
           w     == WriteOf(inode, fdt[k].wptr, length)
<1>1. inode \in Inodes /\ fdt[k].wptr \in Nat /\ length \in Nat
  BY SfsAssumption, HasInodeType DEF Fwrite
<1>2. w \in Writes
  <2>1. table \in [Inodes -> InodeRecords]
    BY DEF Typed
  <2>2. QED BY <1>1, <2>1, WriteOfType
<1>3. HasInode(k)
  BY DEF Fwrite
<1>4. \/ GiveUp
      \/ /\ w.last \in Slots
         /\ \E unset \in OnStack(w.last >= Direct) :
              LET s == Written(w, Before(inode), unset)
              IN /\ BitmapBits \notin Range(s.slots) \union {s.indirect}
                 /\ StoreWrite(k, w, s)
                 /\ stray' = (\/ stray
                              \/ s.unread /\ ~(w.isfirst /\ unset = Clean))
  BY DEF Fwrite
<1>5. ASSUME w.last \in Slots, NEW unset \in OnStack(w.last >= Direct)
      PROVE  unset \in [Slots -> Nat] /\ Written(w, Before(inode), unset) \in States
  <2>1. unset \in [Slots -> Nat]
    BY UnsetType
  <2>2. Before(inode) \in States
    BY <1>1, BeforeType
  <2>3. calls \in Nat
    BY DEF Typed
  <2> HIDE DEF w, inode
  <2>4. QED BY <1>2, <1>5, <2>1, <2>2, <2>3, WrittenType
<1> HIDE DEF w, inode
<1>6. QED BY <1>1, <1>2, <1>3, <1>4, <1>5 DEF w, inode

LEMMA StoredRooted ==
  ASSUME Typed, NEW k \in Inodes, NEW w, NEW s, StoreWrite(k, w, s)
  PROVE  Rooted'
<1>1. PICK ptrs, indirect, size, to :
        /\ table' = [table EXCEPT ![fdt[k].inode].data_ptrs = ptrs,
                                  ![fdt[k].inode].indirectptr = indirect,
                                  ![fdt[k].inode].size = size]
        /\ fdt' = [fdt EXCEPT ![k].wptr = to]
        /\ savedtable' = savedtable \/ savedtable' = table'
  BY DEF StoreWrite
<1>2. /\ table \in [Inodes -> InodeRecords] /\ 0 \in Inodes
      /\ fdt \in [Inodes -> [inode : 0 .. Free, rwptr : Nat, wptr : Nat,
                             open : {0, 1}]]
  BY DEF Typed, Inodes
<1>3. table'[0].used = table[0].used
  BY <1>1, <1>2 DEF InodeRecords
<1>4. \A l \in Inodes : fdt'[l].inode = fdt[l].inode
  BY <1>1, <1>2
<1>5. QED BY <1>1, <1>3, <1>4, RootedSame DEF Typed

LEMMA TypedFwrite ==
  ASSUME Typed, NEW k \in Inodes, NEW length \in Lengths, Fwrite(k, length)
  PROVE  Typed'
<1> DEFINE w == WriteOf(fdt[k].inode, fdt[k].wptr, length)
<1>1. calls' \in Nat
  BY CallCounts DEF Fwrite
<1>2. CASE GiveUp
  <2>1. UNCHANGED typedvars
    BY <1>2 DEF GiveUp, typedvars, memory, ondisk
  <2>2. QED BY <1>1, <2>1, TypedSame
<1>3. CASE \E s \in States : /\ w.last \in Slots
                             /\ BitmapBits \notin Range(s.slots) \union {s.indirect}
                             /\ StoreWrite(k, w, s)
  <2>1. PICK s \in States : /\ w.last \in Slots
                            /\ BitmapBits \notin Range(s.slots) \union {s.indirect}
                            /\ StoreWrite(k, w, s)
    BY <1>3
  <2>2. HasInode(k) /\ w \in Writes
    BY FwriteIs
  <2> HIDE DEF w
  <2>3. /\ table' \in [Inodes -> InodeRecords]
        /\ savedtable' \in [Inodes -> InodeRecords]
        /\ fdt' \in [Inodes -> [inode : 0 .. Free, rwptr : Nat, wptr : Nat,
                                open : {0, 1}]]
        /\ disk' \in [Blocks -> [Cells -> Nat]]
        /\ onstack' \in [Slots -> Nat]
    BY <2>1, <2>2, StoredType
  <2>4. free_bit_map' = s.free /\ root' = root
    BY <2>1 DEF StoreWrite
  <2>5. savedmap' = savedmap \/ savedmap' = free_bit_map'
    BY <2>1 DEF StoreWrite
  <2>6. free_bit_map' \subseteq Unreserved /\ savedmap' \subseteq Unreserved
    BY <2>4, <2>5 DEF States, Typed
  <2>7. Rooted'
    BY <2>1, StoredRooted
  <2>8. QED BY <1>1, <2>3, <2>4, <2>6, <2>7 DEF Typed, Listed
<1>4. \/ GiveUp
      \/ \E s \in States : /\ w.last \in Slots
                           /\ BitmapBits \notin Range(s.slots) \union {s.indirect}
                           /\ StoreWrite(k, w, s)
  BY FwriteIs
<1>5. QED BY <1>2, <1>3, <1>4

LEMMA TypedStep == Typed /\ SavedFiles /\ [ReopenNext]_vars => Typed'
<1> SUFFICES ASSUME Typed, SavedFiles, [ReopenNext]_vars PROVE Typed'
  OBVIOUS
<1>1. CASE UNCHANGED vars
  <2>1. UNCHANGED typedvars /\ calls' = calls
    BY <1>1 DEF vars, memory, ondisk, typedvars
  <2>2. QED BY <2>1, TypedSame DEF Typed
<1>2. ASSUME NEW name \in Names, FopenExisting(name) PROVE Typed'
  BY <1>2, TypedFopenExisting
<1>3. ASSUME NEW name \in Names, FopenNew(name) PROVE Typed'
  BY <1>3, TypedFopenNew
<1>4. ASSUME NEW k \in Inodes, Fclose(k) PROVE Typed'
  <2>1. /\ fdt' \in [Inodes -> [inode : 0 .. Free, rwptr : Nat, wptr : Nat,
                                open : {0, 1}]]
        /\ \A l \in Inodes : fdt'[l].inode = fdt[l].inode
    BY <1>4 DEF Fclose, Typed
  <2>2. calls' \in Nat
    BY <1>4, CallCounts DEF Fclose
  <2>3. Rooted'
    BY <1>4, <2>1, RootedSame DEF Fclose, Typed, ondisk
  <2>4. QED BY <1>4, <2>1, <2>2, <2>3 DEF Fclose, Typed, Listed, ondisk
<1>5. ASSUME NEW k \in Inodes, FreadClosed(k) \/ UseWithoutInode(k)
      PROVE  Typed'
  <2>1. UNCHANGED typedvars
    BY <1>5
       DEF FreadClosed, UseWithoutInode, GiveUp, typedvars, memory, ondisk
  <2>2. calls' \in Nat
    BY <1>5, CallCounts DEF FreadClosed, UseWithoutInode
  <2>3. QED BY <2>1, <2>2, TypedSame
<1>6. ASSUME NEW k \in Inodes, NEW length \in Lengths, Fread(k, length)
      PROVE  Typed'
  BY <1>6, TypedFread
<1>7. ASSUME NEW k \in Inodes, NEW length \in Lengths, Fwrite(k, length)
      PROVE  Typed'
  BY <1>7, TypedFwrite
<1>8. ASSUME NEW k \in Inodes, NEW loc \in Positions, Fseek(k, loc)
      PROVE  Typed'
  <2> DEFINE to == Min({loc, table[fdt[k].inode].size})
  <2>1. to \in Nat
    <3>1. fdt[k].inode \in Inodes
      BY <1>8, HasInodeType DEF Fseek
    <3>2. table[fdt[k].inode].size \in Nat /\ loc \in Nat
      BY <3>1, SfsAssumption DEF Typed, InodeRecords
    <3>3. loc \in Int /\ table[fdt[k].inode].size \in Int
      BY <3>2
    <3>4. to = IF loc <= table[fdt[k].inode].size THEN loc
               ELSE table[fdt[k].inode].size
      BY <3>3, MinOfTwo
    <3>5. QED BY <3>2, <3>4
  <2>2. fdt' = [fdt EXCEPT ![k].wptr = to, ![k].rwptr = to]
    BY <1>8 DEF Fseek
  <2> HIDE DEF to
  <2>3. /\ fdt' \in [Inodes -> [inode : 0 .. Free, rwptr : Nat, wptr : Nat,
                                open : {0, 1}]]
        /\ \A l \in Inodes : fdt'[l].inode = fdt[l].inode
    BY <2>1, <2>2 DEF Typed
  <2>4. calls' \in Nat
    BY <1>8, CallCounts DEF Fseek
  <2>5. Rooted'
    BY <1>8, <2>3, RootedSame DEF Fseek, Typed, ondisk
  <2>6. QED BY <1>8, <2>3, <2>4, <2>5 DEF Fseek, Typed, Listed, ondisk
<1>9. CASE Reopen
  <2>1. calls' \in Nat
    BY <1>9, CallCounts DEF Reopen
  <2>2. CASE GiveUp
    <3>1. UNCHANGED typedvars
      BY <2>2 DEF GiveUp, typedvars, memory, ondisk
    <3>2. QED BY <2>1, <3>1, TypedSame
  <2>3. CASE /\ table' = savedtable /\ free_bit_map' = savedmap
             /\ root' = savedroot
             /\ UNCHANGED <<fdt, ondisk, onstack>>
    <3>1. root' = root
      BY <2>3 DEF SavedFiles
    <3>2. Rooted'
      BY <2>3 DEF Typed, Rooted, ondisk
    <3>3. QED BY <2>1, <2>3, <3>1, <3>2 DEF Typed, Listed, ondisk
  <2>4. QED BY <1>9, <2>2, <2>3 DEF Reopen
<1>10. CASE Format
  BY <1>10, TypedFormat
<1>11. QED
  BY <1>1, <1>2, <1>3, <1>4, <1>5, <1>6, <1>7, <1>8, <1>9, <1>10
     DEF ReopenNext, FileCall

-----------------------------------------------------------------------------
(* What mksfs(0) finds.                                                    *)

(* A write into one direct block allocates nothing.                        *)
LEMMA OneBlock ==
  ASSUME calls \in Nat, NEW w \in Writes, NEW s \in States, NEW unset,
         ~w.isfirst, w.first = w.last, w.last < Direct
  PROVE  LET t == Written(w, s, unset)
         IN t.slots = s.slots /\ t.free = s.free /\ t.indirect = s.indirect
<1> DEFINE f == w.first
           t == PutBlock(w, s, f)
<1>1. f \in Nat /\ f < Direct
  BY DEF Writes
<1>2. Min({w.last, Direct - 1}) = f
  <2>1. w.last \in Int /\ Direct - 1 \in Int /\ w.last <= Direct - 1
    BY <1>1
  <2>2. QED BY <2>1, MinOfTwo
<1>3. Written(w, s, unset) = Loop(w, s, f)[f]
  BY <1>2 DEF Written
<1>4. f \in -1 .. Direct + BlockSize - 1 /\ f - 1 \in -1 .. Direct + BlockSize - 1
      /\ f - 1 < f /\ ~(f < f) /\ f \in Slots
  BY <1>1 DEF Slots
<1>5. Loop(w, s, f)[f - 1] = s
  BY <1>1, <1>4, LoopIs
<1>6. Loop(w, s, f)[f] = t
  BY <1>1, <1>4, <1>5, LoopIs
<1>7. ~Allocates(w, s, f)
  BY DEF Allocates
<1>8. BlockFor(w, s, f) = s.slots[f]
  BY <1>7 DEF BlockFor
<1>9. t.slots = s.slots
  <2>1. t.slots = [s.slots EXCEPT ![f] = s.slots[f]]
    BY <1>4, <1>8, PutSlots
  <2>2. s.slots \in [Slots -> Nat]
    BY DEF States, SlotMaps
  <2> HIDE DEF t
  <2>3. QED BY <2>1, <2>2
<1>10. t.free = s.free /\ t.indirect = s.indirect
  BY <1>4, <1>7, PutFree, PutRest
<1>11. QED BY <1>3, <1>6, <1>9, <1>10

LEMMA SavedFwrite ==
  ASSUME Typed, SavedFiles, NEW k \in Inodes, NEW length \in Lengths,
         Fwrite(k, length)
  PROVE  SavedFiles'
<1> DEFINE inode == fdt[k].inode
           w     == WriteOf(inode, fdt[k].wptr, length)
<1>1. CASE GiveUp
  BY <1>1 DEF GiveUp, SavedFiles, memory, ondisk
<1>2. ASSUME NEW unset, unset \in [Slots -> Nat],
             Written(w, Before(inode), unset) \in States,
             StoreWrite(k, w, Written(w, Before(inode), unset))
      PROVE  SavedFiles'
  <2> DEFINE s == Written(w, Before(inode), unset)
             size     == table[inode].size
             newsize  == IF w.isfirst THEN size + s.count
                         ELSE Max({size, fdt[k].wptr + w.length})
             direct   == (~w.isfirst /\ w.last = w.first) /\ ~(w.last >= Direct)
  <2>1. /\ inode \in Inodes /\ w \in Writes /\ fdt[k].wptr \in Nat
        /\ inode # 0
    BY FwriteIs DEF Typed, Rooted
  <2>2. /\ table' = [table EXCEPT
                       ![inode].data_ptrs = [p \in Pointers |-> s.slots[p]],
                       ![inode].indirectptr = s.indirect,
                       ![inode].size = newsize]
        /\ savedtable' = IF ~direct \/ newsize > size THEN table'
                                                      ELSE savedtable
        /\ free_bit_map' = s.free
        /\ savedmap' = IF direct THEN savedmap ELSE free_bit_map'
        /\ root' = root /\ savedroot' = savedroot
    BY <1>2, <2>1 DEF StoreWrite, TableSaved
  <2>3. CASE ~direct
    BY <2>2, <2>3 DEF SavedFiles
  <2>4. CASE direct
    <3>1. calls \in Nat /\ Before(inode) \in States /\ table[inode] \in InodeRecords
      BY <2>1, BeforeType DEF Typed
    <3>2. /\ s.slots = Before(inode).slots /\ s.free = Before(inode).free
          /\ s.indirect = Before(inode).indirect
      <4> HIDE DEF w, inode
      <4>1. w.last < Direct
        BY <2>1, <2>4 DEF Writes
      <4>2. QED BY <2>1, <2>4, <3>1, <4>1, OneBlock
    <3>3. [p \in Pointers |-> s.slots[p]] = table[inode].data_ptrs
      <4>1. \A p \in Pointers : p \in Slots /\ p < Direct
        BY DEF Pointers, Slots
      <4>2. Before(inode).slots = Numbers(table[inode].data_ptrs, Zeros)
        BY DEF Before
      <4>3. \A p \in Pointers : s.slots[p] = table[inode].data_ptrs[p]
        BY <3>2, <4>1, <4>2 DEF Numbers
      <4>4. table[inode].data_ptrs \in [Pointers -> 0 .. BitmapBits - 1]
        BY <3>1 DEF InodeRecords
      <4> HIDE DEF s, inode
      <4>5. QED BY <4>3, <4>4
    <3>4. s.free = free_bit_map /\ s.indirect = table[inode].indirectptr
      BY <3>2 DEF Before
    <3>5. savedroot' = root' /\ savedmap' = free_bit_map'
      BY <2>2, <2>4, <3>4 DEF SavedFiles
    <3>6. CASE newsize > size
      BY <2>2, <3>5, <3>6 DEF SavedFiles
    <3>7. CASE ~(newsize > size)
      <4>1. newsize = size
        <5>1. size \in Int /\ fdt[k].wptr + w.length \in Int
          BY <2>1, <3>1 DEF InodeRecords, Writes
        <5>2. newsize = IF size <= fdt[k].wptr + w.length
                          THEN fdt[k].wptr + w.length ELSE size
          <6>1. newsize = Max({size, fdt[k].wptr + w.length})
            BY <2>4
          <6> HIDE DEF newsize, size, w
          <6>2. QED BY <5>1, <6>1, MinOfTwo
        <5> HIDE DEF newsize, size, w
        <5>3. QED BY <3>7, <5>1, <5>2
      <4>2. table' = [table EXCEPT
                        ![inode].data_ptrs = table[inode].data_ptrs,
                        ![inode].indirectptr = table[inode].indirectptr,
                        ![inode].size = table[inode].size]
        BY <2>2, <3>3, <3>4, <4>1
      <4>3. table' = table
        <5>1. table \in [Inodes -> InodeRecords]
          BY DEF Typed
        <5> HIDE DEF inode
        <5>2. QED BY <2>1, <4>2, <5>1 DEF InodeRecords
      <4>4. savedtable' = savedtable
        BY <2>2, <2>4, <3>7
      <4>5. QED BY <3>5, <4>3, <4>4 DEF SavedFiles
    <3>8. QED BY <3>6, <3>7
  <2>5. QED BY <2>3, <2>4
<1>3. \/ GiveUp
      \/ \E unset : /\ unset \in [Slots -> Nat]
                    /\ Written(w, Before(inode), unset) \in States
                    /\ StoreWrite(k, w, Written(w, Before(inode), unset))
  BY FwriteIs
<1>4. QED BY <1>1, <1>2, <1>3

LEMMA SavedStep == Typed /\ SavedFiles /\ [ReopenNext]_vars => SavedFiles'
<1> SUFFICES ASSUME Typed, SavedFiles, [ReopenNext]_vars PROVE SavedFiles'
  OBVIOUS
<1>1. CASE UNCHANGED <<table, root, free_bit_map, savedtable, savedroot, savedmap>>
  BY <1>1 DEF SavedFiles
<1>2. ASSUME NEW name \in Names, FopenExisting(name) PROVE SavedFiles'
  BY <1>1, <1>2 DEF FopenExisting, ondisk
<1>3. ASSUME NEW name \in Names, FopenNew(name) PROVE SavedFiles'
  <2> DEFINE created == Created(name)
  <2>1. /\ table' = [i \in Inodes |->
                       IF i \in Range(created)
                         THEN [table[i] EXCEPT !.used = 1, !.size = 0]
                         ELSE table[i]]
        /\ root' = [i \in Inodes |->
                      IF i \in DOMAIN created
                        THEN [filename |-> name, inoteindex |-> created[i]]
                        ELSE root[i]]
        /\ savedroot' = IF created = Empty THEN savedroot ELSE root'
        /\ UNCHANGED <<free_bit_map, savedtable, savedmap>>
    BY <1>3 DEF FopenNew
  <2>2. savedroot' = root'
    <3>1. DOMAIN Empty = {}
      BY DEF Empty
    <3>2. root \in [Inodes -> [filename : Names \union {NoName},
                               inoteindex : 0 .. Free]]
      BY DEF Typed
    <3> HIDE DEF created
    <3>3. created = Empty => root' = [i \in Inodes |-> root[i]]
      BY <2>1, <3>1
    <3>4. QED BY <2>1, <3>2, <3>3 DEF SavedFiles
  <2>3. ASSUME NEW i \in 1 .. NumInodes - 1, table'[i].size > 0,
               table'[i].used = 1
        PROVE  savedtable'[i] = table'[i]
    <3>1. i \in Inodes
      BY DEF Inodes
    <3>2. table[i] \in InodeRecords
      BY <3>1 DEF Typed
    <3> HIDE DEF created
    <3>3. i \notin Range(created)
      <4>1. SUFFICES ASSUME i \in Range(created) PROVE FALSE
        OBVIOUS
      <4>2. table'[i] = [table[i] EXCEPT !.used = 1, !.size = 0]
        BY <2>1, <3>1, <4>1
      <4>3. table'[i].size = 0
        BY <3>2, <4>2 DEF InodeRecords
      <4>4. QED BY <2>3, <4>3
    <3>4. table'[i] = table[i]
      BY <2>1, <3>1, <3>3
    <3>5. QED BY <2>1, <2>3, <3>4 DEF SavedFiles
  <2>4. savedmap' = free_bit_map'
    BY <2>1 DEF SavedFiles
  <2>5. QED BY <2>2, <2>3, <2>4 DEF SavedFiles
<1>4. ASSUME NEW k \in Inodes,
             Fclose(k) \/ FreadClosed(k) \/ UseWithoutInode(k)
      PROVE  SavedFiles'
  BY <1>1, <1>4
     DEF Fclose, FreadClosed, UseWithoutInode, GiveUp, memory, ondisk
<1>5. ASSUME NEW k \in Inodes, NEW length \in Lengths, Fread(k, length)
      PROVE  SavedFiles'
  BY <1>1, <1>5 DEF Fread, GiveUp, memory, ondisk
<1>6. ASSUME NEW k \in Inodes, NEW length \in Lengths, Fwrite(k, length)
      PROVE  SavedFiles'
  BY <1>6, SavedFwrite
<1>7. ASSUME NEW k \in Inodes, NEW loc \in Positions, Fseek(k, loc)
      PROVE  SavedFiles'
  BY <1>1, <1>7 DEF Fseek, ondisk
<1>8. CASE Reopen
  BY <1>1, <1>8 DEF Reopen, GiveUp, SavedFiles, memory, ondisk
<1>9. CASE Format
  BY <1>9 DEF Format, SavedFiles
<1>10. QED
  BY <1>1, <1>2, <1>3, <1>4, <1>5, <1>6, <1>7, <1>8, <1>9
     DEF ReopenNext, FileCall, vars, memory, ondisk

(* After any calls, mksfs() ones included, the disk has the directory, the *)
(* bitmap and the inode of every file with data as the memory has them:    *)
(* the one branch of sfs_fwrite() that saves nothing changes no number and *)
(* no size.                                                                *)
THEOREM SavedFilesCorrect == ReopenSpec => []SavedFiles
<1>1. Init => SavedFiles
  BY DEF Init, SavedFiles
<1>2. QED BY <1>1, TypedInit, TypedStep, SavedStep, PTL DEF ReopenSpec
-----------------------------------------------------------------------------
(* Counting the cells of a write.                                          *)

(* How many of the cells of a write lie in front of position a.            *)
Reached(w, a) == IF a <= w.from THEN 0
                 ELSE IF a - w.from <= w.taken THEN a - w.from ELSE w.taken

LEMMA CellsBetween ==
  ASSUME NEW w \in Writes, NEW a \in Nat
  PROVE  /\ Reached(w, a) \in Nat /\ Reached(w, a + BlockSize) \in Nat
         /\ Cardinality({c \in Cells : a + c \in w.from .. w.from + w.taken - 1})
              = Reached(w, a + BlockSize) - Reached(w, a)
<1> DEFINE f == w.from
           n == w.taken
           C == {c \in Cells : a + c \in f .. f + n - 1}
           lo == IF a <= f THEN f - a ELSE 0
           hi == IF a + BlockSize <= f + n THEN BlockSize - 1 ELSE f + n - a - 1
<1>1. f \in Nat /\ n \in Nat
  BY DEF Writes
<1> HIDE DEF f, n
<1>2. lo \in Int /\ hi \in Int
  BY <1>1
<1>3. C = lo .. hi
  <2>1. ASSUME NEW c \in Int PROVE c \in C <=> c \in lo .. hi
    BY <1>1, <1>2 DEF Cells
  <2>2. \A c \in Cells : c \in Int
    BY DEF Cells
  <2>3. QED BY <2>1, <2>2
<1>4. Cardinality(lo .. hi) = IF lo > hi THEN 0 ELSE hi - lo + 1
  BY <1>2, FS_Interval
<1>5. /\ Reached(w, a) = IF a <= f THEN 0 ELSE IF a - f <= n THEN a - f ELSE n
      /\ Reached(w, a + BlockSize) =
           IF a + BlockSize <= f THEN 0
           ELSE IF (a + BlockSize) - f <= n THEN (a + BlockSize) - f ELSE n
  BY DEF Reached, f, n
<1>6. Reached(w, a) \in Nat /\ Reached(w, a + BlockSize) \in Nat
  BY <1>1, <1>5
<1>7. (IF lo > hi THEN 0 ELSE hi - lo + 1)
        = Reached(w, a + BlockSize) - Reached(w, a)
  BY <1>1, <1>5
<1>8. QED BY <1>3, <1>4, <1>6, <1>7 DEF f, n

LEMMA CountForIs ==
  ASSUME NEW w \in Writes, NEW j \in Nat
  PROVE  /\ Reached(w, j * BlockSize) \in Nat
         /\ Reached(w, (j + 1) * BlockSize) \in Nat
         /\ CountFor(w, j) = Reached(w, (j + 1) * BlockSize)
                               - Reached(w, j * BlockSize)
<1>1. j * BlockSize \in Nat /\ (j + 1) * BlockSize = j * BlockSize + BlockSize
  BY TimesBlock
<1>2. CountFor(w, j) =
        Cardinality({c \in Cells :
          j * BlockSize + c \in w.from .. w.from + w.taken - 1})
  BY DEF CountFor, Within
<1>3. QED BY <1>1, <1>2, CellsBetween

(* A write at a pointer inside its file: the first one is at 0, and takes  *)
(* no more than it was asked to.                                           *)
Plain(w) == /\ w \in Writes /\ 0 < w.length
            /\ w.from = w.pointer /\ w.taken = w.length
            /\ w.first = w.pointer \div BlockSize
            /\ w.last = (w.pointer + w.length) \div BlockSize
            /\ w.isfirst => w.pointer = 0

LEMMA WriteIsPlain ==
  ASSUME NEW inode \in Inodes, table \in [Inodes -> InodeRecords],
         NEW pointer \in Nat, NEW length \in Nat \ {0},
         table[inode].data_ptrs[0] = 0 => pointer = 0
  PROVE  Plain(WriteOf(inode, pointer, length))
<1> DEFINE w == WriteOf(inode, pointer, length)
<1>1. w \in Writes
  BY WriteOfType
<1>2. /\ w.isfirst = (table[inode].data_ptrs[0] = 0)
      /\ w.pointer = pointer /\ w.length = length
      /\ w.last = IF w.isfirst THEN LastOfFirst(pointer, length)
                               ELSE (pointer + length) \div BlockSize
      /\ w.from = IF w.isfirst THEN 0 ELSE pointer
      /\ w.taken = IF w.isfirst THEN (w.last * BlockSize) + (length % BlockSize)
                                ELSE length
      /\ w.first = IF w.isfirst THEN 0 ELSE pointer \div BlockSize
  BY DEF WriteOf
<1> HIDE DEF w
<1>6. 0 < w.length
  BY <1>2
<1>3. CASE w.isfirst
  <2>1. pointer = 0 /\ pointer % BlockSize = 0 /\ pointer \div BlockSize = 0
    <3>1. pointer = 0
      BY <1>2, <1>3
    <3>2. 0 % BlockSize = 0 /\ 0 \div BlockSize = 0
      OBVIOUS
    <3>3. QED BY <3>1, <3>2
  <2>2. w.last = (pointer + length) \div BlockSize
    <3>1. (pointer % BlockSize) + length = pointer + length
      BY <2>1
    <3>2. QED BY <1>2, <1>3, <3>1 DEF LastOfFirst
  <2>3. w.last = length \div BlockSize
    BY <2>1, <2>2
  <2>4. length = (length \div BlockSize) * BlockSize + (length % BlockSize)
    BY BlockAndCell
  <2>5. w.taken = length
    BY <1>2, <1>3, <2>3, <2>4, Zenon
  <2>6. w.from = w.pointer /\ w.taken = w.length /\ w.pointer = 0
    BY <1>2, <1>3, <2>1, <2>5
  <2>7. /\ w.first = w.pointer \div BlockSize
        /\ w.last = (w.pointer + w.length) \div BlockSize
    BY <1>2, <1>3, <2>1, <2>2
  <2>8. Plain(w)
    BY <1>1, <1>6, <2>6, <2>7 DEF Plain
  <2>9. QED BY <2>8 DEF w
<1>4. CASE ~w.isfirst
  <2>1. w.from = w.pointer /\ w.taken = w.length
    BY <1>2, <1>4
  <2>2. /\ w.first = w.pointer \div BlockSize
        /\ w.last = (w.pointer + w.length) \div BlockSize
    BY <1>2, <1>4
  <2>3. Plain(w)
    BY <1>1, <1>4, <1>6, <2>1, <2>2 DEF Plain
  <2>4. QED BY <2>3 DEF w
<1>5. QED BY <1>3, <1>4 DEF w

(* The first and the last block of a write.                                *)
LEMMA PlainBlocks ==
  ASSUME NEW w, Plain(w)
  PROVE  /\ w.first \in Nat /\ w.last \in Nat /\ w.first <= w.last
         /\ w.isfirst => w.first = 0
         /\ w.first * BlockSize \in Nat /\ w.last * BlockSize \in Nat
         /\ w.pointer \in Nat /\ w.length \in Nat
         /\ w.first * BlockSize <= w.pointer
         /\ w.pointer < w.first * BlockSize + BlockSize
         /\ w.last * BlockSize <= w.pointer + w.length
         /\ w.pointer + w.length < w.last * BlockSize + BlockSize
<1>1. /\ w.pointer \in Nat /\ w.length \in Nat /\ 0 < w.length
      /\ w.first \in Nat /\ w.last \in Nat
      /\ w.first = w.pointer \div BlockSize
      /\ w.last = (w.pointer + w.length) \div BlockSize
  BY DEF Plain, Writes
<1>2. w.pointer + w.length \in Nat /\ w.pointer <= w.pointer + w.length
  BY <1>1
<1>3. /\ w.first * BlockSize <= w.pointer
      /\ w.pointer < w.first * BlockSize + BlockSize
  BY <1>1, BlockOf
<1>4. /\ w.last * BlockSize <= w.pointer + w.length
      /\ w.pointer + w.length < w.last * BlockSize + BlockSize
  BY <1>1, <1>2, BlockOf
<1>5. w.first * BlockSize \in Nat /\ w.last * BlockSize \in Nat
  BY <1>1, TimesBlock
<1>6. w.first <= w.last
  <2>1. w.first * BlockSize <= w.pointer + w.length
    BY <1>1, <1>2, <1>3, <1>5
  <2>2. QED BY <1>1, <1>2, <2>1, BlockOf
<1>7. w.isfirst => w.first = 0
  <2>1. w.isfirst => w.pointer = 0
    BY DEF Plain
  <2>2. 0 \div BlockSize = 0
    OBVIOUS
  <2>3. QED BY <1>1, <2>1, <2>2
<1>8. QED BY <1>1, <1>3, <1>4, <1>5, <1>6, <1>7

LEMMA ReachedEnds ==
  ASSUME NEW w, Plain(w)
  PROVE  /\ \A j \in Nat : j <= w.first => Reached(w, j * BlockSize) = 0
         /\ Reached(w, (w.last + 1) * BlockSize) = w.length
         /\ \A a : a \in Nat => Reached(w, a) \in 0 .. w.length
<1>1. /\ w.first \in Nat /\ w.last \in Nat
      /\ w.pointer \in Nat /\ w.length \in Nat
      /\ w.first * BlockSize \in Nat /\ w.last * BlockSize \in Nat
      /\ w.first * BlockSize <= w.pointer
      /\ w.pointer + w.length < w.last * BlockSize + BlockSize
  BY PlainBlocks
<1>2. w.from = w.pointer /\ w.taken = w.length
  BY DEF Plain
<1>3. ASSUME NEW j \in Nat, j <= w.first PROVE Reached(w, j * BlockSize) = 0
  <2>1. j * BlockSize <= w.first * BlockSize /\ j * BlockSize \in Nat
    BY <1>1, <1>3, TimesBlock
  <2>2. j * BlockSize <= w.from
    BY <1>1, <1>2, <2>1
  <2>3. QED BY <2>2 DEF Reached
<1>4. Reached(w, (w.last + 1) * BlockSize) = w.length
  <2> DEFINE a == (w.last + 1) * BlockSize
  <2>1. a = w.last * BlockSize + BlockSize
    BY <1>1, TimesBlock
  <2> HIDE DEF a
  <2>2. a \in Nat /\ w.pointer + w.length < a
    BY <1>1, <2>1
  <2>3. ~(a <= w.pointer) /\ (a - w.pointer <= w.length => FALSE)
    BY <1>1, <2>2
  <2>4. Reached(w, a) = w.length
    BY <1>2, <2>3 DEF Reached
  <2>5. QED BY <2>4 DEF a
<1>5. ASSUME NEW a, a \in Nat PROVE Reached(w, a) \in 0 .. w.length
  BY <1>1, <1>2, <1>5 DEF Reached
<1>6. QED BY <1>3, <1>4, <1>5

(* A number of the bitmap that sfs_fwrite() has allocated, or none left.   *)
Allocated == 4 .. BitmapBits

Weak(w, f, t, j) ==
  /\ t.count <= Reached(w, (j + 1) * BlockSize)
  /\ \A p \in Pointers : t.slots[p] = f[p] \/ t.slots[p] \in Allocated
  /\ w.isfirst /\ 0 <= j => t.slots[0] \in Allocated

LEMMA PutWeak ==
  ASSUME NEW w, Plain(w), NEW f, NEW t \in States, NEW j \in Slots,
         Weak(w, f, t, j - 1)
  PROVE  Weak(w, f, PutBlock(w, t, j), j)
<1> DEFINE u == PutBlock(w, t, j)
           b == BlockFor(w, t, j)
<1>1. w \in Writes /\ j \in Nat
  BY DEF Plain, Slots
<1>2. u.count <= Reached(w, (j + 1) * BlockSize)
  <2>1. /\ Reached(w, j * BlockSize) \in Nat
        /\ Reached(w, (j + 1) * BlockSize) \in Nat
        /\ CountFor(w, j) = Reached(w, (j + 1) * BlockSize)
                              - Reached(w, j * BlockSize)
    BY <1>1, CountForIs
  <2>2. CountFor(w, j) \in Nat /\ t.count \in Nat
    BY CountForType DEF States
  <2>3. t.count <= Reached(w, j * BlockSize)
    <3>1. (j - 1) + 1 = j
      BY <1>1
    <3>2. QED BY <3>1 DEF Weak
  <2>4. u.count = t.count \/ u.count = t.count + CountFor(w, j)
    BY PutCount
  <2> HIDE DEF u
  <2>5. QED BY <2>1, <2>2, <2>3, <2>4
<1>3. u.slots = [t.slots EXCEPT ![j] = b] /\ t.slots \in [Slots -> Nat]
  BY PutSlots DEF States, SlotMaps
<1>4. b = t.slots[j] \/ b \in Allocated
  <2>1. \/ b = t.slots[j]
        \/ b \in t.free \union {BitmapBits}
    BY <1>1, BlockForType
  <2>2. t.free \subseteq Unreserved /\ BitmapBits \in Allocated
    BY DEF States, Allocated
  <2>3. Unreserved \subseteq Allocated
    BY DEF Unreserved, Allocated
  <2>4. QED BY <2>1, <2>2, <2>3
<1>5. \A p \in Pointers : u.slots[p] = f[p] \/ u.slots[p] \in Allocated
  <2>1. \A p \in Pointers : p \in Slots
    BY DEF Pointers, Slots
  <2> HIDE DEF u, b
  <2>2. ASSUME NEW p \in Pointers
        PROVE  u.slots[p] = f[p] \/ u.slots[p] \in Allocated
    <3>1. t.slots[p] = f[p] \/ t.slots[p] \in Allocated
      BY DEF Weak
    <3>2. u.slots[p] = IF p = j THEN b ELSE t.slots[p]
      BY <1>3, <2>1
    <3>3. QED BY <1>4, <3>1, <3>2
  <2>3. QED BY <2>2
<1>6. ASSUME w.isfirst PROVE u.slots[0] \in Allocated
  <2>1. 0 \in Slots
    BY DEF Slots
  <2>2. CASE j = 0
    <3>1. b \in t.free \union {BitmapBits}
      BY <1>1, <1>6, BlockForType DEF Allocates
    <3>2. b \in Allocated
      BY <3>1 DEF States, Allocated, Unreserved
    <3> HIDE DEF u, b
    <3>3. QED BY <1>3, <2>1, <2>2, <3>2
  <2>3. CASE j # 0
    <3>1. 0 <= j - 1
      BY <1>1, <2>3
    <3>2. t.slots[0] \in Allocated
      BY <1>6, <3>1 DEF Weak
    <3> HIDE DEF u, b
    <3>3. QED BY <1>3, <2>1, <2>3, <3>2
  <2>4. QED BY <2>2, <2>3
<1>7. QED BY <1>2, <1>5, <1>6 DEF Weak

LEMMA LoopWeak ==
  ASSUME calls \in Nat, NEW w, Plain(w), NEW f, NEW s \in States,
         NEW g \in Nat, g \in Slots, Weak(w, f, s, g - 1)
  PROVE  \A j \in g - 1 .. Direct + BlockSize - 1 :
           Weak(w, f, Loop(w, s, g)[j], j)
<1> DEFINE n == Direct + BlockSize - 1
           S == {j \in -1 .. n : Weak(w, f, Loop(w, s, g)[j], j)}
<1>1. n \in Int /\ g - 1 \in Int /\ g \in 0 .. n /\ w \in Writes
  BY DEF Slots, Plain
<1>2. \A j \in -1 .. n :
        Loop(w, s, g)[j] =
          IF j < g THEN s ELSE PutBlock(w, Loop(w, s, g)[j - 1], j)
  BY LoopIs
<1>3. g - 1 \in S
  <2>1. g - 1 \in -1 .. n /\ g - 1 < g
    BY <1>1
  <2>2. QED BY <1>2, <2>1
<1>4. ASSUME NEW j \in g - 1 .. n - 1, j \in S PROVE j + 1 \in S
  <2>1. j + 1 \in -1 .. n /\ (j + 1) - 1 = j /\ ~(j + 1 < g) /\ j \in -1 .. n
    BY <1>1
  <2>2. j + 1 \in Slots
    BY <1>1 DEF Slots
  <2>3. Loop(w, s, g)[j] \in States
    BY <1>1, <2>1, LoopType
  <2>4. Weak(w, f, Loop(w, s, g)[j], (j + 1) - 1)
    BY <1>4, <2>1
  <2>5. Weak(w, f, PutBlock(w, Loop(w, s, g)[j], j + 1), j + 1)
    BY <2>2, <2>3, <2>4, PutWeak
  <2>6. Loop(w, s, g)[j + 1] = PutBlock(w, Loop(w, s, g)[j], j + 1)
    BY <1>2, <2>1
  <2>7. QED BY <2>1, <2>5, <2>6
<1> HIDE DEF S, n
<1>5. g - 1 .. n \subseteq S
  BY <1>1, <1>3, <1>4, UpTo
<1>6. QED BY <1>5 DEF S, n

(* The two loops of a write: over the direct blocks, and over those of the *)
(* indirect block.                                                         *)
Behind(w) == IF w.first <= Direct THEN Direct ELSE w.first

LEMMA WrittenIs ==
  ASSUME NEW w, Plain(w), w.last \in Slots, NEW s, NEW unset
  PROVE  /\ w.last < Direct =>
              Written(w, s, unset) = Loop(w, s, w.first)[w.last]
         /\ Direct <= w.last =>
              Written(w, s, unset) =
                Loop(w, Opened(w, Loop(w, s, w.first)[Direct - 1], unset),
                     Behind(w))[w.last]
         /\ Direct <= w.first => Loop(w, s, w.first)[Direct - 1] = s
         /\ Loop(w, s, w.first)[w.first - 1] = s
<1>1. w.first \in Nat /\ w.last \in Nat /\ w.first <= w.last
  BY PlainBlocks
<1>2. Min({w.last, Direct - 1}) = IF w.last < Direct THEN w.last ELSE Direct - 1
  <2>1. w.last \in Int /\ Direct - 1 \in Int
    BY <1>1
  <2>2. Min({w.last, Direct - 1}) =
          IF w.last <= Direct - 1 THEN w.last ELSE Direct - 1
    BY <2>1, MinOfTwo
  <2>3. QED BY <1>1, <2>2
<1>3. Max({w.first, Direct}) = Behind(w)
  <2>1. w.first \in Int /\ Direct \in Int
    BY <1>1
  <2>2. QED BY <2>1, MinOfTwo DEF Behind
<1>4. Direct <= w.last <=> ~(w.last < Direct)
  BY <1>1
<1>5. /\ Direct <= w.first => Loop(w, s, w.first)[Direct - 1] = s
      /\ Loop(w, s, w.first)[w.first - 1] = s
  <2>1. Direct - 1 \in -1 .. Direct + BlockSize - 1
    OBVIOUS
  <2>2. w.first - 1 \in -1 .. Direct + BlockSize - 1
    BY <1>1 DEF Slots
  <2>3. Direct <= w.first => Direct - 1 < w.first
    BY <1>1
  <2>4. w.first - 1 < w.first
    BY <1>1
  <2>5. QED BY <1>1, <2>1, <2>2, <2>3, <2>4, LoopIs
<1>6. QED BY <1>2, <1>3, <1>4, <1>5 DEF Written

LEMMA ArraysAre ==
  ASSUME NEW t \in States, NEW unset
  PROVE  /\ ArrayRead(t, unset).slots =
              Numbers(t.slots, ArrayOn(t.disk, t.indirect, unset))
         /\ ArrayUnread(t, unset).slots = Numbers(t.slots, unset)
         /\ NewIndirect(t).slots = t.slots
         /\ ArrayRead(t, unset).free = t.free
         /\ ArrayUnread(t, unset).free = t.free
         /\ NewIndirect(t).free = t.free \ {Lowest(t.free)}
         /\ ArrayRead(t, unset).indirect = t.indirect
         /\ ArrayUnread(t, unset).indirect = t.indirect
         /\ NewIndirect(t).indirect = Lowest(t.free)
         /\ ArrayRead(t, unset).unread = (t.indirect >= NumBlocks)
         /\ ArrayUnread(t, unset).unread = TRUE
  BY DEF ArrayRead, ArrayUnread, NewIndirect, States

LEMMA ArraysKeep ==
  ASSUME NEW t \in States, NEW unset
  PROVE  /\ ArrayRead(t, unset).disk = t.disk
         /\ ArrayUnread(t, unset).disk = t.disk
         /\ NewIndirect(t).disk = t.disk
         /\ ArrayRead(t, unset).count = t.count
         /\ ArrayUnread(t, unset).count = t.count
         /\ NewIndirect(t).count = t.count
  BY DEF ArrayRead, ArrayUnread, NewIndirect, States

LEMMA NewIndirectType ==
  ASSUME NEW t \in States PROVE NewIndirect(t) \in States
<1>1. t.free \subseteq 0 .. BitmapBits - 1
  BY DEF States, Unreserved
<1>2. Lowest(t.free) \in 0 .. BitmapBits
  BY <1>1, LowestIs
<1>3. QED BY <1>2 DEF NewIndirect, States

LEMMA OpenedKeeps ==
  ASSUME NEW w, NEW t \in States, NEW unset
  PROVE  /\ Opened(w, t, unset).disk = t.disk
         /\ Opened(w, t, unset).count = t.count
         /\ \A p \in Pointers : Opened(w, t, unset).slots[p] = t.slots[p]
<1> DEFINE n == NewIndirect(t)
           all == {ArrayUnread(n, unset), ArrayRead(t, unset),
                   ArrayRead(n, unset), ArrayUnread(t, unset)}
<1>1. Opened(w, t, unset) \in all
  BY DEF Opened
<1>2. n \in States /\ n.slots = t.slots /\ n.disk = t.disk /\ n.count = t.count
  BY NewIndirectType, ArraysAre, ArraysKeep
<1> HIDE DEF n
<1>3. \A o \in all : o.disk = t.disk /\ o.count = t.count
  BY <1>2, ArraysKeep
<1>4. \A o \in all : \E a : o.slots = Numbers(t.slots, a)
  <2>1. /\ ArrayUnread(n, unset).slots = Numbers(t.slots, unset)
        /\ ArrayRead(n, unset).slots =
             Numbers(t.slots, ArrayOn(n.disk, n.indirect, unset))
    <3>1. \A u \in States :
            /\ ArrayUnread(u, unset).slots = Numbers(u.slots, unset)
            /\ ArrayRead(u, unset).slots =
                 Numbers(u.slots, ArrayOn(u.disk, u.indirect, unset))
      BY ArraysAre
    <3>2. QED BY <1>2, <3>1
  <2>2. /\ ArrayUnread(t, unset).slots = Numbers(t.slots, unset)
        /\ ArrayRead(t, unset).slots =
             Numbers(t.slots, ArrayOn(t.disk, t.indirect, unset))
    BY ArraysAre
  <2>3. QED BY <2>1, <2>2
<1>5. \A a : \A p \in Pointers : Numbers(t.slots, a)[p] = t.slots[p]
  BY DEF Numbers, Pointers, Slots
<1>6. QED BY <1>1, <1>3, <1>4, <1>5

LEMMA WrittenWeak ==
  ASSUME Typed, NEW inode \in Inodes, NEW w, Plain(w), w.last \in Slots,
         NEW unset \in [Slots -> Nat]
  PROVE  Weak(w, table[inode].data_ptrs, Written(w, Before(inode), unset),
              w.last)
<1> DEFINE f == table[inode].data_ptrs
           s == Before(inode)
           d == Loop(w, s, w.first)
           o == Opened(w, d[Direct - 1], unset)
<1>1. /\ w.first \in Nat /\ w.last \in Nat /\ w.first <= w.last
      /\ w.isfirst => w.first = 0
      /\ w \in Writes /\ calls \in Nat /\ s \in States
  BY PlainBlocks, BeforeType DEF Plain, Typed
<1>2. w.last \in 0 .. Direct + BlockSize - 1 /\ w.first \in Slots
  BY <1>1 DEF Slots
<1>3. Weak(w, f, s, w.first - 1)
  <2>1. s.count = 0
    BY DEF Before
  <2>2. Reached(w, ((w.first - 1) + 1) * BlockSize) = 0
    <3>1. (w.first - 1) + 1 = w.first
      BY <1>1
    <3>2. QED BY <1>1, <3>1, ReachedEnds
  <2>3. \A p \in Pointers : s.slots[p] = f[p]
    BY DEF Before, Numbers, Pointers, Slots
  <2>4. w.isfirst => ~(0 <= w.first - 1)
    BY <1>1
  <2> HIDE DEF s, f
  <2>5. QED BY <2>1, <2>2, <2>3, <2>4 DEF Weak
<1> HIDE DEF s, f
<1>4. \A j \in w.first - 1 .. Direct + BlockSize - 1 : Weak(w, f, d[j], j)
  BY <1>1, <1>2, <1>3, LoopWeak
<1>5. CASE w.last < Direct
  <2>1. Written(w, s, unset) = d[w.last]
    BY <1>5, WrittenIs
  <2>2. w.last \in w.first - 1 .. Direct + BlockSize - 1
    BY <1>1, <1>2
  <2>3. QED BY <1>4, <2>1, <2>2 DEF s, f
<1>6. CASE Direct <= w.last
  <2>1. Written(w, s, unset) = Loop(w, o, Behind(w))[w.last]
    BY <1>6, WrittenIs
  <2>2. Weak(w, f, d[Direct - 1], Behind(w) - 1)
    <3>1. CASE w.first <= Direct
      <4>1. Direct - 1 \in w.first - 1 .. Direct + BlockSize - 1
        BY <1>1, <3>1
      <4>2. QED BY <1>4, <3>1, <4>1 DEF Behind
    <3>2. CASE ~(w.first <= Direct)
      <4>1. d[Direct - 1] = s
        <5>1. Direct <= w.first
          BY <1>1, <3>2
        <5>2. QED BY <5>1, WrittenIs
      <4>2. QED BY <1>3, <3>2, <4>1 DEF Behind
    <3>3. QED BY <3>1, <3>2
  <2>3. d[Direct - 1] \in States
    <3>1. Direct - 1 \in -1 .. Direct + BlockSize - 1
      OBVIOUS
    <3>2. QED BY <1>1, <3>1, LoopType
  <2> HIDE DEF d
  <2>4. o \in States
    BY <1>1, <2>3, OpenedType
  <2>5. Weak(w, f, o, Behind(w) - 1)
    <3>1. 0 \in Pointers
      BY DEF Pointers
    <3>2. /\ o.count = d[Direct - 1].count
          /\ \A p \in Pointers : o.slots[p] = d[Direct - 1].slots[p]
      BY <2>3, OpenedKeeps
    <3> HIDE DEF o
    <3>3. QED BY <2>2, <3>1, <3>2 DEF Weak
  <2> HIDE DEF o
  <2>6. /\ Behind(w) \in Nat /\ Behind(w) \in Slots
        /\ w.last \in Behind(w) - 1 .. Direct + BlockSize - 1
    BY <1>1, <1>2, <1>6 DEF Behind, Slots
  <2>7. Weak(w, f, Loop(w, o, Behind(w))[w.last], w.last)
    BY <1>1, <2>4, <2>5, <2>6, LoopWeak
  <2>8. QED BY <2>1, <2>7 DEF s, f
<1>7. QED BY <1>1, <1>5, <1>6

-----------------------------------------------------------------------------
(* Sizes, pointers and files without data.                                 *)

(* The pointers of a descriptor are inside its file.                       *)
Cursors ==
  \A k \in Inodes :
    IF fdt[k].inode \in Inodes
      THEN /\ fdt[k].wptr <= table[fdt[k].inode].size
           /\ fdt[k].rwptr <= table[fdt[k].inode].size
      ELSE fdt[k].wptr = 0 /\ fdt[k].rwptr = 0

(* An inode without a first block has none, as one that is not used.       *)
Untouched ==
  \A i \in Inodes :
    (table[i].used = 0 \/ table[i].data_ptrs[0] = 0) =>
      /\ table[i].size = 0 /\ table[i].indirectptr = 0
      /\ \A p \in Pointers : table[i].data_ptrs[p] = 0

Bounded == \A i \in Inodes : table[i].size < MaxSize

Positioned == Cursors /\ Untouched /\ Bounded

LEMMA PositionedInit == Init => Positioned
<1> SUFFICES ASSUME Init PROVE Positioned
  OBVIOUS
<1>1. \A k \in Inodes : fdt[k].inode \notin Inodes /\ fdt[k].wptr = 0
                                                    /\ fdt[k].rwptr = 0
  BY DEF Init, NoDescriptor, Free, Inodes
<1>2. \A i \in Inodes : table[i].size = 0
  BY DEF Init, Formatted, NoInode
<1>3. \A i \in Inodes : i # 0 => table[i] = NoInode
  BY DEF Init, Formatted
<1>4. table[0].used = 1 /\ table[0].data_ptrs[0] = 3
  <2>1. 0 \in Inodes /\ 0 \in Pointers
    BY DEF Inodes, Pointers
  <2>2. QED BY <2>1 DEF Init, Formatted, NoInode
<1>5. 0 < MaxSize
  <2>1. \A n \in Nat : 0 < n => 0 < n * BlockSize
    OBVIOUS
  <2>2. Direct + BlockSize \in Nat /\ 0 < Direct + BlockSize
    OBVIOUS
  <2>3. QED BY <2>1, <2>2, Zenon DEF MaxSize
<1>6. Cursors
  BY <1>1 DEF Cursors
<1>7. Untouched
  BY <1>3, <1>4 DEF Untouched, NoInode
<1>8. Bounded
  BY <1>2, <1>5 DEF Bounded
<1>9. QED BY <1>6, <1>7, <1>8 DEF Positioned

LEMMA PositionedSame ==
  ASSUME Positioned, UNCHANGED <<table, fdt>> PROVE Positioned'
BY DEF Positioned, Cursors, Untouched, Bounded

(* The pointers of one descriptor are moved, inside its file.              *)
LEMMA PositionedMove ==
  ASSUME Typed, Positioned, table' = table, NEW k \in Inodes, HasInode(k),
         NEW d, fdt' = [fdt EXCEPT ![k] = d], d.inode = fdt[k].inode,
         d.wptr <= table[fdt[k].inode].size, d.rwptr <= table[fdt[k].inode].size
  PROVE  Positioned'
<1>1. fdt[k].inode \in Inodes
  BY HasInodeType
<1>2. DOMAIN fdt = Inodes
  BY DEF Typed
<1>3. \A l \in Inodes : fdt'[l] = IF l = k THEN d ELSE fdt[l]
  BY <1>2
<1>4. Cursors'
  BY <1>1, <1>3 DEF Positioned, Cursors
<1>5. QED BY <1>4 DEF Positioned, Untouched, Bounded

LEMMA PositionedOpen ==
  ASSUME Typed, Positioned, DirInv, NEW name \in Names, FopenExisting(name)
  PROVE  Positioned'
<1> DEFINE found == {i \in Entries(name) : Descriptors(root[i].inoteindex) # {}}
           j == root[Min(found)].inoteindex
           k == Min(Descriptors(j))
<1>1. table' = table
  BY DEF FopenExisting
<1>2. \/ fdt' = fdt
      \/ /\ found # {}
         /\ fdt' = [fdt EXCEPT ![k].open = 1, ![k].rwptr = 0,
                               ![k].wptr = table[j].size]
  BY DEF FopenExisting
<1>3. CASE fdt' = fdt
  BY <1>1, <1>3, PositionedSame
<1>4. CASE /\ found # {}
           /\ fdt' = [fdt EXCEPT ![k].open = 1, ![k].rwptr = 0,
                                 ![k].wptr = table[j].size]
  <2>1. Min(found) \in found
    <3>1. found \subseteq Inodes
      BY DEF Entries
    <3> HIDE DEF found
    <3>2. QED BY <1>4, <3>1, MinIsFirst
  <2>2. Min(found) \in Listed /\ Descriptors(j) # {}
    <3>1. name # NoName
      BY SfsAssumption
    <3>2. QED BY <2>1, <3>1 DEF Entries, Listed
  <2>3. j \in Inodes
    BY <2>2 DEF Typed
  <2>4. k \in Inodes /\ fdt[k].inode = j
    <3>1. Descriptors(j) \subseteq Inodes
      BY DEF Descriptors
    <3>2. k \in Descriptors(j)
      BY <2>2, <3>1, MinIsFirst
    <3>3. QED BY <3>2 DEF Descriptors
  <2>5. table[j].size \in Nat
    BY <2>3 DEF Typed, InodeRecords
  <2>6. fdt \in [Inodes -> [inode : 0 .. Free, rwptr : Nat, wptr : Nat,
                            open : {0, 1}]]
    BY DEF Typed
  <2> HIDE DEF j, k
  <2>7. \A l \in Inodes :
          /\ fdt'[l].inode = fdt[l].inode
          /\ l # k => fdt'[l] = fdt[l]
          /\ l = k => fdt'[l].rwptr = 0 /\ fdt'[l].wptr = table[j].size
    BY <1>4, <2>4, <2>6
  <2>8. Cursors'
    BY <1>1, <2>3, <2>4, <2>5, <2>7 DEF Positioned, Cursors
  <2>9. QED BY <1>1, <2>8 DEF Positioned, Untouched, Bounded
<1>5. QED BY <1>2, <1>3, <1>4

(* sfs_fopen() of a new name takes an inode that nothing was written to.   *)
LEMMA FopenNewIs ==
  ASSUME Typed, DirInv, NEW name \in Names, FopenNew(name)
  PROVE  \/ /\ table' = table /\ root' = root
            /\ content' = [i \in Inodes |-> content[i]]
            /\ wiped' = [i \in Inodes |-> wiped[i]]
            /\ \/ fdt' = fdt
               \/ \E d \in Inodes : fdt' = [fdt EXCEPT ![d] =
                    [inode |-> NumInodes, rwptr |-> 0, wptr |-> 0, open |-> 1]]
         \/ \E e \in Inodes, j \in Inodes, d \in Inodes :
              /\ table[j].used = 0 /\ j \notin Files
              /\ root[e].filename = NoName
              /\ table' = [table EXCEPT ![j] =
                             [table[j] EXCEPT !.used = 1, !.size = 0]]
              /\ root' = [root EXCEPT ![e] =
                            [filename |-> name, inoteindex |-> j]]
              /\ fdt' = [fdt EXCEPT ![d] =
                           [inode |-> j, rwptr |-> 0, wptr |-> 0, open |-> 1]]
              /\ content' = [i \in Inodes |-> IF i = j THEN Empty ELSE content[i]]
              /\ wiped' = [i \in Inodes |-> IF i = j THEN {} ELSE wiped[i]]
<1> DEFINE created == Created(name)
           dd == Min(Descriptors(Free))
<1>1. /\ table' = [i \in Inodes |->
                     IF i \in Range(created)
                       THEN [table[i] EXCEPT !.used = 1, !.size = 0]
                       ELSE table[i]]
      /\ root' = [i \in Inodes |->
                    IF i \in DOMAIN created
                      THEN [filename |-> name, inoteindex |-> created[i]]
                      ELSE root[i]]
      /\ fdt' = IF Descriptors(Free) = {} THEN fdt
                ELSE [fdt EXCEPT ![dd] =
                        [inode |-> IF created = Empty THEN NumInodes
                                   ELSE created[Min(DOMAIN created)],
                         rwptr |-> 0, wptr |-> 0, open |-> 1]]
      /\ content' = [i \in Inodes |->
                       IF i \in Range(created) THEN Empty ELSE content[i]]
      /\ wiped' = [i \in Inodes |->
                     IF i \in Range(created) THEN {} ELSE wiped[i]]
  BY DEF FopenNew
<1>2. /\ DOMAIN table = Inodes /\ table = [i \in Inodes |-> table[i]]
      /\ DOMAIN root = Inodes /\ root = [i \in Inodes |-> root[i]]
  BY DEF Typed
<1>3. Descriptors(Free) # {} => dd \in Inodes
  <2>1. Descriptors(Free) \subseteq Inodes
    BY DEF Descriptors
  <2>2. QED BY <2>1, MinIsFirst
<1>4. Entries(NoName) # {}
  BY DEF FopenNew
<1> HIDE DEF created, dd
<1>5. CASE Unused = {} /\ DOMAIN created = {} /\ created = Empty
  <2>1. Range(created) = {}
    BY <1>5 DEF Range
  <2>2. table' = table /\ root' = root
    BY <1>1, <1>2, <1>5, <2>1
  <2>3. /\ content' = [i \in Inodes |-> content[i]]
        /\ wiped' = [i \in Inodes |-> wiped[i]]
    BY <1>1, <2>1
  <2>4. \/ fdt' = fdt
        \/ \E d \in Inodes : fdt' = [fdt EXCEPT ![d] =
             [inode |-> NumInodes, rwptr |-> 0, wptr |-> 0, open |-> 1]]
    BY <1>1, <1>3, <1>5
  <2>5. QED BY <2>2, <2>3, <2>4
<1>6. ASSUME Descriptors(Free) # {}, NEW e \in Entries(NoName),
             NEW j \in Unused, created = [i \in {e} |-> j]
      PROVE  /\ e \in Inodes /\ j \in Inodes /\ dd \in Inodes
             /\ table[j].used = 0 /\ j \notin Files
             /\ root[e].filename = NoName
             /\ table' = [table EXCEPT ![j] =
                            [table[j] EXCEPT !.used = 1, !.size = 0]]
             /\ root' = [root EXCEPT ![e] =
                           [filename |-> name, inoteindex |-> j]]
             /\ fdt' = [fdt EXCEPT ![dd] =
                          [inode |-> j, rwptr |-> 0, wptr |-> 0, open |-> 1]]
             /\ content' = [i \in Inodes |-> IF i = j THEN Empty ELSE content[i]]
             /\ wiped' = [i \in Inodes |-> IF i = j THEN {} ELSE wiped[i]]
  <2>1. e \in Inodes /\ root[e].filename = NoName /\ j \in Inodes
        /\ table[j].used = 0
    BY DEF Entries, Unused
  <2>2. j \notin Files
    BY <2>1 DEF DirInv, Linked, Files
  <2>3. /\ DOMAIN created = {e} /\ Range(created) = {j}
        /\ created # Empty /\ created[Min({e})] = j /\ created[e] = j
    <3>1. DOMAIN created = {e} /\ created[e] = j
      BY <1>6
    <3>2. DOMAIN Empty = {}
      BY DEF Empty
    <3>3. Min({e}) = e
      BY <2>1, MinIsFirst
    <3>4. QED BY <3>1, <3>2, <3>3 DEF Range
  <2>4. table' = [table EXCEPT ![j] =
                    [table[j] EXCEPT !.used = 1, !.size = 0]]
    BY <1>1, <1>2, <2>1, <2>3
  <2>5. root' = [root EXCEPT ![e] = [filename |-> name, inoteindex |-> j]]
    BY <1>1, <1>2, <2>1, <2>3
  <2>6. fdt' = [fdt EXCEPT ![dd] =
                  [inode |-> j, rwptr |-> 0, wptr |-> 0, open |-> 1]]
    BY <1>1, <1>6, <2>3
  <2>7. /\ content' = [i \in Inodes |-> IF i = j THEN Empty ELSE content[i]]
        /\ wiped' = [i \in Inodes |-> IF i = j THEN {} ELSE wiped[i]]
    BY <1>1, <2>3
  <2>8. QED BY <1>3, <1>6, <2>1, <2>2, <2>4, <2>5, <2>6, <2>7
<1>7. \/ Unused = {} /\ DOMAIN created = {} /\ created = Empty
      \/ /\ Descriptors(Free) # {}
         /\ \E e \in Entries(NoName), j \in Unused : created = [i \in {e} |-> j]
  BY <1>4, CreatedIs DEF created
<1>8. CASE Unused = {} /\ DOMAIN created = {} /\ created = Empty
  BY <1>5, <1>8
<1>9. CASE /\ Descriptors(Free) # {}
           /\ \E e \in Entries(NoName), j \in Unused : created = [i \in {e} |-> j]
  <2>1. PICK e \in Entries(NoName), j \in Unused : created = [i \in {e} |-> j]
    BY <1>9
  <2>2. /\ e \in Inodes /\ j \in Inodes /\ dd \in Inodes
        /\ table[j].used = 0 /\ j \notin Files
        /\ root[e].filename = NoName
        /\ table' = [table EXCEPT ![j] =
                       [table[j] EXCEPT !.used = 1, !.size = 0]]
        /\ root' = [root EXCEPT ![e] =
                      [filename |-> name, inoteindex |-> j]]
        /\ fdt' = [fdt EXCEPT ![dd] =
                     [inode |-> j, rwptr |-> 0, wptr |-> 0, open |-> 1]]
        /\ content' = [i \in Inodes |-> IF i = j THEN Empty ELSE content[i]]
        /\ wiped' = [i \in Inodes |-> IF i = j THEN {} ELSE wiped[i]]
    BY <1>6, <1>9, <2>1
  <2>3. QED BY <2>2
<1>10. QED BY <1>7, <1>8, <1>9

LEMMA PositionedNew ==
  ASSUME Typed, DirInv, Positioned, NEW name \in Names, FopenNew(name)
  PROVE  Positioned'
<1>1. /\ fdt \in [Inodes -> [inode : 0 .. Free, rwptr : Nat, wptr : Nat,
                             open : {0, 1}]]
      /\ table \in [Inodes -> InodeRecords]
  BY DEF Typed
<1>2. NumInodes \notin Inodes
  BY DEF Inodes
<1>3. CASE table' = table /\ fdt' = fdt
  BY <1>3, PositionedSame
<1>4. ASSUME table' = table, NEW d \in Inodes,
             fdt' = [fdt EXCEPT ![d] = [inode |-> NumInodes, rwptr |-> 0,
                                        wptr |-> 0, open |-> 1]]
      PROVE  Positioned'
  <2>1. \A l \in Inodes :
          /\ l # d => fdt'[l] = fdt[l]
          /\ l = d => /\ fdt'[l].inode = NumInodes /\ fdt'[l].wptr = 0
                      /\ fdt'[l].rwptr = 0
    BY <1>1, <1>4
  <2>2. Cursors'
    BY <1>2, <1>4, <2>1 DEF Positioned, Cursors
  <2>3. QED BY <1>4, <2>2 DEF Positioned, Untouched, Bounded
<1>5. ASSUME NEW j \in Inodes, NEW d \in Inodes, table[j].used = 0,
             table' = [table EXCEPT ![j] =
                         [table[j] EXCEPT !.used = 1, !.size = 0]],
             fdt' = [fdt EXCEPT ![d] = [inode |-> j, rwptr |-> 0,
                                        wptr |-> 0, open |-> 1]]
      PROVE  Positioned'
  <2>1. table[j].size = 0
    BY <1>5 DEF Positioned, Untouched
  <2>2. \A i \in Inodes :
          /\ i # j => table'[i] = table[i]
          /\ table'[i].size = table[i].size
          /\ table'[i].data_ptrs = table[i].data_ptrs
          /\ table'[i].indirectptr = table[i].indirectptr
    <3>1. table[j] \in InodeRecords
      BY <1>1
    <3>2. QED BY <1>1, <1>5, <2>1, <3>1 DEF InodeRecords
  <2>3. \A l \in Inodes :
          /\ l # d => fdt'[l] = fdt[l]
          /\ l = d => /\ fdt'[l].inode = j /\ fdt'[l].wptr = 0
                      /\ fdt'[l].rwptr = 0
    BY <1>1, <1>5
  <2>4. Cursors'
    <3>1. ASSUME NEW l \in Inodes, l # d
          PROVE  IF fdt'[l].inode \in Inodes
                   THEN /\ fdt'[l].wptr <= table'[fdt'[l].inode].size
                        /\ fdt'[l].rwptr <= table'[fdt'[l].inode].size
                   ELSE fdt'[l].wptr = 0 /\ fdt'[l].rwptr = 0
      BY <2>2, <2>3, <3>1 DEF Positioned, Cursors
    <3>2. /\ fdt'[d].inode = j /\ fdt'[d].wptr <= table'[j].size
          /\ fdt'[d].rwptr <= table'[j].size
      BY <2>1, <2>2, <2>3
    <3>3. QED BY <3>1, <3>2 DEF Cursors
  <2>5. Untouched'
    <3>1. \A i \in Inodes :
            (table'[i].used = 0 \/ table'[i].data_ptrs[0] = 0) =>
              (table[i].used = 0 \/ table[i].data_ptrs[0] = 0)
      BY <1>5, <2>2
    <3>2. QED BY <2>2, <3>1 DEF Positioned, Untouched
  <2>6. Bounded'
    BY <2>2 DEF Positioned, Bounded, MaxSize
  <2>7. QED BY <2>4, <2>5, <2>6 DEF Positioned
<1>6. QED BY <1>3, <1>4, <1>5, FopenNewIs

LEMMA PositionedFread ==
  ASSUME Typed, Positioned, NEW k \in Inodes, NEW length \in Lengths,
         Fread(k, length)
  PROVE  Positioned'
<1> DEFINE size == table[fdt[k].inode].size
           from == fdt[k].rwptr
           read == IF from + length > size THEN size - from ELSE length
<1>1. /\ fdt[k].inode \in Inodes /\ from \in Nat /\ fdt[k].wptr \in Nat
      /\ HasInode(k)
  BY HasInodeType DEF Fread
<1>2. /\ size \in Nat /\ length \in Nat /\ from <= size /\ fdt[k].wptr <= size
  BY <1>1, SfsAssumption DEF Typed, InodeRecords, Positioned, Cursors
<1>3. from + read <= size
  BY <1>1, <1>2
<1>4. \/ UNCHANGED <<table, fdt>>
      \/ /\ table' = table
         /\ fdt' = [fdt EXCEPT ![k].rwptr = from + read]
  BY DEF Fread, GiveUp, memory
<1>5. CASE /\ table' = table
           /\ fdt' = [fdt EXCEPT ![k].rwptr = from + read]
  <2> DEFINE d == [fdt[k] EXCEPT !.rwptr = from + read]
  <2>1. fdt[k] \in [inode : 0 .. Free, rwptr : Nat, wptr : Nat, open : {0, 1}]
    BY DEF Typed
  <2> HIDE DEF from, read, size
  <2>2. d.inode = fdt[k].inode /\ d.wptr <= size /\ d.rwptr <= size
    BY <1>2, <1>3, <2>1
  <2>3. fdt' = [fdt EXCEPT ![k] = d]
    BY <1>5
  <2> HIDE DEF d
  <2>4. QED BY <1>1, <1>5, <2>2, <2>3, PositionedMove DEF size
<1>6. QED BY <1>4, <1>5, PositionedSame

LEMMA PositionedFseek ==
  ASSUME Typed, Positioned, NEW k \in Inodes, NEW loc \in Positions,
         Fseek(k, loc)
  PROVE  Positioned'
<1> DEFINE size == table[fdt[k].inode].size
           to == Min({loc, size})
           d == [fdt[k] EXCEPT !.wptr = to, !.rwptr = to]
<1>1. fdt[k].inode \in Inodes /\ HasInode(k)
  BY HasInodeType DEF Fseek
<1>2. to <= size
  <2>1. size \in Nat /\ loc \in Nat
    BY <1>1, SfsAssumption DEF Typed, InodeRecords
  <2>2. size \in Int /\ loc \in Int
    BY <2>1
  <2> HIDE DEF size
  <2>3. to = IF loc <= size THEN loc ELSE size
    BY <2>2, MinOfTwo
  <2>4. QED BY <2>2, <2>3
<1>3. fdt' = [fdt EXCEPT ![k] = d] /\ table' = table
  BY DEF Fseek
<1>4. fdt[k] \in [inode : 0 .. Free, rwptr : Nat, wptr : Nat, open : {0, 1}]
  BY DEF Typed
<1> HIDE DEF to, size
<1>5. d.inode = fdt[k].inode /\ d.wptr <= size /\ d.rwptr <= size
  BY <1>2, <1>4
<1> HIDE DEF d
<1>6. QED BY <1>1, <1>3, <1>5, PositionedMove DEF size

(* The write that sfs_fwrite() does on a descriptor.                       *)
LEMMA FwritePlain ==
  ASSUME Typed, DirInv, Positioned, NEW k \in Inodes, HasInode(k),
         NEW length \in Lengths
  PROVE  LET inode == fdt[k].inode
             w     == WriteOf(inode, fdt[k].wptr, length)
         IN /\ Plain(w)
            /\ inode \in Inodes /\ inode \in Files
            /\ w.isfirst = (table[inode].data_ptrs[0] = 0)
            /\ w.pointer = fdt[k].wptr /\ w.length = length
            /\ w.pointer <= table[inode].size
            /\ w.isfirst => /\ table[inode].size = 0
                            /\ table[inode].indirectptr = 0
                            /\ \A p \in Pointers : table[inode].data_ptrs[p] = 0
<1> DEFINE inode == fdt[k].inode
           w     == WriteOf(inode, fdt[k].wptr, length)
<1>1. inode \in Inodes /\ inode \in Files /\ fdt[k].wptr \in Nat
  BY HasInodeType, HasInodeIsFile
<1>2. /\ table \in [Inodes -> InodeRecords] /\ table[inode].size \in Nat
      /\ length \in Nat \ {0}
  BY <1>1, SfsAssumption DEF Typed, InodeRecords
<1>3. fdt[k].wptr <= table[inode].size
  BY <1>1 DEF Positioned, Cursors
<1>4. table[inode].data_ptrs[0] = 0 =>
        /\ table[inode].size = 0
        /\ table[inode].indirectptr = 0
        /\ \A p \in Pointers : table[inode].data_ptrs[p] = 0
  BY <1>1 DEF Positioned, Untouched
<1>5. table[inode].data_ptrs[0] = 0 => fdt[k].wptr = 0
  BY <1>1, <1>3, <1>4
<1>6. Plain(w)
  BY <1>1, <1>2, <1>5, WriteIsPlain
<1>7. /\ w.isfirst = (table[inode].data_ptrs[0] = 0)
      /\ w.pointer = fdt[k].wptr /\ w.length = length
  BY DEF WriteOf
<1> HIDE DEF w
<1>8. QED BY <1>1, <1>3, <1>4, <1>6, <1>7 DEF w

(* What a write leaves in the inode and in the descriptor.                 *)
LEMMA StoredSize ==
  ASSUME Typed, NEW k \in Inodes, HasInode(k), NEW w, NEW s,
         StoreWrite(k, w, s)
  PROVE  table'[fdt[k].inode].size =
           IF w.isfirst THEN table[fdt[k].inode].size + s.count
           ELSE Max({table[fdt[k].inode].size, fdt[k].wptr + w.length})
<1> DEFINE inode   == fdt[k].inode
           newsize == IF w.isfirst THEN table[inode].size + s.count
                      ELSE Max({table[inode].size, fdt[k].wptr + w.length})
           ptrs    == [p \in Pointers |-> s.slots[p]]
<1>1. inode \in Inodes
  BY HasInodeType
<1>2. table' = [table EXCEPT
                  ![inode].data_ptrs = ptrs,
                  ![inode].indirectptr = s.indirect,
                  ![inode].size = newsize]
  BY DEF StoreWrite
<1>3. table \in [Inodes -> InodeRecords]
  BY DEF Typed
<1> HIDE DEF newsize, ptrs, inode
<1>4. table'[inode].size = newsize
  BY <1>1, <1>2, <1>3 DEF InodeRecords
<1>5. QED BY <1>4 DEF inode, newsize

LEMMA StoredTable ==
  ASSUME Typed, NEW k \in Inodes, HasInode(k), NEW w, NEW s,
         StoreWrite(k, w, s)
  PROVE  /\ table'[fdt[k].inode].data_ptrs = [p \in Pointers |-> s.slots[p]]
         /\ table'[fdt[k].inode].indirectptr = s.indirect
         /\ table'[fdt[k].inode].used = table[fdt[k].inode].used
         /\ \A i \in Inodes \ {fdt[k].inode} : table'[i] = table[i]
<1> DEFINE inode == fdt[k].inode
           ptrs  == [p \in Pointers |-> s.slots[p]]
<1>1. inode \in Inodes
  BY HasInodeType
<1>2. PICK newsize : table' = [table EXCEPT ![inode].data_ptrs = ptrs,
                                            ![inode].indirectptr = s.indirect,
                                            ![inode].size = newsize]
  BY DEF StoreWrite
<1>3. table \in [Inodes -> InodeRecords]
  BY DEF Typed
<1> HIDE DEF ptrs, inode
<1>4. /\ table'[inode].data_ptrs = ptrs
      /\ table'[inode].indirectptr = s.indirect
      /\ table'[inode].used = table[inode].used
      /\ \A i \in Inodes \ {inode} : table'[i] = table[i]
  <2>1. table' = [table EXCEPT ![inode] =
          [table[inode] EXCEPT !.data_ptrs = ptrs, !.indirectptr = s.indirect,
                               !.size = newsize]]
    BY <1>1, <1>2, <1>3
  <2>2. table[inode] \in InodeRecords
    BY <1>1, <1>3
  <2>3. QED BY <1>1, <1>3, <2>1, <2>2 DEF InodeRecords
<1>5. QED BY <1>4 DEF inode, ptrs

LEMMA StoredFdt ==
  ASSUME Typed, NEW k \in Inodes, HasInode(k), NEW w, NEW s,
         StoreWrite(k, w, s)
  PROVE  /\ \A l \in Inodes : fdt'[l].inode = fdt[l].inode
         /\ \A l \in Inodes \ {k} : fdt'[l] = fdt[l]
         /\ fdt'[k].wptr = fdt[k].wptr + s.count
         /\ fdt'[k].rwptr = fdt[k].rwptr
<1>1. fdt' = [fdt EXCEPT ![k].wptr = fdt[k].wptr + s.count]
  BY DEF StoreWrite
<1>2. fdt \in [Inodes -> [inode : 0 .. Free, rwptr : Nat, wptr : Nat,
                          open : {0, 1}]]
  BY DEF Typed
<1>3. QED BY <1>1, <1>2

(* The size after a write: that of the file before, or up to its end.      *)
LEMMA NewSize ==
  ASSUME Typed, DirInv, Positioned, NEW k \in Inodes, HasInode(k),
         NEW length \in Lengths, NEW w,
         w = WriteOf(fdt[k].inode, fdt[k].wptr, length), w.last \in Slots,
         NEW s \in States, StoreWrite(k, w, s),
         Weak(w, table[fdt[k].inode].data_ptrs, s, w.last)
  PROVE  LET inode == fdt[k].inode
         IN /\ s.count \in 0 .. length
            /\ w.isfirst => table'[inode].size = s.count
            /\ ~w.isfirst => table'[inode].size =
                 IF table[inode].size <= w.pointer + length
                   THEN w.pointer + length ELSE table[inode].size
            /\ table'[inode].size \in Nat
            /\ table[inode].size \in Nat
            /\ table[inode].size <= table'[inode].size
            /\ w.pointer + s.count <= table'[inode].size
            /\ table'[inode].size < MaxSize
<1> DEFINE inode == fdt[k].inode
           size  == table[inode].size
           new   == table'[inode].size
<1>1. /\ Plain(w) /\ inode \in Inodes
      /\ w.pointer = fdt[k].wptr /\ w.length = length /\ w.pointer <= size
      /\ w.isfirst => size = 0
  BY FwritePlain
<1>2. /\ w.pointer \in Nat /\ length \in Nat /\ w.last \in Nat
      /\ w.last * BlockSize \in Nat
      /\ w.pointer + w.length < w.last * BlockSize + BlockSize
  BY <1>1, PlainBlocks
<1>3. size \in Nat /\ s.count \in Nat /\ size < MaxSize
  BY <1>1 DEF Typed, InodeRecords, States, Positioned, Bounded
<1>4. s.count \in 0 .. length
  <2>1. Reached(w, (w.last + 1) * BlockSize) = length
    BY <1>1, ReachedEnds
  <2>2. QED BY <1>2, <1>3, <2>1 DEF Weak
<1>5. w.isfirst => w.pointer = 0
  BY <1>1 DEF Plain
<1>6. new = IF w.isfirst THEN size + s.count
            ELSE Max({size, fdt[k].wptr + w.length})
  BY StoredSize
<1> HIDE DEF new, size
<1>7. Max({size, fdt[k].wptr + w.length}) =
        IF size <= w.pointer + length THEN w.pointer + length ELSE size
  <2>1. size \in Int /\ w.pointer + length \in Int
    BY <1>2, <1>3
  <2>2. Max({size, w.pointer + length}) =
          IF size <= w.pointer + length THEN w.pointer + length ELSE size
    BY <2>1, MinOfTwo
  <2>3. QED BY <1>1, <2>2
<1>8. w.pointer + length < MaxSize
  <2>1. w.last + 1 \in Nat /\ Direct + BlockSize \in Nat
        /\ w.last + 1 <= Direct + BlockSize
    BY <1>2 DEF Slots
  <2>2. (w.last + 1) * BlockSize <= (Direct + BlockSize) * BlockSize
    BY <2>1, TimesBlock
  <2>3. (w.last + 1) * BlockSize = w.last * BlockSize + BlockSize
    BY <1>2, TimesBlock
  <2>4. MaxSize \in Int
    BY <2>1 DEF MaxSize
  <2>5. w.last * BlockSize + BlockSize <= MaxSize
    BY <2>2, <2>3 DEF MaxSize
  <2>6. w.pointer + length < w.last * BlockSize + BlockSize
    BY <1>1, <1>2
  <2>7. QED BY <1>2, <2>4, <2>5, <2>6
<1>9. MaxSize \in Int
  BY DEF MaxSize
<1>10. CASE w.isfirst
  <2>1. new = s.count /\ w.pointer = 0 /\ size = 0
    BY <1>1, <1>3, <1>5, <1>6, <1>10
  <2>2. QED BY <1>2, <1>3, <1>4, <1>8, <1>9, <1>10, <2>1 DEF new, size
<1>11. CASE ~w.isfirst
  <2>1. new = IF size <= w.pointer + length THEN w.pointer + length ELSE size
    BY <1>6, <1>7, <1>11
  <2>2. /\ new \in Nat /\ size <= new /\ w.pointer + s.count <= new
        /\ new < MaxSize
    BY <1>2, <1>3, <1>4, <1>8, <1>9, <2>1
  <2>3. QED BY <1>3, <1>4, <1>11, <2>1, <2>2 DEF new, size
<1>12. QED BY <1>10, <1>11

LEMMA PositionedFwrite ==
  ASSUME Typed, DirInv, Positioned, NEW k \in Inodes, NEW length \in Lengths,
         Fwrite(k, length)
  PROVE  Positioned'
<1> DEFINE inode == fdt[k].inode
           w     == WriteOf(inode, fdt[k].wptr, length)
           f     == table[inode].data_ptrs
<1>1. /\ HasInode(k) /\ inode \in Inodes /\ inode \in Files /\ Plain(w)
      /\ w.pointer = fdt[k].wptr /\ w.pointer <= table[inode].size
      /\ w.isfirst = (f[0] = 0)
  BY FwritePlain DEF Fwrite
<1>2. CASE GiveUp
  BY <1>2, PositionedSame DEF GiveUp, memory
<1>3. ASSUME w.last \in Slots, NEW unset \in [Slots -> Nat],
             Written(w, Before(inode), unset) \in States,
             StoreWrite(k, w, Written(w, Before(inode), unset))
      PROVE  Positioned'
  <2> DEFINE s == Written(w, Before(inode), unset)
  <2>1. Weak(w, f, s, w.last)
    BY <1>1, <1>3, WrittenWeak
  <2> HIDE DEF s
  <2>2. s \in States /\ StoreWrite(k, w, s)
    BY <1>3 DEF s
  <2>3. /\ table'[inode].data_ptrs = [p \in Pointers |-> s.slots[p]]
        /\ table'[inode].used = table[inode].used
        /\ \A i \in Inodes \ {inode} : table'[i] = table[i]
    BY <1>1, <2>2, StoredTable
  <2>4. /\ \A l \in Inodes : fdt'[l].inode = fdt[l].inode
        /\ \A l \in Inodes \ {k} : fdt'[l] = fdt[l]
        /\ fdt'[k].wptr = fdt[k].wptr + s.count
        /\ fdt'[k].rwptr = fdt[k].rwptr
    BY <1>1, <2>2, StoredFdt
  <2>5. /\ table[inode].size \in Nat /\ table'[inode].size \in Nat
        /\ table[inode].size <= table'[inode].size
        /\ w.pointer + s.count <= table'[inode].size
        /\ table'[inode].size < MaxSize
    BY <1>1, <1>3, <2>1, <2>2, NewSize
  <2>6. Bounded'
    <3>1. ASSUME NEW i \in Inodes PROVE table'[i].size < MaxSize
      BY <2>3, <2>5 DEF Positioned, Bounded
    <3>2. QED BY <3>1 DEF Bounded, MaxSize
  <2>7. Untouched'
    <3>1. table[inode].used = 1
      BY <1>1 DEF DirInv, Linked, Files
    <3>2. table'[inode].data_ptrs[0] # 0
      <4>1. w.last \in Nat /\ 0 \in Pointers
        BY <1>1, PlainBlocks DEF Pointers
      <4>2. table'[inode].data_ptrs[0] = s.slots[0]
        BY <2>3, <4>1
      <4>3. w.isfirst => s.slots[0] \in Allocated
        BY <2>1, <4>1 DEF Weak
      <4>4. s.slots[0] = f[0] \/ s.slots[0] \in Allocated
        BY <2>1, <4>1 DEF Weak
      <4>5. 0 \notin Allocated
        BY DEF Allocated
      <4>6. QED BY <1>1, <4>2, <4>3, <4>4, <4>5
    <3>3. ASSUME NEW i \in Inodes,
                 table'[i].used = 0 \/ table'[i].data_ptrs[0] = 0
          PROVE  /\ table'[i].size = 0 /\ table'[i].indirectptr = 0
                 /\ \A p \in Pointers : table'[i].data_ptrs[p] = 0
      <4>1. i # inode
        BY <2>3, <3>1, <3>2, <3>3
      <4>2. table'[i] = table[i]
        BY <2>3, <4>1
      <4>3. QED BY <3>3, <4>2 DEF Positioned, Untouched
    <3>4. QED BY <3>3 DEF Untouched
  <2>8. Cursors'
    <3>1. /\ fdt'[k].inode = inode
          /\ fdt'[k].wptr <= table'[inode].size
          /\ fdt'[k].rwptr <= table'[inode].size
      <4>1. fdt[k].rwptr \in Nat /\ fdt[k].rwptr <= table[inode].size
        BY <1>1, HasInodeType DEF Positioned, Cursors
      <4>2. QED BY <1>1, <2>4, <2>5, <4>1
    <3>2. ASSUME NEW l \in Inodes \ {k}
          PROVE  IF fdt'[l].inode \in Inodes
                   THEN /\ fdt'[l].wptr <= table'[fdt'[l].inode].size
                        /\ fdt'[l].rwptr <= table'[fdt'[l].inode].size
                   ELSE fdt'[l].wptr = 0 /\ fdt'[l].rwptr = 0
      <4>1. fdt[l].inode # inode
        BY <1>1 DEF DirInv, Linked
      <4>2. fdt'[l] = fdt[l]
        BY <2>4
      <4>3. fdt[l].inode \in Inodes => table'[fdt[l].inode] = table[fdt[l].inode]
        BY <2>3, <4>1
      <4>4. QED BY <4>2, <4>3 DEF Positioned, Cursors
    <3>3. QED BY <1>1, <3>1, <3>2 DEF Cursors
  <2>9. QED BY <2>6, <2>7, <2>8 DEF Positioned
<1>4. \/ GiveUp
      \/ /\ w.last \in Slots
         /\ \E unset \in OnStack(w.last >= Direct) :
              /\ unset \in [Slots -> Nat]
              /\ Written(w, Before(inode), unset) \in States
              /\ StoreWrite(k, w, Written(w, Before(inode), unset))
  BY FwriteIs
<1> HIDE DEF w, inode
<1>5. QED BY <1>2, <1>3, <1>4

LEMMA PositionedStep ==
  Typed /\ DirInv /\ Positioned /\ [FileCall]_vars => Positioned'
<1> SUFFICES ASSUME Typed, DirInv, Positioned, [FileCall]_vars PROVE Positioned'
  OBVIOUS
<1>1. CASE UNCHANGED vars
  BY <1>1, PositionedSame DEF vars, memory
<1>2. ASSUME NEW name \in Names, FopenExisting(name) PROVE Positioned'
  BY <1>2, PositionedOpen
<1>3. ASSUME NEW name \in Names, FopenNew(name) PROVE Positioned'
  BY <1>3, PositionedNew
<1>4. ASSUME NEW k \in Inodes, Fclose(k) PROVE Positioned'
  <2>1. \A l \in Inodes : /\ fdt'[l].inode = fdt[l].inode
                          /\ fdt'[l].wptr = fdt[l].wptr
                          /\ fdt'[l].rwptr = fdt[l].rwptr
    <3>1. fdt' = [fdt EXCEPT ![k].open = 0]
      BY <1>4 DEF Fclose
    <3>2. fdt \in [Inodes -> [inode : 0 .. Free, rwptr : Nat, wptr : Nat,
                              open : {0, 1}]]
      BY DEF Typed
    <3>3. QED BY <3>1, <3>2
  <2>2. table' = table
    BY <1>4 DEF Fclose
  <2>3. QED BY <2>1, <2>2 DEF Positioned, Cursors, Untouched, Bounded
<1>5. ASSUME NEW k \in Inodes, FreadClosed(k) \/ UseWithoutInode(k)
      PROVE  Positioned'
  BY <1>5, PositionedSame DEF FreadClosed, UseWithoutInode, GiveUp, memory
<1>6. ASSUME NEW k \in Inodes, NEW length \in Lengths, Fread(k, length)
      PROVE  Positioned'
  BY <1>6, PositionedFread
<1>7. ASSUME NEW k \in Inodes, NEW length \in Lengths, Fwrite(k, length)
      PROVE  Positioned'
  BY <1>7, PositionedFwrite
<1>8. ASSUME NEW k \in Inodes, NEW loc \in Positions, Fseek(k, loc)
      PROVE  Positioned'
  BY <1>8, PositionedFseek
<1>9. QED
  BY <1>1, <1>2, <1>3, <1>4, <1>5, <1>6, <1>7, <1>8 DEF FileCall

(* What holds wherever files are opened, read, written and sought.         *)
Sound == /\ Typed /\ SavedFiles /\ DirInv /\ Positioned
         /\ nextfile \in 0 .. NumInodes

LEMMA SoundInit == Init => Sound
<1> SUFFICES ASSUME Init PROVE Sound
  OBVIOUS
<1>1. SavedFiles
  BY DEF Init, SavedFiles
<1>2. nextfile \in 0 .. NumInodes
  BY DEF Init
<1>3. QED BY <1>1, <1>2, TypedInit, DirInvInit, PositionedInit DEF Sound

LEMMA SoundStep == Sound /\ [FileCall]_vars => Sound'
<1> SUFFICES ASSUME Sound, [FileCall]_vars PROVE Sound'
  OBVIOUS
<1>1. [ReopenNext]_vars /\ [RemoveNext]_vars
  BY DEF ReopenNext, RemoveNext
<1>2. Typed' /\ SavedFiles' /\ DirInv' /\ Positioned'
  BY <1>1, TypedStep, SavedStep, DirInvStep, PositionedStep DEF Sound
<1>3. nextfile' = nextfile
  <2>1. \A name \in Names : FopenExisting(name) \/ FopenNew(name)
                              => nextfile' = nextfile
    BY DEF FopenExisting, FopenNew
  <2>2. \A k \in Inodes : Fclose(k) \/ FreadClosed(k) \/ UseWithoutInode(k)
                             => nextfile' = nextfile
    BY DEF Fclose, FreadClosed, UseWithoutInode, GiveUp
  <2>3. \A k \in Inodes, length \in Lengths :
          Fread(k, length) => nextfile' = nextfile
    <3>1. ASSUME NEW k, NEW length, Fread(k, length)
          PROVE  nextfile' = nextfile
      BY <3>1 DEF Fread, GiveUp
    <3>2. QED BY <3>1
  <2>4. \A k \in Inodes, length \in Lengths :
          Fwrite(k, length) => nextfile' = nextfile
    <3>1. ASSUME NEW k, NEW w, NEW s, StoreWrite(k, w, s)
          PROVE  nextfile' = nextfile
      BY <3>1 DEF StoreWrite
    <3>2. GiveUp => nextfile' = nextfile
      BY DEF GiveUp
    <3>3. QED BY <3>1, <3>2 DEF Fwrite
  <2>5. \A k \in Inodes, loc \in Positions :
          Fseek(k, loc) => nextfile' = nextfile
    BY DEF Fseek
  <2>6. UNCHANGED vars => nextfile' = nextfile
    BY DEF vars
  <2>7. QED BY <2>1, <2>2, <2>3, <2>4, <2>5, <2>6 DEF FileCall
<1>4. QED BY <1>2, <1>3 DEF Sound

(* No read, write or seek leaves a size, a pointer or a number of a block  *)
(* outside its array, whatever is opened, written and sought and also when *)
(* the disk is full or an array that was never read is used: a file that   *)
(* outgrows its blocks or the bitmap is given up before it is stored.      *)
THEOREM TypeOKCorrect == DataSpec => []TypeOK
<1>1. Sound => TypeOK
  <2> SUFFICES ASSUME Sound PROVE TypeOK
    OBVIOUS
  <2>1. MaxSize \in Nat /\ 0 < MaxSize
    <3>1. \A n \in Nat : 0 < n => n * BlockSize \in Nat /\ 0 < n * BlockSize
      OBVIOUS
    <3>2. Direct + BlockSize \in Nat /\ 0 < Direct + BlockSize
      OBVIOUS
    <3>3. QED BY <3>1, <3>2, Zenon DEF MaxSize
  <2>2. \A i \in Inodes : table[i].size \in 0 .. MaxSize - 1
    <3>1. \A i \in Inodes : table[i].size \in Nat /\ table[i].size < MaxSize
      BY DEF Sound, Typed, InodeRecords, Positioned, Bounded
    <3>2. QED BY <2>1, <3>1
  <2>3. ASSUME NEW i \in Inodes
        PROVE  /\ table[i].used \in {0, 1}
               /\ table[i].indirectptr \in 0 .. BitmapBits - 1
               /\ Range(table[i].data_ptrs) \subseteq 0 .. BitmapBits - 1
    <3>1. table[i] \in InodeRecords
      BY DEF Sound, Typed
    <3>2. QED BY <3>1 DEF InodeRecords, Range
  <2>4. \A i \in Listed : root[i].inoteindex \in 1 .. NumInodes - 1
    BY DEF Sound, DirInv, Linked
  <2>5. ASSUME NEW k \in Inodes
        PROVE  /\ fdt[k].inode \in 0 .. Free
               /\ fdt[k].open \in {0, 1}
               /\ {fdt[k].rwptr, fdt[k].wptr} \subseteq 0 .. MaxSize - 1
    <3>1. fdt[k] \in [inode : 0 .. Free, rwptr : Nat, wptr : Nat, open : {0, 1}]
      BY DEF Sound, Typed
    <3>2. CASE fdt[k].inode \in Inodes
      <4>1. /\ fdt[k].wptr <= table[fdt[k].inode].size
            /\ fdt[k].rwptr <= table[fdt[k].inode].size
        BY <3>2 DEF Sound, Positioned, Cursors
      <4>2. table[fdt[k].inode].size \in 0 .. MaxSize - 1
        BY <2>2, <3>2
      <4>3. QED BY <2>1, <3>1, <4>1, <4>2
    <3>3. CASE fdt[k].inode \notin Inodes
      <4>1. fdt[k].wptr = 0 /\ fdt[k].rwptr = 0
        BY <3>3 DEF Sound, Positioned, Cursors
      <4>2. QED BY <2>1, <3>1, <4>1
    <3>4. QED BY <3>2, <3>3
  <2>6. {free_bit_map, savedmap} \subseteq SUBSET (0 .. BitmapBits - 1)
    BY DEF Sound, Typed, Unreserved
  <2>7. QED BY <2>2, <2>3, <2>4, <2>5, <2>6 DEF TypeOK, Sound
<1>2. QED BY <1>1, SoundInit, SoundStep, PTL DEF DataSpec

=============================================================================
