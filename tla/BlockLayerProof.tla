-------------------------- MODULE BlockLayerProof --------------------------
(***************************************************************************)
(* Proofs about the two modules under the file system. FreeBitmap.tla for  *)
(* any number of bytes and any number of bits in a byte; DiskEmu.tla for a *)
(* disk of any number of blocks, any contents and calls of any number of   *)
(* blocks.                                                                 *)
(***************************************************************************)
EXTENDS FreeBitmap, DiskEmu, TLAPS

USE SizeAssumption, DiskAssumption

-----------------------------------------------------------------------------
(* The index of a block and the byte and bit it stands for.                *)

Byte(n) == n \div Width
Bit(n)  == n % Width

LEMMA TimesWidth ==
  ASSUME NEW a \in Nat, NEW b \in Nat, a <= b
  PROVE  /\ a * Width \in Nat /\ b * Width \in Nat
         /\ a * Width <= b * Width
         /\ (a + 1) * Width = a * Width + Width
  OBVIOUS

LEMMA IndexOfByteAndBit ==
  ASSUME NEW i \in Sections, NEW bit \in Bits
  PROVE  /\ i * Width + bit \in Indices
         /\ Byte(i * Width + bit) = i
         /\ Bit(i * Width + bit) = bit
<1>1. i \in Nat /\ i + 1 \in Nat /\ i + 1 <= Size
  BY DEF Sections
<1>2. (i + 1) * Width <= Size * Width
  BY <1>1, TimesWidth
<1>3. (i + 1) * Width = i * Width + Width /\ i * Width \in Nat
  BY <1>1, TimesWidth
<1>4. i * Width + bit \in Indices
  BY <1>2, <1>3 DEF Bits, Indices
<1>5. Byte(i * Width + bit) = i /\ Bit(i * Width + bit) = bit
  BY DEF Sections, Bits, Byte, Bit
<1>6. QED BY <1>4, <1>5

LEMMA ByteAndBitOfIndex ==
  ASSUME NEW n \in Indices
  PROVE  /\ Byte(n) \in Sections /\ Bit(n) \in Bits
         /\ n = Byte(n) * Width + Bit(n)
<1>1. n \in Nat /\ n < Size * Width
  BY DEF Indices
<1>2. /\ Byte(n) \in Nat /\ Bit(n) \in Bits
      /\ n = Byte(n) * Width + Bit(n)
  BY <1>1 DEF Byte, Bit, Bits
<1>3. Byte(n) < Size
  <2>1. Size <= Byte(n) => Size * Width <= Byte(n) * Width
    BY <1>2, TimesWidth
  <2>2. Byte(n) * Width \in Nat /\ Size * Width \in Nat /\ Bit(n) \in Nat
    BY <1>2, TimesWidth DEF Bits
  <2>3. QED BY <1>1, <1>2, <2>1, <2>2
<1>4. QED BY <1>2, <1>3 DEF Sections

(* Indices are ordered by their bytes, then by their bits.                 *)
LEMMA IndexOrder ==
  ASSUME NEW m \in Indices, NEW n \in Indices,
         \/ Byte(m) < Byte(n)
         \/ Byte(m) = Byte(n) /\ Bit(m) <= Bit(n)
  PROVE  m <= n
<1>1. /\ Byte(m) \in Nat /\ Byte(n) \in Nat /\ Bit(m) \in 0 .. Width - 1
      /\ Bit(n) \in 0 .. Width - 1
      /\ m = Byte(m) * Width + Bit(m) /\ n = Byte(n) * Width + Bit(n)
  BY ByteAndBitOfIndex DEF Sections, Bits
<1>2. CASE Byte(m) < Byte(n)
  <2>1. (Byte(m) + 1) * Width <= Byte(n) * Width
    BY <1>1, <1>2, TimesWidth
  <2>2. (Byte(m) + 1) * Width = Byte(m) * Width + Width
    BY <1>1, TimesWidth
  <2>3. Byte(m) * Width \in Nat /\ Byte(n) * Width \in Nat
    BY <1>1, TimesWidth
  <2>4. QED BY <1>1, <2>1, <2>2, <2>3
<1>3. CASE Byte(m) = Byte(n) /\ Bit(m) <= Bit(n)
  BY <1>1, <1>3
<1>4. QED BY <1>2, <1>3

-----------------------------------------------------------------------------
(* Types.                                                                  *)

LEMMA TypeOKInit == Init => TypeOK
<1>1. 0 \in Indices
  BY IndexOfByteAndBit DEF Sections, Bits, Indices
<1>2. Init => last[2] = 0
  BY DEF Init
<1>3. Init => /\ free_bit_map \in [Sections -> [Bits -> {0, 1}]]
              /\ overrun \in BOOLEAN
  BY DEF Init
<1>4. QED BY <1>1, <1>2, <1>3 DEF TypeOK

LEMMA TypeOKStep == TypeOK /\ [Next]_vars => TypeOK'
<1> SUFFICES ASSUME TypeOK, [Next]_vars PROVE TypeOK'
  OBVIOUS
<1>1. CASE get_index
  BY <1>1, IndexOfByteAndBit DEF TypeOK, get_index, UseBit
<1>2. CASE GetIndexOverflow
  BY <1>2 DEF TypeOK, GetIndexOverflow
<1>3. ASSUME NEW n \in Indices, rm_index(n) PROVE TypeOK'
  BY <1>3, ByteAndBitOfIndex DEF TypeOK, rm_index, FreeBit, Byte, Bit
<1>4. ASSUME NEW n \in Indices, force_set_index(n) PROVE TypeOK'
  BY <1>4, ByteAndBitOfIndex DEF TypeOK, force_set_index, UseBit, Byte, Bit
<1>5. CASE UNCHANGED vars
  BY <1>5 DEF TypeOK, vars
<1>6. QED BY <1>1, <1>2, <1>3, <1>4, <1>5 DEF Next

(* Every byte keeps its bits and get_index() returns an index of the       *)
(* bitmap, however long the array and however wide its bytes are.          *)
THEOREM TypeCorrect == Spec => []TypeOK
  BY TypeOKInit, TypeOKStep, PTL DEF Spec

-----------------------------------------------------------------------------
(* The bytes are a set of free blocks.                                     *)

LEMMA FreeBlocksOf ==
  ASSUME NEW n \in Indices
  PROVE  n \in FreeBlocks <=> free_bit_map[Byte(n)][Bit(n)] = 1
  BY DEF FreeBlocks, Byte, Bit

(* Setting the bit of one index changes this index only.                   *)
LEMMA OtherBitsStay ==
  ASSUME TypeOK, NEW n \in Indices, NEW value \in {0, 1},
         free_bit_map' = [free_bit_map EXCEPT ![Byte(n)][Bit(n)] = value],
         NEW m \in Indices
  PROVE  free_bit_map'[Byte(m)][Bit(m)] =
           IF m = n THEN value ELSE free_bit_map[Byte(m)][Bit(m)]
<1>1. /\ Byte(n) \in Sections /\ Bit(n) \in Bits
      /\ Byte(m) \in Sections /\ Bit(m) \in Bits
      /\ Byte(m) = Byte(n) /\ Bit(m) = Bit(n) => m = n
  BY ByteAndBitOfIndex
<1>2. free_bit_map \in [Sections -> [Bits -> {0, 1}]]
  BY DEF TypeOK
<1>3. QED BY <1>1, <1>2

LEMMA FreeBlocksNext ==
  FreeBlocks' = {m \in Indices : free_bit_map'[Byte(m)][Bit(m)] = 1}
  BY DEF FreeBlocks, Byte, Bit

LEMMA FreeBlocksAfterFree ==
  ASSUME TypeOK, NEW n \in Indices,
         free_bit_map' = [free_bit_map EXCEPT ![Byte(n)][Bit(n)] = 1]
  PROVE  FreeBlocks' = FreeBlocks \union {n}
<1>1. ASSUME NEW m \in Indices
      PROVE  m \in FreeBlocks' <=> m = n \/ m \in FreeBlocks
  <2>1. free_bit_map'[Byte(m)][Bit(m)] =
          IF m = n THEN 1 ELSE free_bit_map[Byte(m)][Bit(m)]
    BY OtherBitsStay
  <2>2. m \in FreeBlocks' <=> free_bit_map'[Byte(m)][Bit(m)] = 1
    BY FreeBlocksNext
  <2>3. QED BY <2>1, <2>2, FreeBlocksOf
<1>2. FreeBlocks \subseteq Indices /\ FreeBlocks' \subseteq Indices
  BY FreeBlocksNext DEF FreeBlocks
<1>3. QED BY <1>1, <1>2

LEMMA FreeBlocksAfterUse ==
  ASSUME TypeOK, NEW n \in Indices,
         free_bit_map' = [free_bit_map EXCEPT ![Byte(n)][Bit(n)] = 0]
  PROVE  FreeBlocks' = FreeBlocks \ {n}
<1>1. ASSUME NEW m \in Indices
      PROVE  m \in FreeBlocks' <=> m # n /\ m \in FreeBlocks
  <2>1. free_bit_map'[Byte(m)][Bit(m)] =
          IF m = n THEN 0 ELSE free_bit_map[Byte(m)][Bit(m)]
    BY OtherBitsStay
  <2>2. m \in FreeBlocks' <=> free_bit_map'[Byte(m)][Bit(m)] = 1
    BY FreeBlocksNext
  <2>3. QED BY <2>1, <2>2, FreeBlocksOf
<1>2. FreeBlocks \subseteq Indices /\ FreeBlocks' \subseteq Indices
  BY FreeBlocksNext DEF FreeBlocks
<1>3. QED BY <1>1, <1>2

LEMMA RefinementInit == Init => Allocator!Init
<1> SUFFICES ASSUME Init PROVE Allocator!Init
  OBVIOUS
<1>1. ASSUME NEW n \in Indices PROVE n \in FreeBlocks
  BY <1>1, ByteAndBitOfIndex, FreeBlocksOf DEF Init
<1>2. FreeBlocks = Indices
  BY <1>1 DEF FreeBlocks
<1>3. QED BY <1>2 DEF Init, Allocator!Init

LEMMA GetIndexIsGet ==
  ASSUME TypeOK, get_index
  PROVE  Allocator!Get
<1>1. PICK i \in Sections, bit \in Bits :
        /\ \A j \in Sections : j < i => AllUsed(j)
        /\ IsFirstSet(i, bit)
        /\ UseBit(i, bit)
        /\ last' = <<"get_index", i * Width + bit>>
  BY DEF get_index
<1> DEFINE n == i * Width + bit
<1>2. n \in Indices /\ Byte(n) = i /\ Bit(n) = bit
  BY IndexOfByteAndBit
<1> HIDE DEF n
<1>3. n \in FreeBlocks
  BY <1>1, <1>2, FreeBlocksOf DEF IsFirstSet
<1>4. ASSUME NEW c \in FreeBlocks PROVE n <= c
  <2>1. c \in Indices /\ free_bit_map[Byte(c)][Bit(c)] = 1
    BY FreeBlocksOf DEF FreeBlocks
  <2>2. Byte(c) \in Sections /\ Bit(c) \in Bits
    BY <2>1, ByteAndBitOfIndex
  <2>3. ~(Byte(c) < i)
    BY <1>1, <2>1, <2>2 DEF AllUsed
  <2>4. Byte(c) = i => ~(Bit(c) < bit)
    BY <1>1, <2>1, <2>2 DEF IsFirstSet
  <2>5. \/ Byte(n) < Byte(c)
        \/ Byte(n) = Byte(c) /\ Bit(n) <= Bit(c)
    BY <1>2, <2>2, <2>3, <2>4 DEF Sections, Bits
  <2>6. QED BY <1>2, <2>1, <2>5, IndexOrder
<1>5. FreeBlocks' = FreeBlocks \ {n}
  BY <1>1, <1>2, FreeBlocksAfterUse DEF UseBit
<1>6. last' = <<"get_index", n>>
  BY <1>1 DEF n
<1>7. QED BY <1>3, <1>4, <1>5, <1>6 DEF Allocator!Get

LEMMA RefinementStep ==
  TypeOK /\ [Next]_vars => [Allocator!Next]_<<FreeBlocks, last>>
<1> SUFFICES ASSUME TypeOK, [Next]_vars
             PROVE  Allocator!Next \/ UNCHANGED <<FreeBlocks, last>>
  OBVIOUS
<1>1. CASE get_index
  BY <1>1, GetIndexIsGet DEF Allocator!Next
<1>2. CASE GetIndexOverflow
  BY <1>2 DEF GetIndexOverflow, FreeBlocks
<1>3. ASSUME NEW n \in Indices, rm_index(n) PROVE Allocator!GiveBack(n)
  <2>1. free_bit_map' = [free_bit_map EXCEPT ![Byte(n)][Bit(n)] = 1]
    BY <1>3 DEF rm_index, FreeBit, Byte, Bit
  <2>2. FreeBlocks' = FreeBlocks \union {n}
    BY <2>1, FreeBlocksAfterFree
  <2>3. QED BY <1>3, <2>2 DEF rm_index, Allocator!GiveBack
<1>4. ASSUME NEW n \in Indices, force_set_index(n) PROVE Allocator!Take(n)
  <2>1. free_bit_map' = [free_bit_map EXCEPT ![Byte(n)][Bit(n)] = 0]
    BY <1>4 DEF force_set_index, UseBit, Byte, Bit
  <2>2. FreeBlocks' = FreeBlocks \ {n}
    BY <2>1, FreeBlocksAfterUse
  <2>3. QED BY <1>4, <2>2 DEF force_set_index, Allocator!Take
<1>5. CASE UNCHANGED vars
  BY <1>5 DEF vars, FreeBlocks
<1>6. QED BY <1>1, <1>2, <1>3, <1>4, <1>5 DEF Next, Allocator!Next

(* Whatever the size of the array and of its bytes, get_index() gives out  *)
(* the lowest free block and marks it alone, and the two others mark just  *)
(* the block they are given: bitmap.c implements a set of free blocks.     *)
THEOREM RefinesBlockSetCorrect == Spec => RefinesBlockSet
  BY TypeCorrect, RefinementInit, RefinementStep, PTL
  DEF Spec, RefinesBlockSet, Allocator!Spec
-----------------------------------------------------------------------------

(* Between calls and in the loop of a write the buffer holds nothing that  *)
(* the file does not have: only a disk that was just created has a part of *)
(* its zeros there, and nothing behind them.                               *)
BufferFlushed ==
  /\ step # "fresh" => buffer = Nothing
  /\ step = "fresh" =>
       \E end \in Addresses :
         /\ file = [b \in Addresses |-> IF b < end THEN Zero ELSE Absent]
         /\ buffer = [b \in end .. MaxBlock - 1 |-> Zero]

DiskInv == DiskTypeOK /\ BufferFlushed

-----------------------------------------------------------------------------

LEMMA DiskInvInit == DiskInit => DiskInv
<1>1. SUFFICES ASSUME DiskInit PROVE DiskTypeOK /\ BufferFlushed
  BY DEF DiskInv
<1>2. DOMAIN buffer = {}
  BY <1>1 DEF DiskInit, Nothing
<1>3. DiskTypeOK
  <2>1. todo \in Seq(Data)
    BY <1>1 DEF DiskInit
  <2>2. file \in [Addresses -> Data \union {Absent}]
    BY <1>1 DEF DiskInit
  <2>3. QED BY <1>1, <1>2, <2>1, <2>2 DEF DiskInit, DiskTypeOK
<1>4. BufferFlushed
  BY <1>1 DEF DiskInit, BufferFlushed
<1>5. QED BY <1>3, <1>4

(* The end of a round leaves the loop inside the blocks of the disk.       *)
LEMMA RoundInRange ==
  ASSUME DiskTypeOK, step = "write", EndOfRound
  PROVE  /\ at \in Addresses /\ Head(todo) \in Data
         /\ at' \in Nat /\ todo' \in Seq(Data)
         /\ step' \in {"idle", "write"}
         /\ step' = "write" => /\ todo' # << >>
                               /\ at' + Len(todo') <= MaxBlock
<1>1. at \in Nat /\ todo \in Seq(Data) /\ todo # << >>
  BY DEF DiskTypeOK
<1>2. at + Len(todo) <= MaxBlock
  BY DEF DiskTypeOK
<1>3. /\ Len(todo) \in Nat \ {0} /\ Head(todo) \in Data
      /\ Tail(todo) \in Seq(Data) /\ Len(Tail(todo)) = Len(todo) - 1
  BY <1>1
<1>4. QED BY <1>1, <1>2, <1>3 DEF EndOfRound, Addresses

LEMMA FlushedType ==
  ASSUME DiskTypeOK
  PROVE  Flushed \in [Addresses -> Data \union {Absent}]
<1>1. /\ file \in [Addresses -> Data \union {Absent}]
      /\ DOMAIN buffer \subseteq Addresses
      /\ \A b \in DOMAIN buffer : buffer[b] \in Data
  BY DEF DiskTypeOK
<1>2. DOMAIN file \union DOMAIN buffer = Addresses
  BY <1>1
<1>3. QED BY <1>1, <1>2 DEF Flushed

LEMMA DiskInvStep == DiskInv /\ [DiskNext]_diskvars => DiskInv'
<1>1. SUFFICES ASSUME DiskTypeOK, BufferFlushed, [DiskNext]_diskvars
               PROVE  DiskTypeOK' /\ BufferFlushed'
  BY DEF DiskInv
<1>2. DOMAIN Nothing = {}
  BY DEF Nothing
<1>3. CASE InitFreshDisk
  <2>1. PICK end \in Addresses :
          /\ file' = [b \in Addresses |-> IF b < end THEN Zero ELSE Absent]
          /\ buffer' = [b \in end .. MaxBlock - 1 |-> Zero]
    BY <1>3 DEF InitFreshDisk
  <2>2. DOMAIN buffer' \subseteq Addresses
    BY <2>1 DEF Addresses
  <2>3. \A b \in DOMAIN buffer' : buffer'[b] \in Data
    BY <2>1
  <2>4. QED BY <1>1, <1>3, <2>1, <2>2, <2>3
            DEF InitFreshDisk, DiskTypeOK, BufferFlushed
<1>4. CASE InitDisk
  BY <1>1, <1>2, <1>4 DEF InitDisk, callvars, DiskTypeOK, BufferFlushed
<1>5. CASE CloseDisk
  BY <1>1, <1>2, <1>5 DEF CloseDisk, callvars, DiskTypeOK, BufferFlushed
<1>6. CASE Kill
  <2>1. << >> \in Seq(Data)
    OBVIOUS
  <2>2. QED BY <1>1, <1>2, <1>6, <2>1 DEF Kill, DiskTypeOK, BufferFlushed
<1>7. CASE WriteBlock
  <2>1. /\ step = "write" /\ EndOfRound
        /\ file' = [b \in DOMAIN file \union {at} |->
                      IF b = at THEN Head(todo) ELSE file[b]]
        /\ buffer' = Nothing /\ UNCHANGED <<created, fp>>
    BY <1>7 DEF WriteBlock
  <2>2. /\ at \in Addresses /\ Head(todo) \in Data
        /\ at' \in Nat /\ todo' \in Seq(Data)
        /\ step' \in {"idle", "write"}
        /\ step' = "write" => todo' # << >> /\ at' + Len(todo') <= MaxBlock
    BY <1>1, <2>1, RoundInRange
  <2>3. file' \in [Addresses -> Data \union {Absent}]
    BY <1>1, <2>1, <2>2 DEF DiskTypeOK
  <2>4. DiskTypeOK'
    BY <1>1, <1>2, <2>1, <2>2, <2>3 DEF DiskTypeOK
  <2>5. BufferFlushed'
    BY <2>1, <2>2 DEF BufferFlushed
  <2>6. QED BY <2>4, <2>5
<1>8. CASE \E start \in Starts, n \in Counts : ReadBlocks(start, n)
  BY <1>1, <1>8 DEF ReadBlocks, callvars, DiskTypeOK, BufferFlushed
<1>9. CASE \E start \in Starts, n \in Counts :
             \E data \in [1 .. n -> Data] : WriteBlocks(start, data)
  <2>1. PICK start \in Starts, n \in Counts :
          \E data \in [1 .. n -> Data] : WriteBlocks(start, data)
    BY <1>9
  <2>1a. PICK data \in [1 .. n -> Data] : WriteBlocks(start, data)
    BY <2>1
  <2>2. data \in Seq(Data) /\ Len(data) = n /\ data # << >>
    <3>1. n \in Nat \ {0}
      OBVIOUS
    <3>2. data \in Seq(Data) /\ Len(data) = n
      BY <3>1
    <3>3. QED BY <3>1, <3>2
  <2>3. start \in Nat
    OBVIOUS
  <2>4. Flushed \in [Addresses -> Data \union {Absent}]
    BY <1>1, FlushedType
  <2>5. DiskTypeOK'
    BY <1>1, <1>2, <2>1a, <2>2, <2>3, <2>4 DEF WriteBlocks, InRange, DiskTypeOK
  <2>6. BufferFlushed'
    BY <2>1a DEF WriteBlocks, BufferFlushed
  <2>7. QED BY <2>5, <2>6
<1>10. CASE \E start \in Starts, n \in Counts :
              \E data \in [1 .. n -> Data] : WriteBlocksRefused(start, data)
  BY <1>1, <1>10 DEF WriteBlocksRefused, callvars, DiskTypeOK, BufferFlushed
<1>11. CASE UNCHANGED diskvars
  BY <1>1, <1>11 DEF diskvars, callvars, DiskTypeOK, BufferFlushed
<1>12. QED
  BY <1>1, <1>3, <1>4, <1>5, <1>6, <1>7, <1>8, <1>9, <1>10, <1>11 DEF DiskNext

LEMMA DiskInvariant == DiskSpec => []DiskInv
BY DiskInvInit, DiskInvStep, PTL DEF DiskSpec

(* Nothing is ever written behind the last block of the disk, and a write  *)
(* of several blocks never leaves it half way: the range check of          *)
(* write_blocks() covers all its blocks.                                   *)
THEOREM DiskTypeCorrect == DiskSpec => []DiskTypeOK
BY DiskInvariant, PTL DEF DiskInv

-----------------------------------------------------------------------------
(* The refinement.                                                         *)

LEMMA SeenIsFile ==
  ASSUME DiskTypeOK, buffer = Nothing
  PROVE  Seen = file
<1>1. DOMAIN buffer = {}
  BY DEF Nothing
<1>2. Seen = [b \in Addresses |-> file[b]]
  BY <1>1 DEF Seen
<1>3. QED BY <1>2 DEF DiskTypeOK

LEMMA StoreInit == DiskInit => Store!Init
<1>1. SUFFICES ASSUME DiskInit PROVE Store!Init
  OBVIOUS
<1>2. Seen = file
  BY <1>1, DiskInvInit, SeenIsFile DEF DiskInv, DiskInit
<1>3. QED BY <1>1, <1>2 DEF DiskInit, Store!Init, Nothing, Store!Nothing

(* Killing the program loses what is in the buffer: a new disk's end, or   *)
(* nothing.                                                                *)
LEMMA KillRefines ==
  ASSUME DiskInv, DiskInv', Kill
  PROVE  Store!LoseEnd \/ Store!Use
<1>1. /\ DiskTypeOK /\ BufferFlushed /\ DiskTypeOK' /\ file' = file
      /\ buffer' = Nothing /\ answer' = Nothing /\ step' = "idle"
  BY DEF DiskInv, Kill
<1>2. Seen' = file
  BY <1>1, SeenIsFile DEF Seen, DiskTypeOK, Nothing
<1>3. CASE step = "fresh"
  <2>1. PICK end \in Addresses :
          /\ file = [b \in Addresses |-> IF b < end THEN Zero ELSE Absent]
          /\ buffer = [b \in end .. MaxBlock - 1 |-> Zero]
    BY <1>1, <1>3 DEF BufferFlushed
  <2>2. Seen = [b \in Addresses |-> Zero]
    BY <2>1 DEF Seen, Addresses
  <2>3. file = [b \in Addresses |-> IF b < end THEN Seen[b] ELSE Absent]
    BY <2>1, <2>2
  <2>4. QED BY <1>1, <1>2, <1>3, <2>3
            DEF Store!LoseEnd, Nothing, Store!Nothing
<1>4. CASE step # "fresh"
  <2>1. Seen = file
    BY <1>1, <1>4, SeenIsFile DEF BufferFlushed
  <2>2. QED BY <1>1, <1>2, <2>1 DEF Store!Use, Nothing, Store!Nothing
<1>5. QED BY <1>3, <1>4

LEMMA StoreStep ==
  DiskInv /\ DiskInv' /\ [DiskNext]_diskvars
    => [Store!Next]_<<Seen, step = "fresh", answer>>
<1>1. SUFFICES ASSUME DiskInv, DiskInv', [DiskNext]_diskvars
               PROVE  \/ Store!Next
                      \/ UNCHANGED <<Seen, step = "fresh", answer>>
  OBVIOUS
<1>2. DiskTypeOK /\ BufferFlushed /\ DiskTypeOK' /\ BufferFlushed'
  BY <1>1 DEF DiskInv
<1>3. CASE InitFreshDisk
  <2>1. PICK end \in Addresses :
          /\ file' = [b \in Addresses |-> IF b < end THEN Zero ELSE Absent]
          /\ buffer' = [b \in end .. MaxBlock - 1 |-> Zero]
    BY <1>3 DEF InitFreshDisk
  <2>2. Seen' = [b \in Addresses |-> Zero]
    BY <2>1 DEF Seen, Addresses
  <2>3. Store!Create
    BY <1>3, <2>2 DEF InitFreshDisk, Store!Create, Nothing, Store!Nothing
  <2>4. QED BY <2>3 DEF Store!Next
<1>4. CASE InitDisk \/ CloseDisk
  <2>1. /\ step = "idle" /\ step' = "idle" /\ file' = file
        /\ buffer = Nothing /\ buffer' = Nothing /\ answer' = Nothing
    BY <1>2, <1>4 DEF InitDisk, CloseDisk, callvars, BufferFlushed
  <2>2. Store!Use
    BY <2>1 DEF Seen, Store!Use, Nothing, Store!Nothing
  <2>3. QED BY <2>2 DEF Store!Next
<1>5. CASE Kill
  BY <1>1, <1>5, KillRefines DEF Store!Next
<1>6. CASE WriteBlock
  <2>1. /\ step = "write" /\ EndOfRound
        /\ file' = [b \in DOMAIN file \union {at} |->
                      IF b = at THEN Head(todo) ELSE file[b]]
        /\ buffer' = Nothing /\ answer' = Nothing
    BY <1>6 DEF WriteBlock
  <2>2. at \in Addresses /\ Head(todo) \in Data /\ step' \in {"idle", "write"}
    BY <1>2, <2>1, RoundInRange
  <2>3. Seen = file
    BY <1>2, <2>1, SeenIsFile DEF BufferFlushed
  <2>4. Seen' = file'
    BY <1>2, <2>1 DEF Seen, DiskTypeOK, Nothing
  <2>5. file' = [file EXCEPT ![at] = Head(todo)]
    BY <1>2, <2>1, <2>2 DEF DiskTypeOK
  <2>6. Store!Put(at, Head(todo))
    BY <2>1, <2>2, <2>3, <2>4, <2>5 DEF Store!Put, Nothing, Store!Nothing
  <2>7. QED BY <2>2, <2>6 DEF Store!Next
<1>7. CASE \E start \in Starts, n \in Counts : ReadBlocks(start, n)
  <2>1. PICK start \in Starts, n \in Counts : ReadBlocks(start, n)
    BY <1>7
  <2>2. /\ step = "idle" /\ step' = "idle"
        /\ UNCHANGED <<file, buffer>> /\ Seen' = Seen
    BY <2>1 DEF ReadBlocks, callvars, Seen
  <2>3. CASE InRange(start, n)
    <3>1. start .. start + n - 1 \subseteq Addresses
      BY <2>3 DEF InRange, Addresses
    <3>2. Seen = file
      BY <1>2, <2>2, SeenIsFile DEF BufferFlushed
    <3>3. Store!Get
      BY <2>1, <2>2, <2>3, <3>1, <3>2 DEF ReadBlocks, Store!Get
    <3>4. QED BY <3>3 DEF Store!Next
  <2>4. CASE ~InRange(start, n)
    <3>1. Store!Use
      BY <2>1, <2>2, <2>4 DEF ReadBlocks, Store!Use, Nothing, Store!Nothing
    <3>2. QED BY <3>1 DEF Store!Next
  <2>5. QED BY <2>3, <2>4
<1>8. CASE \E start \in Starts, n \in Counts :
             \E data \in [1 .. n -> Data] : WriteBlocks(start, data)
  <2>1. /\ file' = Flushed /\ buffer' = Nothing
        /\ step' = "write" /\ answer' = Nothing
    BY <1>8 DEF WriteBlocks
  <2>2. Seen' = Flushed
    BY <1>2, <2>1 DEF Seen, DiskTypeOK, Nothing
  <2>3. Seen = Flushed
    BY <1>2 DEF Seen, Flushed, DiskTypeOK
  <2>4. Store!Use
    BY <2>1, <2>2, <2>3 DEF Store!Use, Nothing, Store!Nothing
  <2>5. QED BY <2>4 DEF Store!Next
<1>9. CASE \E start \in Starts, n \in Counts :
             \E data \in [1 .. n -> Data] : WriteBlocksRefused(start, data)
  <2>1. /\ UNCHANGED <<file, buffer>> /\ step' = "idle" /\ answer' = Nothing
    BY <1>9 DEF WriteBlocksRefused, callvars
  <2>2. Store!Use
    BY <2>1 DEF Seen, Store!Use, Nothing, Store!Nothing
  <2>3. QED BY <2>2 DEF Store!Next
<1>10. CASE UNCHANGED diskvars
  BY <1>10 DEF diskvars, callvars, Seen
<1>11. QED
  BY <1>1, <1>3, <1>4, <1>5, <1>6, <1>7, <1>8, <1>9, <1>10 DEF DiskNext

(* The file under its stream is a store of blocks: what read_blocks()      *)
(* returns is what the last finished round of a write_blocks() put there,  *)
(* whatever was opened again or killed since, on a disk of any size.       *)
THEOREM RefinesBlockStoreCorrect == DiskSpec => RefinesBlockStore
<1>1. DiskInv /\ DiskInv' /\ [DiskNext]_diskvars
        => [Store!Next]_<<Seen, step = "fresh", answer>>
  BY StoreStep
<1>2. QED
  BY <1>1, DiskInvariant, StoreInit, PTL
     DEF DiskSpec, RefinesBlockStore, Store!Spec
=============================================================================
