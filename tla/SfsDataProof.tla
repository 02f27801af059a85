---------------------------- MODULE SfsDataProof ----------------------------
(***************************************************************************)
(* Proofs about the data and the blocks of files in Sfs.tla, for any sizes *)
(* of the disk, its blocks and its files, any reads and writes and any     *)
(* number of calls.                                                        *)
(***************************************************************************)
EXTENDS SfsProof

USE Sizes

-----------------------------------------------------------------------------
(* The rounds of a write, for a file with the blocks e.                    *)

(* A block that a write allocates, and what a block of it will hold.       *)
Fresh(w, e, p) == w.isfirst \/ (p # w.first /\ e[p] = 0)
Now(w, e, p) ==
  [c \in Cells |->
     IF Within(w, p, c) THEN Buffer((p * BlockSize + c) - w.from, w.length)
     ELSE IF p = w.first /\ ~w.isfirst THEN BlockOn(disk, e[p])[c] ELSE 0]

(* What the blocks that the memory and the disk hold before it promise.    *)
Numbered(e) ==
  /\ e \in [Places -> Nat]
  /\ \A p \in Places : 0 < e[p] /\ e[p] < NumBlocks =>
       /\ e[p] \notin free_bit_map
       /\ \A q \in Places : e[q] = e[p] => q = p

Promised(w, e) ==
  /\ Numbered(e)
  /\ free_bit_map \subseteq Unreserved
  /\ \A b \in free_bit_map : b < NumBlocks => disk[b] = Zeros
  /\ w.isfirst => \A p \in Places : e[p] = 0
  /\ ~w.isfirst => e[w.first] # 0
  /\ ~w.isfirst /\ Direct <= w.first => e[-1] # 0

(* After block j: the numbers of the blocks in K,                          *)
Placed(w, e, K, t, j) ==
  /\ \A p \in K : IF p \in w.first .. j /\ Fresh(w, e, p)
                    THEN t.slots[p] \in free_bit_map \union {BitmapBits}
                    ELSE t.slots[p] = e[p]
  /\ t.free \subseteq free_bit_map
  /\ \/ t.indirect = e[-1]
     \/ e[-1] = 0 /\ t.indirect \in free_bit_map \union {BitmapBits}

(* of which those on the disk are in use, and used once,                   *)
Apart(K, t) ==
  /\ \A p \in K : 0 < t.slots[p] /\ t.slots[p] < NumBlocks =>
       /\ t.slots[p] \notin t.free /\ t.slots[p] # t.indirect
       /\ \A q \in K : t.slots[q] = t.slots[p] => q = p
  /\ 0 < t.indirect /\ t.indirect < NumBlocks => t.indirect \notin t.free

(* what they hold, and the others,                                         *)
Holds(w, e, K, t, j) ==
  /\ \A b \in Blocks : \/ t.disk[b] = disk[b]
                       \/ \E p \in K \cap (w.first .. j) : t.slots[p] = b
  /\ \A p \in K \cap (w.first .. j) :
       t.slots[p] < NumBlocks => t.disk[t.slots[p]] = Now(w, e, p)

(* and the cells that count.                                               *)
Counted(w, K, t, j) ==
  (\A p \in K \cap (w.first .. j) : t.slots[p] < NumBlocks)
    => t.count = Reached(w, (j + 1) * BlockSize)

Round(w, e, K, t, j) ==
  Placed(w, e, K, t, j) /\ Apart(K, t) /\ Holds(w, e, K, t, j)
                        /\ Counted(w, K, t, j)

LEMMA PutRound ==
  ASSUME NEW w, Plain(w), NEW e, Promised(w, e),
         NEW K, K \subseteq Slots, NEW t \in States, NEW j \in K,
         w.first <= j, Round(w, e, K, t, j - 1)
  PROVE  Round(w, e, K, PutBlock(w, t, j), j)
<1> DEFINE b == BlockFor(w, t, j)
           u == PutBlock(w, t, j)
           fresh == Fresh(w, e, j)
<1>1. /\ w \in Writes /\ w.first \in Nat /\ j \in Slots /\ j \in Nat
      /\ K \subseteq Nat /\ j \in K
  BY PlainBlocks DEF Plain, Slots
<1>2. /\ \A p \in K : u.slots[p] = IF p = j THEN b ELSE t.slots[p]
      /\ b \in Nat /\ b # 0
      /\ t.slots[j] = e[j]
      /\ fresh => b \in t.free \union {BitmapBits} /\ u.free = t.free \ {b}
      /\ ~fresh => b = e[j] /\ b = t.slots[j] /\ u.free = t.free
  <2>1. t.slots[j] = e[j]
    <3>1. j \notin w.first .. j - 1
      BY <1>1
    <3>2. QED BY <3>1 DEF Round, Placed
  <2>2. Allocates(w, t, j) = Fresh(w, e, j)
    BY <2>1 DEF Allocates, Fresh
  <2>3. /\ b \in Nat
        /\ Allocates(w, t, j) => b \in t.free \union {BitmapBits}
        /\ ~Allocates(w, t, j) => b = t.slots[j]
    BY <1>1, BlockForType
  <2>4. u.free = IF Allocates(w, t, j) THEN t.free \ {b} ELSE t.free
    BY <1>1, PutFree
  <2>5. \A p \in K : u.slots[p] = IF p = j THEN b ELSE t.slots[p]
    <3>1. u.slots = [t.slots EXCEPT ![j] = b]
      BY <1>1, PutSlots
    <3>2. t.slots \in [Slots -> Nat]
      BY DEF States, SlotMaps
    <3> HIDE DEF u, b
    <3>3. QED BY <1>1, <3>1, <3>2
  <2>6. b # 0
    <3>1. CASE Fresh(w, e, j)
      <4>1. b \in t.free \union {BitmapBits}
        BY <2>2, <2>3, <3>1
      <4>2. t.free \subseteq Unreserved
        BY DEF States
      <4>3. 0 \notin Unreserved /\ BitmapBits # 0
        BY DEF Unreserved
      <4> HIDE DEF b
      <4>4. QED BY <4>1, <4>2, <4>3
    <3>2. CASE ~Fresh(w, e, j)
      <4>1. b = e[j]
        BY <2>1, <2>2, <2>3, <3>2
      <4>2. e[j] # 0
        BY <3>2 DEF Fresh, Promised
      <4> HIDE DEF b
      <4>3. QED BY <4>1, <4>2
    <3>3. QED BY <3>1, <3>2
  <2> HIDE DEF b, u
  <2>7. QED BY <2>1, <2>2, <2>3, <2>4, <2>5, <2>6
<1>3. u.indirect = t.indirect
  BY <1>1, PutRest
<1>4. u.disk = IF b < NumBlocks
                 THEN [t.disk EXCEPT ![b] = CellsFor(w, t, j)] ELSE t.disk
  BY <1>1, PutDisk
<1>5. u.count = IF b < NumBlocks THEN t.count + CountFor(w, j) ELSE t.count
  BY <1>1, PutCount
<1>6. /\ \A p \in K : t.slots[p] \in Nat
      /\ t.disk \in [Blocks -> [Cells -> Nat]]
      /\ t.free \subseteq Unreserved
      /\ t.indirect \in Nat
  BY DEF States, SlotMaps
<1>7. \A p \in K : p \in w.first .. j <=> p \in w.first .. j - 1 \/ p = j
  BY <1>1
<1>8. j \in w.first .. j /\ j \notin w.first .. j - 1
  BY <1>1
<1> HIDE DEF b, u, fresh
<1>9. Placed(w, e, K, u, j)
  <2>1. u.free \subseteq t.free
    BY <1>2
  <2>2. ASSUME NEW p \in K
        PROVE  IF p \in w.first .. j /\ Fresh(w, e, p)
                 THEN u.slots[p] \in free_bit_map \union {BitmapBits}
                 ELSE u.slots[p] = e[p]
    <3>1. CASE p = j
      <4>1. CASE fresh
        BY <1>2, <1>8, <3>1, <4>1 DEF Round, Placed, fresh
      <4>2. CASE ~fresh
        BY <1>2, <3>1, <4>2 DEF fresh
      <4>3. QED BY <4>1, <4>2
    <3>2. CASE p # j
      <4>1. u.slots[p] = t.slots[p]
        BY <1>2, <3>2
      <4>2. p \in w.first .. j <=> p \in w.first .. j - 1
        BY <1>7, <3>2
      <4>3. QED BY <4>1, <4>2 DEF Round, Placed
    <3>3. QED BY <3>1, <3>2
  <2>3. QED BY <1>3, <2>1, <2>2 DEF Round, Placed
<1>10. Apart(K, u)
  <2>1. CASE fresh
    <3>1. /\ b \in t.free \/ ~(b < NumBlocks)
          /\ u.free = t.free \ {b}
      BY <1>2, <2>1
    <3>2. b < NumBlocks => /\ \A p \in K : t.slots[p] # b
                           /\ t.indirect # b
      <4>1. SUFFICES ASSUME b < NumBlocks
                     PROVE  (\A p \in K : t.slots[p] # b) /\ t.indirect # b
        OBVIOUS
      <4>2. b \in t.free /\ 0 < b
        BY <1>2, <3>1, <4>1
      <4>3. QED BY <4>1, <4>2 DEF Round, Apart
    <3>3. ASSUME NEW p \in K, 0 < u.slots[p], u.slots[p] < NumBlocks
          PROVE  /\ u.slots[p] \notin u.free /\ u.slots[p] # u.indirect
                 /\ \A q \in K : u.slots[q] = u.slots[p] => q = p
      <4>1. CASE p = j
        <5>1. u.slots[p] = b
          BY <1>2, <4>1
        <5>2. QED BY <1>2, <1>3, <3>1, <3>2, <3>3, <4>1, <5>1
      <4>2. CASE p # j
        <5>1. u.slots[p] = t.slots[p]
          BY <1>2, <4>2
        <5>2. /\ t.slots[p] \notin t.free /\ t.slots[p] # t.indirect
              /\ \A q \in K : t.slots[q] = t.slots[p] => q = p
          BY <3>3, <5>1 DEF Round, Apart
        <5>3. t.slots[p] # b
          BY <3>2, <3>3, <5>1
        <5>4. QED BY <1>2, <1>3, <3>1, <5>1, <5>2, <5>3
      <4>3. QED BY <4>1, <4>2
    <3>4. 0 < u.indirect /\ u.indirect < NumBlocks => u.indirect \notin u.free
      BY <1>3, <3>1 DEF Round, Apart
    <3>5. QED BY <3>3, <3>4 DEF Apart
  <2>2. CASE ~fresh
    <3>1. /\ \A p \in K : u.slots[p] = t.slots[p]
          /\ u.free = t.free
      BY <1>2, <2>2
    <3>2. QED BY <1>3, <3>1 DEF Round, Apart
  <2>3. QED BY <2>1, <2>2
<1>11. Holds(w, e, K, u, j)
  <2>1. \A d \in Blocks : u.disk[d] = IF d = b THEN CellsFor(w, t, j)
                                      ELSE t.disk[d]
    <3>1. b < NumBlocks <=> b \in Blocks
      BY <1>2 DEF Blocks
    <3>2. QED BY <1>4, <1>6, <3>1
  <2>2. ASSUME NEW d \in Blocks
        PROVE  \/ u.disk[d] = disk[d]
               \/ \E p \in K \cap (w.first .. j) : u.slots[p] = d
    <3>1. CASE d = b
      BY <1>1, <1>2, <1>8, <3>1
    <3>2. CASE d # b
      <4>1. \/ t.disk[d] = disk[d]
            \/ \E p \in K \cap (w.first .. j - 1) : t.slots[p] = d
        BY DEF Round, Holds
      <4>2. \A p \in K \cap (w.first .. j - 1) :
              u.slots[p] = t.slots[p] /\ p \in K \cap (w.first .. j)
        BY <1>2, <1>7, <1>8
      <4>3. QED BY <2>1, <3>2, <4>1, <4>2
    <3>3. QED BY <3>1, <3>2
  <2>3. ASSUME NEW p \in K \cap (w.first .. j), u.slots[p] < NumBlocks
        PROVE  u.disk[u.slots[p]] = Now(w, e, p)
    <3>1. CASE p = j
      <4>1. u.slots[p] = b /\ b \in Blocks
        BY <1>2, <2>3, <3>1 DEF Blocks
      <4>2. CellsFor(w, t, j) = Now(w, e, j)
        <5>1. ASSUME NEW c \in Cells
              PROVE  OldCell(w, t, j, c) =
                       IF j = w.first /\ ~w.isfirst
                         THEN BlockOn(disk, e[j])[c] ELSE 0
          <6>1. ASSUME j = w.first PROVE \A d \in Blocks : t.disk[d] = disk[d]
            <7>1. K \cap (w.first .. j - 1) = {}
              BY <1>1, <6>1
            <7>2. QED BY <7>1 DEF Round, Holds
          <6>2. j = w.first => BlockOn(t.disk, e[j]) = BlockOn(disk, e[j])
            <7>1. e[j] \in Nat
              BY <1>2, <1>6
            <7>2. e[j] < NumBlocks => e[j] \in Blocks
              BY <7>1 DEF Blocks
            <7>3. QED BY <6>1, <7>2 DEF BlockOn
          <6>3. QED BY <1>2, <6>2 DEF OldCell
        <5>2. QED BY <5>1 DEF CellsFor, Now
      <4>3. QED BY <2>1, <3>1, <4>1, <4>2
    <3>2. CASE p # j
      <4>1. u.slots[p] = t.slots[p] /\ p \in K \cap (w.first .. j - 1)
        BY <1>2, <1>7, <3>2
      <4>2. t.disk[t.slots[p]] = Now(w, e, p)
        BY <2>3, <4>1 DEF Round, Holds
      <4>3. u.slots[p] # b
        <5>1. SUFFICES ASSUME u.slots[p] = b PROVE FALSE
          OBVIOUS
        <5>2. 0 < u.slots[p] /\ u.slots[j] = b
          BY <1>1, <1>2, <5>1
        <5>3. p \in K /\ j \in K
          BY <1>1
        <5>4. j = p
          BY <1>10, <2>3, <5>1, <5>2, <5>3 DEF Apart
        <5>5. QED BY <3>2, <5>4
      <4>4. u.slots[p] \in Blocks
        BY <1>6, <2>3, <4>1 DEF Blocks
      <4>5. QED BY <2>1, <4>1, <4>2, <4>3, <4>4
    <3>3. QED BY <3>1, <3>2
  <2>4. QED BY <2>2, <2>3 DEF Holds
<1>12. Counted(w, K, u, j)
  <2>1. SUFFICES ASSUME \A p \in K \cap (w.first .. j) : u.slots[p] < NumBlocks
                 PROVE  u.count = Reached(w, (j + 1) * BlockSize)
    BY DEF Counted
  <2>2. b < NumBlocks
    BY <1>1, <1>2, <1>8, <2>1
  <2>3. \A p \in K \cap (w.first .. j - 1) : t.slots[p] < NumBlocks
    <3>1. \A p \in K \cap (w.first .. j - 1) :
            u.slots[p] = t.slots[p] /\ p \in K \cap (w.first .. j)
      BY <1>2, <1>7, <1>8
    <3>2. QED BY <2>1, <3>1
  <2>4. t.count = Reached(w, j * BlockSize)
    <3>1. (j - 1) + 1 = j
      BY <1>1
    <3>2. QED BY <2>3, <3>1 DEF Round, Counted
  <2>5. u.count = t.count + CountFor(w, j)
    BY <1>5, <2>2
  <2>6. /\ Reached(w, j * BlockSize) \in Nat
        /\ Reached(w, (j + 1) * BlockSize) \in Nat
        /\ CountFor(w, j) = Reached(w, (j + 1) * BlockSize)
                              - Reached(w, j * BlockSize)
    BY <1>1, CountForIs
  <2>7. QED BY <2>4, <2>5, <2>6
<1>13. QED BY <1>9, <1>10, <1>11, <1>12 DEF Round, u

LEMMA LoopRound ==
  ASSUME calls \in Nat, NEW w, Plain(w), NEW e, Promised(w, e),
         NEW K, K \subseteq Slots, NEW s \in States, NEW g \in Nat,
         w.first <= g, Round(w, e, K, s, g - 1),
         NEW J \in g - 1 .. Direct + BlockSize - 1, g .. J \subseteq K
  PROVE  Round(w, e, K, Loop(w, s, g)[J], J)
<1> DEFINE n == Direct + BlockSize - 1
           S == {j \in -1 .. n : Round(w, e, K, Loop(w, s, g)[j], j)}
<1>1. n \in Int /\ g - 1 \in Int /\ J \in Int /\ J <= n /\ g - 1 <= J
      /\ w \in Writes
  BY DEF Plain
<1>2. \A j \in -1 .. n :
        Loop(w, s, g)[j] =
          IF j < g THEN s ELSE PutBlock(w, Loop(w, s, g)[j - 1], j)
  BY LoopIs
<1>3. g - 1 \in S
  <2>1. g - 1 \in -1 .. n /\ g - 1 < g
    BY <1>1
  <2>2. QED BY <1>2, <2>1
<1>4. ASSUME NEW j \in g - 1 .. J - 1, j \in S PROVE j + 1 \in S
  <2>1. j + 1 \in -1 .. n /\ (j + 1) - 1 = j /\ ~(j + 1 < g) /\ j \in -1 .. n
        /\ j + 1 \in g .. J
    BY <1>1
  <2>2. j + 1 \in K /\ w.first <= j + 1
    <3>1. w.first \in Nat
      BY PlainBlocks
    <3>2. QED BY <2>1, <3>1
  <2>3. Loop(w, s, g)[j] \in States
    BY <1>1, <2>1, LoopType
  <2>4. Round(w, e, K, Loop(w, s, g)[j], (j + 1) - 1)
    BY <1>4, <2>1
  <2>5. Round(w, e, K, PutBlock(w, Loop(w, s, g)[j], j + 1), j + 1)
    BY <2>2, <2>3, <2>4, PutRound
  <2>6. Loop(w, s, g)[j + 1] = PutBlock(w, Loop(w, s, g)[j], j + 1)
    BY <1>2, <2>1
  <2>7. QED BY <2>1, <2>5, <2>6
<1> HIDE DEF S, n
<1>5. g - 1 .. J \subseteq S
  BY <1>1, <1>3, <1>4, UpTo
<1>6. J \in g - 1 .. J
  BY <1>1
<1>7. QED BY <1>5, <1>6 DEF S

LEMMA LoopKeeps ==
  ASSUME calls \in Nat, NEW w \in Writes, NEW s \in States, NEW g \in Nat
  PROVE  \A j \in -1 .. Direct + BlockSize - 1 :
           /\ Loop(w, s, g)[j].indirect = s.indirect
           /\ Loop(w, s, g)[j].unread = s.unread
<1> DEFINE n == Direct + BlockSize - 1
           S == {j \in -1 .. n : /\ Loop(w, s, g)[j].indirect = s.indirect
                                 /\ Loop(w, s, g)[j].unread = s.unread}
<1>1. n \in Int /\ -1 <= n /\ n \in Nat
  OBVIOUS
<1>2. \A j \in -1 .. n :
        Loop(w, s, g)[j] =
          IF j < g THEN s ELSE PutBlock(w, Loop(w, s, g)[j - 1], j)
  BY LoopIs
<1>3. -1 \in S
  <2>1. -1 \in -1 .. n /\ -1 < g
    BY <1>1
  <2>2. QED BY <1>2, <2>1
<1>4. ASSUME NEW j \in -1 .. n - 1, j \in S PROVE j + 1 \in S
  <2>1. j + 1 \in -1 .. n /\ (j + 1) - 1 = j /\ j \in -1 .. n
    BY <1>1
  <2>2. j + 1 \in Slots
    BY <1>1 DEF Slots
  <2>3. Loop(w, s, g)[j] \in States
    BY <2>1, LoopType
  <2>4. /\ PutBlock(w, Loop(w, s, g)[j], j + 1).indirect = s.indirect
        /\ PutBlock(w, Loop(w, s, g)[j], j + 1).unread = s.unread
    BY <1>4, <2>2, <2>3, PutRest
  <2>5. Loop(w, s, g)[j + 1] =
          IF j + 1 < g THEN s ELSE PutBlock(w, Loop(w, s, g)[j], j + 1)
    BY <1>2, <2>1
  <2>6. QED BY <2>1, <2>4, <2>5
<1> HIDE DEF S, n
<1>5. -1 .. n \subseteq S
  BY <1>1, <1>3, <1>4, UpTo
<1>6. QED BY <1>5 DEF S, n

(* The blocks of a file: of its inode, and of the array in its indirect    *)
(* block.                                                                  *)
BlocksFrom(inode, e) ==
  /\ e[-1] = table[inode].indirectptr
  /\ \A p \in Pointers : e[p] = table[inode].data_ptrs[p]
  /\ \A p \in Slots \ Pointers :
       e[p] = IF e[-1] = 0 THEN 0
              ELSE IF e[-1] < NumBlocks THEN disk[e[-1]][p - Direct]
              ELSE BitmapBits

LEMMA RoundBefore ==
  ASSUME Typed, NEW inode \in Inodes, NEW w, Plain(w), NEW e, Promised(w, e),
         BlocksFrom(inode, e)
  PROVE  Round(w, e, Pointers, Before(inode), w.first - 1)
<1> DEFINE s == Before(inode)
<1>1. w.first \in Nat /\ w.first .. w.first - 1 = {} /\ (w.first - 1) + 1 = w.first
  BY PlainBlocks
<1>2. /\ s.free = free_bit_map /\ s.disk = disk /\ s.count = 0
      /\ s.indirect = e[-1]
  BY DEF Before, BlocksFrom
<1>3. \A p \in Pointers : s.slots[p] = e[p]
  BY DEF Before, BlocksFrom, Numbers, Pointers, Slots
<1>4. \A p \in Pointers : p \in Places /\ p # -1
  BY DEF Pointers, Places, Slots
<1>5. -1 \in Places
  BY DEF Places
<1> HIDE DEF s
<1>6. Placed(w, e, Pointers, s, w.first - 1)
  BY <1>1, <1>2, <1>3 DEF Placed
<1>7. Apart(Pointers, s)
  <2>1. ASSUME NEW p \in Pointers, 0 < s.slots[p], s.slots[p] < NumBlocks
        PROVE  /\ s.slots[p] \notin s.free /\ s.slots[p] # s.indirect
               /\ \A q \in Pointers : s.slots[q] = s.slots[p] => q = p
    BY <1>2, <1>3, <1>4, <1>5, <2>1 DEF Promised, Numbered
  <2>2. 0 < s.indirect /\ s.indirect < NumBlocks => s.indirect \notin s.free
    BY <1>2, <1>5 DEF Promised, Numbered
  <2>3. QED BY <2>1, <2>2 DEF Apart
<1>8. Holds(w, e, Pointers, s, w.first - 1)
  BY <1>1, <1>2 DEF Holds
<1>9. Counted(w, Pointers, s, w.first - 1)
  <2>1. Reached(w, w.first * BlockSize) = 0
    BY <1>1, ReachedEnds
  <2>2. QED BY <1>1, <1>2, <2>1 DEF Counted
<1>10. QED BY <1>6, <1>7, <1>8, <1>9 DEF Round, s

(* A new indirect block, with an array of zeros.                           *)
LEMMA OpenedNew ==
  ASSUME NEW w, Plain(w), NEW e, Promised(w, e),
         NEW d \in States, Round(w, e, Pointers, d, Direct - 1),
         d.indirect = e[-1], e[-1] = 0, \A p \in Slots \ Pointers : e[p] = 0,
         NEW o \in States, NEW a, \A c \in Cells : a[c] = 0,
         o.slots = Numbers(d.slots, a), o.free = d.free \ {Lowest(d.free)},
         o.indirect = Lowest(d.free), o.disk = d.disk, o.count = d.count
  PROVE  Round(w, e, Slots, o, Direct - 1) /\ o.indirect # 0
<1> DEFINE b == Lowest(d.free)
<1>1. /\ d.free \subseteq Unreserved /\ d.free \subseteq free_bit_map
      /\ \A p \in Slots : d.slots[p] \in Nat
  BY DEF States, SlotMaps, Round, Placed
<1>2. b \in d.free \union {BitmapBits}
  <2>1. d.free \subseteq 0 .. BitmapBits - 1
    BY <1>1 DEF Unreserved
  <2>2. QED BY <2>1, LowestIs
<1>3. b # 0 /\ b \in Nat /\ (b < NumBlocks => b \in d.free)
  BY <1>1, <1>2 DEF Unreserved
<1> HIDE DEF b
<1>4. Pointers \subseteq Slots /\ \A p \in Slots : p \in Pointers <=> p < Direct
  BY DEF Pointers, Slots
<1>5. \A p \in Slots : o.slots[p] = IF p \in Pointers THEN d.slots[p] ELSE 0
  <2>1. \A p \in Slots : ~(p < Direct) => p - Direct \in Cells
    BY DEF Slots, Cells
  <2>2. QED BY <1>4, <2>1 DEF Numbers
<1>6. \A p \in Slots : p \in w.first .. Direct - 1 => p \in Pointers
  BY <1>4, PlainBlocks DEF Slots
<1>7. Slots \cap (w.first .. Direct - 1) = Pointers \cap (w.first .. Direct - 1)
  BY <1>4, <1>6
<1>8. Placed(w, e, Slots, o, Direct - 1)
  <2>1. ASSUME NEW p \in Slots
        PROVE  IF p \in w.first .. Direct - 1 /\ Fresh(w, e, p)
                 THEN o.slots[p] \in free_bit_map \union {BitmapBits}
                 ELSE o.slots[p] = e[p]
    <3>1. CASE p \in Pointers
      BY <1>5, <3>1 DEF Round, Placed
    <3>2. CASE p \notin Pointers
      BY <1>5, <1>6, <3>2
    <3>3. QED BY <3>1, <3>2
  <2>2. o.indirect \in free_bit_map \union {BitmapBits} /\ e[-1] = 0
    BY <1>1, <1>2 DEF b
  <2>3. o.free \subseteq free_bit_map
    BY <1>1
  <2>4. QED BY <2>1, <2>2, <2>3 DEF Placed
<1>9. Apart(Slots, o)
  <2>1. o.free = d.free \ {b} /\ o.indirect = b
    BY DEF b
  <2>2. ASSUME NEW p \in Slots, 0 < o.slots[p], o.slots[p] < NumBlocks
        PROVE  /\ o.slots[p] \notin o.free /\ o.slots[p] # o.indirect
               /\ \A q \in Slots : o.slots[q] = o.slots[p] => q = p
    <3>1. p \in Pointers /\ o.slots[p] = d.slots[p]
      BY <1>5, <2>2
    <3>2. /\ d.slots[p] \notin d.free
          /\ \A q \in Pointers : d.slots[q] = d.slots[p] => q = p
      BY <2>2, <3>1 DEF Round, Apart
    <3>3. o.slots[p] # b
      BY <1>3, <2>2, <3>1, <3>2
    <3>4. ASSUME NEW q \in Slots, o.slots[q] = o.slots[p] PROVE q = p
      <4>1. q \in Pointers
        BY <1>5, <2>2, <3>4
      <4>2. QED BY <1>5, <3>1, <3>2, <3>4, <4>1
    <3>5. QED BY <2>1, <3>1, <3>2, <3>3, <3>4
  <2>3. QED BY <2>1, <2>2 DEF Apart
<1>10. Holds(w, e, Slots, o, Direct - 1)
  <2>1. \A p \in Pointers \cap (w.first .. Direct - 1) : o.slots[p] = d.slots[p]
    BY <1>4, <1>5
  <2>2. QED BY <1>7, <2>1 DEF Round, Holds
<1>11. Counted(w, Slots, o, Direct - 1)
  <2>1. \A p \in Pointers \cap (w.first .. Direct - 1) : o.slots[p] = d.slots[p]
    BY <1>4, <1>5
  <2>2. QED BY <1>7, <2>1 DEF Round, Counted
<1>12. QED BY <1>3, <1>8, <1>9, <1>10, <1>11 DEF Round, b

(* The indirect block that there is, read before anything is written.      *)
LEMMA OpenedOld ==
  ASSUME Typed, NEW inode \in Inodes, NEW w, Plain(w), NEW e, Promised(w, e),
         BlocksFrom(inode, e), e[-1] # 0, e[-1] < NumBlocks, NEW unset,
         NEW o, o = ArrayRead(Before(inode), unset)
  PROVE  Round(w, e, Slots, o, w.first - 1) /\ o.indirect # 0
<1> DEFINE s == Before(inode)
<1>1. w.first \in Nat /\ w.first .. w.first - 1 = {} /\ (w.first - 1) + 1 = w.first
  BY PlainBlocks
<1>2. /\ s.free = free_bit_map /\ s.disk = disk /\ s.count = 0
      /\ s.indirect = e[-1]
  BY DEF Before, BlocksFrom
<1>3. s \in States
  BY BeforeType
<1>4. \A p \in Pointers : s.slots[p] = e[p]
  BY DEF Before, BlocksFrom, Numbers, Pointers, Slots
<1> HIDE DEF s
<1>5. /\ o.free = free_bit_map /\ o.disk = disk /\ o.count = 0
      /\ o.indirect = e[-1]
  <2>1. o.free = s.free /\ o.indirect = s.indirect
    BY <1>3, ArraysAre DEF s
  <2>2. o.disk = s.disk /\ o.count = s.count
    BY <1>3, ArraysKeep DEF s
  <2>3. QED BY <1>2, <2>1, <2>2
<1>6. \A p \in Slots : o.slots[p] = e[p]
  <2>1. o.slots = Numbers(s.slots, ArrayOn(disk, e[-1], unset))
    <3>1. o.slots = Numbers(s.slots, ArrayOn(s.disk, s.indirect, unset))
      BY <1>3, ArraysAre DEF s
    <3>2. QED BY <1>2, <3>1
  <2>2. ArrayOn(disk, e[-1], unset) = disk[e[-1]]
    BY DEF ArrayOn
  <2>3. \A p \in Slots : p \in Pointers <=> p < Direct
    BY DEF Pointers, Slots
  <2>4. \A p \in Slots \ Pointers : e[p] = disk[e[-1]][p - Direct]
    BY DEF BlocksFrom
  <2>5. QED BY <1>4, <2>1, <2>2, <2>3, <2>4 DEF Numbers
<1>7. \A p \in Slots : p \in Places /\ p # -1
  BY DEF Places, Slots
<1>8. -1 \in Places
  BY DEF Places
<1>9. Placed(w, e, Slots, o, w.first - 1)
  BY <1>1, <1>5, <1>6 DEF Placed
<1>10. Apart(Slots, o)
  <2>1. ASSUME NEW p \in Slots, 0 < o.slots[p], o.slots[p] < NumBlocks
        PROVE  /\ o.slots[p] \notin o.free /\ o.slots[p] # o.indirect
               /\ \A q \in Slots : o.slots[q] = o.slots[p] => q = p
    BY <1>5, <1>6, <1>7, <1>8, <2>1 DEF Promised, Numbered
  <2>2. 0 < o.indirect /\ o.indirect < NumBlocks => o.indirect \notin o.free
    BY <1>5, <1>8 DEF Promised, Numbered
  <2>3. QED BY <2>1, <2>2 DEF Apart
<1>11. Holds(w, e, Slots, o, w.first - 1)
  BY <1>1, <1>5 DEF Holds
<1>12. Counted(w, Slots, o, w.first - 1)
  <2>1. Reached(w, w.first * BlockSize) = 0
    BY <1>1, ReachedEnds
  <2>2. QED BY <1>1, <1>5, <2>1 DEF Counted
<1>13. QED BY <1>5, <1>9, <1>10, <1>11, <1>12 DEF Round

(* Between the loops: the array of numbers is one that was read, or one of *)
(* zeros, unless it is used unread.                                        *)
LEMMA OpenedRound ==
  ASSUME Typed, NEW inode \in Inodes, NEW w, Plain(w), NEW e, Promised(w, e),
         BlocksFrom(inode, e), Direct <= w.last, NEW d \in States,
         Round(w, e, Pointers, d, Behind(w) - 1), d.indirect = e[-1],
         Direct <= w.first => d = Before(inode),
         NEW unset \in [Slots -> Nat],
         Opened(w, d, unset).unread => w.isfirst /\ unset = Clean
  PROVE  /\ Round(w, e, Slots, Opened(w, d, unset), Behind(w) - 1)
         /\ Opened(w, d, unset).indirect # 0
<1> DEFINE o == Opened(w, d, unset)
           n == NewIndirect(d)
<1>1. /\ w \in Writes /\ w.first \in Nat /\ w.last \in Nat
      /\ w.isfirst => w.first = 0
  BY PlainBlocks DEF Plain
<1>2. o \in States /\ n \in States
  BY <1>1, OpenedType, NewIndirectType
<1>3. /\ n.slots = d.slots /\ n.free = d.free \ {Lowest(d.free)}
      /\ n.indirect = Lowest(d.free)
      /\ n.disk = d.disk /\ n.count = d.count
  <2>1. n.slots = d.slots /\ n.free = d.free \ {Lowest(d.free)}
        /\ n.indirect = Lowest(d.free)
    BY ArraysAre
  <2>2. n.disk = d.disk /\ n.count = d.count
    BY ArraysKeep
  <2>3. QED BY <2>1, <2>2
<1>4. Slots \subseteq Places /\ -1 \in Places
  BY DEF Places
<1>5. CASE w.isfirst
  <2>1. o = ArrayUnread(n, unset)
    BY <1>5 DEF Opened
  <2>2. o.unread = TRUE
    <3>1. ArrayUnread(n, unset).unread = TRUE
      BY <1>2, ArraysAre
    <3>2. QED BY <2>1, <3>1
  <2>3. unset = Clean
    BY <2>2
  <2>4. Behind(w) = Direct
    BY <1>1, <1>5 DEF Behind
  <2>5. e[-1] = 0 /\ \A p \in Slots \ Pointers : e[p] = 0
    BY <1>4, <1>5 DEF Promised
  <2>6. \A c \in Cells : Clean[c] = 0
    BY DEF Clean, Cells, Slots
  <2> HIDE DEF n
  <2>7. /\ o.slots = Numbers(d.slots, unset)
        /\ o.free = d.free \ {Lowest(d.free)}
        /\ o.indirect = Lowest(d.free)
        /\ o.disk = d.disk /\ o.count = d.count
    <3>1. /\ ArrayUnread(n, unset).slots = Numbers(n.slots, unset)
          /\ ArrayUnread(n, unset).free = n.free
          /\ ArrayUnread(n, unset).indirect = n.indirect
      BY <1>2, ArraysAre
    <3>2. /\ ArrayUnread(n, unset).disk = n.disk
          /\ ArrayUnread(n, unset).count = n.count
      BY <1>2, ArraysKeep
    <3>3. QED BY <1>3, <2>1, <3>1, <3>2
  <2> HIDE DEF o
  <2>8. Round(w, e, Pointers, d, Direct - 1)
    BY <2>4
  <2>9. Round(w, e, Slots, o, Direct - 1) /\ o.indirect # 0
    BY <1>2, <2>3, <2>5, <2>6, <2>7, <2>8, OpenedNew
  <2>10. QED BY <2>4, <2>9 DEF o
<1>6. CASE ~w.isfirst /\ Direct <= w.first
  <2>1. o = ArrayRead(d, unset) /\ d = Before(inode)
    BY <1>1, <1>6 DEF Opened
  <2>2. o.unread = (d.indirect >= NumBlocks)
    <3>1. ArrayRead(d, unset).unread = (d.indirect >= NumBlocks)
      BY ArraysAre
    <3>2. QED BY <2>1, <3>1
  <2>3. ~o.unread
    BY <1>6
  <2>4. d.indirect \in Nat
    BY DEF States
  <2>5. e[-1] < NumBlocks
    <3>1. ~(d.indirect >= NumBlocks)
      BY <2>2, <2>3
    <3>2. d.indirect < NumBlocks
      BY <2>4, <3>1
    <3>3. QED BY <3>2
  <2>6. e[-1] # 0
    BY <1>6 DEF Promised
  <2>7. Behind(w) = w.first
    BY <1>1, <1>6 DEF Behind
  <2> HIDE DEF o
  <2>8. Round(w, e, Slots, o, w.first - 1) /\ o.indirect # 0
    BY <2>1, <2>5, <2>6, OpenedOld
  <2>9. QED BY <2>7, <2>8 DEF o
<1>7. CASE ~w.isfirst /\ w.first < Direct
  <2>1. ~o.unread
    BY <1>7
  <2>2. GetsIndirect(w, d)
    <3>1. SUFFICES ASSUME ~GetsIndirect(w, d) PROVE FALSE
      OBVIOUS
    <3>2. ~(w.first >= Direct)
      BY <1>1, <1>7
    <3>3. o = ArrayUnread(d, unset)
      BY <1>7, <3>1, <3>2 DEF Opened
    <3>4. ArrayUnread(d, unset).unread = TRUE
      BY ArraysAre
    <3>5. QED BY <2>1, <3>3, <3>4
  <2>3. o = ArrayRead(n, unset)
    <3>1. ~(w.first >= Direct)
      BY <1>1, <1>7
    <3>2. QED BY <1>7, <2>2, <3>1 DEF Opened
  <2>4. e[-1] = 0 /\ \A p \in Slots \ Pointers : e[p] = 0
    BY <2>2 DEF GetsIndirect, BlocksFrom
  <2>5. Behind(w) = Direct
    BY <1>1, <1>7 DEF Behind
  <2> HIDE DEF n
  <2>6. /\ o.slots = Numbers(d.slots, ArrayOn(d.disk, Lowest(d.free), unset))
        /\ o.free = d.free \ {Lowest(d.free)}
        /\ o.indirect = Lowest(d.free)
        /\ o.disk = d.disk /\ o.count = d.count
        /\ o.unread = (Lowest(d.free) >= NumBlocks)
    <3>1. /\ ArrayRead(n, unset).slots =
               Numbers(n.slots, ArrayOn(n.disk, n.indirect, unset))
          /\ ArrayRead(n, unset).free = n.free
          /\ ArrayRead(n, unset).indirect = n.indirect
          /\ ArrayRead(n, unset).unread = (n.indirect >= NumBlocks)
      BY <1>2, ArraysAre
    <3>2. /\ ArrayRead(n, unset).disk = n.disk
          /\ ArrayRead(n, unset).count = n.count
      BY <1>2, ArraysKeep
    <3>3. QED BY <1>3, <2>3, <3>1, <3>2
  <2> DEFINE b == Lowest(d.free)
             a == ArrayOn(d.disk, b, unset)
  <2>7. b \in d.free /\ b \in free_bit_map /\ b < NumBlocks /\ b \in Blocks
        /\ 0 < b
    <3>1. d.free \subseteq Unreserved /\ d.free \subseteq 0 .. BitmapBits - 1
          /\ d.free \subseteq free_bit_map
      BY DEF States, Unreserved, Round, Placed
    <3>2. b \in d.free \union {BitmapBits} /\ b \in 0 .. BitmapBits
      BY <3>1, LowestIs
    <3>3. ~(b >= NumBlocks)
      BY <2>1, <2>6
    <3> HIDE DEF b, a
    <3>4. b < NumBlocks
      BY <3>2, <3>3
    <3>5. b \in d.free
      BY <3>2, <3>4
    <3>6. QED BY <3>1, <3>4, <3>5 DEF Blocks, Unreserved
  <2>8. \A c \in Cells : a[c] = 0
    <3> HIDE DEF b
    <3>1. a = d.disk[b]
      BY <2>7 DEF ArrayOn
    <3>2. disk[b] = Zeros
      BY <2>7 DEF Promised
    <3>3. d.disk[b] = disk[b]
      <4>1. \A p \in Pointers : d.slots[p] # b
        BY <2>7 DEF Round, Apart
      <4>2. QED BY <2>5, <2>7, <4>1 DEF Round, Holds
    <3>4. QED BY <3>1, <3>2, <3>3 DEF Zeros
  <2>9. Round(w, e, Pointers, d, Direct - 1)
    BY <2>5
  <2> HIDE DEF o, b, a
  <2>10. /\ o.slots = Numbers(d.slots, a)
         /\ o.free = d.free \ {Lowest(d.free)} /\ o.indirect = Lowest(d.free)
         /\ o.disk = d.disk /\ o.count = d.count
    BY <2>6 DEF a, b
  <2>11. Round(w, e, Slots, o, Direct - 1) /\ o.indirect # 0
    BY <1>2, <2>4, <2>8, <2>9, <2>10, OpenedNew
  <2>12. QED BY <2>5, <2>11 DEF o
<1>8. QED BY <1>1, <1>5, <1>6, <1>7

LEMMA WrittenRound ==
  ASSUME Typed, NEW inode \in Inodes, NEW w, Plain(w), w.last \in Slots,
         NEW e, Promised(w, e), BlocksFrom(inode, e),
         NEW unset \in [Slots -> Nat],
         Written(w, Before(inode), unset).unread => w.isfirst /\ unset = Clean
  PROVE  LET s == Written(w, Before(inode), unset)
         IN /\ w.last < Direct =>
                 Round(w, e, Pointers, s, w.last) /\ s.indirect = e[-1]
            /\ Direct <= w.last =>
                 Round(w, e, Slots, s, w.last) /\ s.indirect # 0
<1> DEFINE f == Before(inode)
           s == Written(w, f, unset)
           L == Loop(w, f, w.first)
           d == L[Direct - 1]
           o == Opened(w, d, unset)
<1>1. /\ w \in Writes /\ w.first \in Nat /\ w.last \in Nat /\ w.first <= w.last
      /\ calls \in Nat /\ f \in States
      /\ w.last \in 0 .. Direct + BlockSize - 1
  BY PlainBlocks, BeforeType DEF Plain, Typed, Slots
<1>2. Round(w, e, Pointers, f, w.first - 1) /\ f.indirect = e[-1]
  <2>1. Round(w, e, Pointers, f, w.first - 1)
    BY RoundBefore
  <2>2. f.indirect = e[-1]
    BY DEF Before, BlocksFrom
  <2>3. QED BY <2>1, <2>2
<1> HIDE DEF f
<1>3. Pointers \subseteq Slots /\ Slots \subseteq Slots
  BY DEF Pointers, Slots
<1>4. CASE w.last < Direct
  <2>1. s = L[w.last]
    BY <1>4, WrittenIs
  <2>2. w.last \in w.first - 1 .. Direct + BlockSize - 1 /\ w.first <= w.first
        /\ w.last \in -1 .. Direct + BlockSize - 1
    BY <1>1
  <2>3. w.first .. w.last \subseteq Pointers
    BY <1>1, <1>4 DEF Pointers
  <2>4. Round(w, e, Pointers, L[w.last], w.last)
    BY <1>1, <1>2, <1>3, <2>2, <2>3, LoopRound
  <2>5. L[w.last].indirect = e[-1]
    BY <1>1, <1>2, <2>2, LoopKeeps
  <2> HIDE DEF s, L
  <2>6. ~(Direct <= w.last)
    BY <1>1, <1>4
  <2>7. QED BY <1>4, <2>1, <2>4, <2>5, <2>6 DEF s, f
<1>5. CASE Direct <= w.last
  <2>1. s = Loop(w, o, Behind(w))[w.last]
    BY <1>5, WrittenIs
  <2>2. Direct <= w.first => d = f
    BY WrittenIs
  <2>3. Direct - 1 \in -1 .. Direct + BlockSize - 1
    OBVIOUS
  <2>4. d \in States /\ d.indirect = e[-1]
    <3>1. d \in States
      BY <1>1, <2>3, LoopType
    <3>2. d.indirect = f.indirect
      BY <1>1, <2>3, LoopKeeps
    <3>3. QED BY <1>2, <3>1, <3>2
  <2>5. Round(w, e, Pointers, d, Behind(w) - 1)
    <3>1. CASE Direct <= w.first
      <4>1. Behind(w) = w.first
        BY <1>1, <3>1 DEF Behind
      <4>2. QED BY <1>2, <2>2, <3>1, <4>1
    <3>2. CASE ~(Direct <= w.first)
      <4>1. Behind(w) = Direct
        BY <1>1, <3>2 DEF Behind
      <4>2. /\ Direct - 1 \in w.first - 1 .. Direct + BlockSize - 1
            /\ w.first .. Direct - 1 \subseteq Pointers /\ w.first <= w.first
        BY <1>1, <3>2 DEF Pointers
      <4> HIDE DEF L
      <4>3. Round(w, e, Pointers, Loop(w, f, w.first)[Direct - 1], Direct - 1)
        BY <1>1, <1>2, <1>3, <4>2, LoopRound
      <4>4. QED BY <4>1, <4>3 DEF L
    <3>3. QED BY <3>1, <3>2
  <2> HIDE DEF d
  <2>6. o \in States
    BY <1>1, <2>4, OpenedType
  <2>7. /\ Behind(w) \in Nat /\ Behind(w) \in Slots /\ w.first <= Behind(w)
        /\ w.last \in Behind(w) - 1 .. Direct + BlockSize - 1
        /\ Behind(w) .. w.last \subseteq Slots
        /\ w.last \in -1 .. Direct + BlockSize - 1
    BY <1>1, <1>5 DEF Behind, Slots
  <2>8. s.unread = o.unread /\ s.indirect = o.indirect
    <3> HIDE DEF o
    <3>1. /\ Loop(w, o, Behind(w))[w.last].unread = o.unread
          /\ Loop(w, o, Behind(w))[w.last].indirect = o.indirect
      BY <1>1, <2>6, <2>7, LoopKeeps
    <3>2. QED BY <2>1, <3>1
  <2>9. s.unread => w.isfirst /\ unset = Clean
    BY DEF f
  <2> HIDE DEF s
  <2>10. o.unread => w.isfirst /\ unset = Clean
    BY <2>8, <2>9
  <2>11. Round(w, e, Slots, o, Behind(w) - 1) /\ o.indirect # 0
    <3>1. Direct <= w.first => d = Before(inode)
      BY <2>2 DEF f
    <3>2. QED BY <1>5, <2>4, <2>5, <2>10, <3>1, OpenedRound
  <2> HIDE DEF o
  <2>12. Round(w, e, Slots, Loop(w, o, Behind(w))[w.last], w.last)
    BY <1>1, <1>3, <2>6, <2>7, <2>11, LoopRound
  <2>13. ~(w.last < Direct)
    BY <1>1, <1>5
  <2>14. QED BY <2>1, <2>8, <2>11, <2>12, <2>13 DEF s, f
<1>6. QED BY <1>1, <1>4, <1>5

(* What is known of the rounds when they have ended.                       *)
LEMMA RoundFree ==
  ASSUME NEW w, NEW e, NEW K, NEW s, Round(w, e, K, s, w.last)
  PROVE  s.free \subseteq free_bit_map
BY DEF Round, Placed

LEMMA RoundNumbers ==
  ASSUME NEW w, Plain(w), NEW e, Promised(w, e), NEW K, K \subseteq Slots,
         NEW s \in States, Round(w, e, K, s, w.last)
  PROVE  \A p \in K :
           /\ \/ s.slots[p] = e[p]
              \/ s.slots[p] \in free_bit_map \union {BitmapBits}
           /\ e[p] # 0 => s.slots[p] = e[p]
           /\ p \notin w.first .. w.last => s.slots[p] = e[p]
           /\ p \in w.first .. w.last => s.slots[p] # 0
<1>1. /\ free_bit_map \subseteq Unreserved
      /\ \A p \in K : s.slots[p] \in Nat
  BY DEF States, SlotMaps, Promised
<1>2. /\ w.first \in Nat /\ w.last \in Nat
      /\ K \subseteq Places
  BY PlainBlocks DEF Places
<1>3. SUFFICES
        ASSUME NEW p \in K
        PROVE  /\ \/ s.slots[p] = e[p]
                  \/ s.slots[p] \in free_bit_map \union {BitmapBits}
               /\ e[p] # 0 => s.slots[p] = e[p]
               /\ p \notin w.first .. w.last => s.slots[p] = e[p]
               /\ p \in w.first .. w.last => s.slots[p] # 0
  OBVIOUS
<1>4. IF p \in w.first .. w.last /\ Fresh(w, e, p)
        THEN s.slots[p] \in free_bit_map \union {BitmapBits}
        ELSE s.slots[p] = e[p]
  BY DEF Round, Placed
<1>5. Fresh(w, e, p) => e[p] = 0
  BY <1>2 DEF Fresh, Promised
<1>6. ~Fresh(w, e, p) => e[p] # 0
  BY DEF Fresh, Promised
<1>7. 0 \notin free_bit_map \union {BitmapBits}
  BY <1>1 DEF Unreserved
<1>8. QED BY <1>4, <1>5, <1>6, <1>7

LEMMA RoundDisk ==
  ASSUME NEW w, Plain(w), NEW e, Promised(w, e), NEW K, K \subseteq Slots,
         NEW s \in States, Round(w, e, K, s, w.last)
  PROVE  \A b \in Blocks :
           \/ s.disk[b] = disk[b]
           \/ /\ b # 0 /\ b \notin s.free
              /\ b \in free_bit_map \/ \E p \in K : e[p] = b
              /\ \E p \in K \cap (w.first .. w.last) : s.slots[p] = b
<1>1. SUFFICES
        ASSUME NEW b \in Blocks, s.disk[b] # disk[b]
        PROVE  /\ b # 0 /\ b \notin s.free
               /\ b \in free_bit_map \/ \E p \in K : e[p] = b
               /\ \E p \in K \cap (w.first .. w.last) : s.slots[p] = b
  OBVIOUS
<1>2. PICK p \in K \cap (w.first .. w.last) : s.slots[p] = b
  BY <1>1 DEF Round, Holds
<1>3. b \in Nat /\ b < NumBlocks /\ b # BitmapBits
  BY DEF Blocks
<1>4. /\ s.slots[p] # 0
      /\ s.slots[p] = e[p] \/ s.slots[p] \in free_bit_map \union {BitmapBits}
  BY RoundNumbers
<1>5. b \notin s.free
  BY <1>2, <1>3, <1>4 DEF Round, Apart
<1>6. QED BY <1>2, <1>3, <1>4, <1>5

(* The blocks E that the file has after a write that ends in state s.      *)
StoredBlocks(s, E) ==
  /\ E \in [Places -> Nat] /\ E[-1] = s.indirect
  /\ \A p \in Pointers : E[p] = s.slots[p]
  /\ \A p \in Slots \ Pointers :
       E[p] = IF E[-1] = 0 THEN 0
              ELSE IF E[-1] < NumBlocks THEN disk'[E[-1]][p - Direct]
              ELSE BitmapBits

(* They are used once and not free,                                        *)
Separate(e, s, E) ==
  \A p \in Places : 0 < E[p] /\ E[p] < NumBlocks =>
    /\ E[p] \notin s.free
    /\ E[p] = e[p] \/ E[p] \in free_bit_map
    /\ \A q \in Places : E[q] = E[p] => q = p

(* hold what was written and what they held,                               *)
Filled(w, e, s, E) ==
  /\ \A p \in w.first .. w.last :
       /\ E[p] # 0
       /\ E[p] < NumBlocks => /\ E[p] = s.slots[p]
                              /\ disk'[E[p]] = Now(w, e, p)
  /\ \A p \in Slots \ (w.first .. w.last) :
       E[p] < NumBlocks => /\ E[p] = e[p]
                           /\ 0 < E[p] => disk'[E[p]] = disk[E[p]]
  /\ \A b \in Blocks :
       \/ disk'[b] = disk[b]
       \/ /\ b # 0 /\ b \notin s.free
          /\ b \in free_bit_map \/ \E p \in Places : e[p] = b

(* and none that was there is missing.                                     *)
Complete(w, e, s, E) ==
  /\ \A p \in Places : e[p] # 0 => E[p] = e[p] \/ NumBlocks <= E[p]
  /\ \A p \in Places \ (w.first .. w.last) :
       \/ E[p] = e[p] \/ NumBlocks <= E[p]
       \/ p = -1 /\ Direct <= w.last
  /\ Direct <= w.last => E[-1] # 0
  /\ (\A p \in Places : E[p] < NumBlocks) => s.count = w.length

Result(w, e, s, E) ==
  /\ s.free \subseteq free_bit_map
  /\ Separate(e, s, E) /\ Filled(w, e, s, E) /\ Complete(w, e, s, E)

(* A write that ends in the direct blocks.                                 *)
LEMMA StoredDirect ==
  ASSUME Typed, NEW inode \in Inodes, NEW w, Plain(w), w.last \in Slots,
         w.last < Direct, NEW e, Promised(w, e), BlocksFrom(inode, e),
         NEW s \in States, Round(w, e, Pointers, s, w.last),
         s.indirect = e[-1], disk' = s.disk, NEW E, StoredBlocks(s, E)
  PROVE  Result(w, e, s, E)
<1>1. /\ Pointers \subseteq Slots /\ Slots \subseteq Slots
      /\ Slots \subseteq Places /\ -1 \in Places
      /\ -1 \notin Slots
      /\ \A p \in Places : p = -1 \/ p \in Slots
      /\ \A p \in Slots : p \in Pointers <=> p < Direct
      /\ \A p \in Places : p \in Int
  BY DEF Pointers, Slots, Places
<1>2. /\ w.first \in Nat /\ w.last \in Nat
      /\ w.first .. w.last \subseteq Pointers
  BY PlainBlocks DEF Pointers
<1>3. /\ s.free \subseteq free_bit_map
      /\ \A p \in Pointers :
           /\ s.slots[p] = e[p] \/ s.slots[p] \in free_bit_map \union {BitmapBits}
           /\ e[p] # 0 => s.slots[p] = e[p]
      /\ \A p \in Pointers \ (w.first .. w.last) : s.slots[p] = e[p]
      /\ \A p \in Pointers \cap (w.first .. w.last) : s.slots[p] # 0
      /\ \A b \in Blocks :
           \/ s.disk[b] = disk[b]
           \/ /\ b # 0 /\ b \notin s.free
              /\ b \in free_bit_map \/ \E p \in Pointers : e[p] = b
              /\ \E p \in Pointers \cap (w.first .. w.last) : s.slots[p] = b
  <2>1. /\ s.free \subseteq free_bit_map
        /\ \A p \in Pointers :
             /\ s.slots[p] = e[p] \/ s.slots[p] \in free_bit_map \union {BitmapBits}
             /\ e[p] # 0 => s.slots[p] = e[p]
        /\ \A p \in Pointers \ (w.first .. w.last) : s.slots[p] = e[p]
        /\ \A p \in Pointers \cap (w.first .. w.last) : s.slots[p] # 0
    <3>1. Pointers \subseteq Slots
      BY <1>1
    <3>2. s.free \subseteq free_bit_map
      BY RoundFree
    <3>3. \A p \in Pointers :
            /\ \/ s.slots[p] = e[p]
               \/ s.slots[p] \in free_bit_map \union {BitmapBits}
            /\ e[p] # 0 => s.slots[p] = e[p]
            /\ p \notin w.first .. w.last => s.slots[p] = e[p]
            /\ p \in w.first .. w.last => s.slots[p] # 0
      BY <3>1, RoundNumbers
    <3>4. QED BY <3>2, <3>3
  <2>2. \A b \in Blocks :
             \/ s.disk[b] = disk[b]
             \/ /\ b # 0 /\ b \notin s.free
                /\ b \in free_bit_map \/ \E p \in Pointers : e[p] = b
                /\ \E p \in Pointers \cap (w.first .. w.last) : s.slots[p] = b
    <3>1. Pointers \subseteq Slots
      BY <1>1
    <3>2. QED BY <3>1, RoundDisk
  <2>3. QED BY <2>1, <2>2
<1>4. \A p \in Pointers : E[p] = s.slots[p]
  BY DEF StoredBlocks
<1>5. E \in [Places -> Nat] /\ e \in [Places -> Nat]
  BY DEF StoredBlocks, Promised, Numbered
<1>6. ASSUME NEW p \in Pointers, 0 < E[p], E[p] < NumBlocks
      PROVE  /\ E[p] \notin s.free /\ E[p] # e[-1]
             /\ \A q \in Pointers : E[q] = E[p] => q = p
  BY <1>4, <1>6 DEF Round, Apart
<1>7. ASSUME NEW p \in Places, p \notin Pointers PROVE E[p] = e[p]
  <2>1. E[-1] = e[-1]
    BY DEF StoredBlocks
  <2>2. CASE p \in Slots
    <3>1. CASE E[-1] # 0 /\ E[-1] < NumBlocks
      <4>1. E[-1] \in Blocks
        BY <1>1, <1>5, <3>1 DEF Blocks
      <4>2. \A q \in Pointers \cap (w.first .. w.last) : s.slots[q] # E[-1]
        BY <1>4, <1>5, <1>6, <2>1, <3>1, <1>1
      <4>3. disk'[E[-1]] = disk[E[-1]]
        BY <1>3, <4>1, <4>2
      <4>4. QED BY <1>7, <2>1, <2>2, <3>1, <4>3 DEF StoredBlocks, BlocksFrom
    <3>2. CASE ~(E[-1] # 0 /\ E[-1] < NumBlocks)
      BY <1>7, <2>1, <2>2, <3>2 DEF StoredBlocks, BlocksFrom
    <3>3. QED BY <3>1, <3>2
  <2>3. QED BY <1>1, <2>1, <2>2
<1>8. ASSUME NEW p \in Places, 0 < e[p], e[p] < NumBlocks
      PROVE  /\ e[p] \notin free_bit_map
             /\ \A q \in Places : e[q] = e[p] => q = p
  BY <1>8 DEF Promised, Numbered
<1>9. Separate(e, s, E)
  <2>1. ASSUME NEW p \in Places, 0 < E[p], E[p] < NumBlocks
        PROVE  /\ E[p] \notin s.free
               /\ E[p] = e[p] \/ E[p] \in free_bit_map
    <3>1. CASE p \in Pointers
      BY <1>3, <1>4, <1>6, <2>1, <3>1
    <3>2. CASE p \notin Pointers
      BY <1>3, <1>7, <1>8, <2>1, <3>2
    <3>3. QED BY <3>1, <3>2
  <2>2. ASSUME NEW p \in Pointers, NEW q \in Places, q \notin Pointers,
               0 < E[p], E[p] < NumBlocks, E[q] = E[p]
        PROVE  FALSE
    <3>1. e[q] = E[p] /\ e[q] \notin free_bit_map
          /\ \A r \in Places : e[r] = e[q] => r = q
      BY <1>7, <1>8, <2>2
    <3>2. E[p] = e[p]
      BY <1>3, <1>4, <2>2, <3>1
    <3>3. QED BY <1>1, <2>2, <3>1, <3>2
  <2>3. ASSUME NEW p \in Places, 0 < E[p], E[p] < NumBlocks,
               NEW q \in Places, E[q] = E[p]
        PROVE  q = p
    <3>1. CASE p \in Pointers /\ q \in Pointers
      BY <1>6, <2>3, <3>1
    <3>2. CASE p \in Pointers /\ q \notin Pointers
      BY <2>2, <2>3, <3>2
    <3>3. CASE p \notin Pointers /\ q \in Pointers
      BY <2>2, <2>3, <3>3
    <3>4. CASE p \notin Pointers /\ q \notin Pointers
      BY <1>7, <1>8, <2>3, <3>4
    <3>5. QED BY <3>1, <3>2, <3>3, <3>4
  <2>4. QED BY <2>1, <2>3 DEF Separate
<1>10. Filled(w, e, s, E)
  <2>1. ASSUME NEW p \in w.first .. w.last
        PROVE  /\ E[p] # 0
               /\ E[p] < NumBlocks => /\ E[p] = s.slots[p]
                                      /\ disk'[E[p]] = Now(w, e, p)
    <3>1. p \in Pointers /\ p \in Pointers \cap (w.first .. w.last)
      BY <1>2
    <3>2. s.slots[p] < NumBlocks => s.disk[s.slots[p]] = Now(w, e, p)
      BY <3>1 DEF Round, Holds
    <3>3. QED BY <1>3, <1>4, <3>1, <3>2
  <2>2. ASSUME NEW p \in Slots \ (w.first .. w.last), E[p] < NumBlocks
        PROVE  E[p] = e[p] /\ (0 < E[p] => disk'[E[p]] = disk[E[p]])
    <3>1. E[p] = e[p]
      BY <1>1, <1>3, <1>4, <1>7
    <3>2. ASSUME 0 < E[p] PROVE disk'[E[p]] = disk[E[p]]
      <4>1. E[p] \in Blocks
        BY <1>1, <1>5, <2>2 DEF Blocks
      <4>2. ASSUME NEW q \in Pointers \cap (w.first .. w.last),
                   s.slots[q] = E[p]
            PROVE  FALSE
        BY <1>1, <1>4, <1>9, <2>2, <3>2, <4>2 DEF Separate
      <4>3. QED BY <1>3, <4>1, <4>2
    <3>3. QED BY <3>1, <3>2
  <2>3. \A b \in Blocks :
          \/ disk'[b] = disk[b]
          \/ /\ b # 0 /\ b \notin s.free
             /\ b \in free_bit_map \/ \E p \in Places : e[p] = b
    BY <1>1, <1>3
  <2>4. QED BY <2>1, <2>2, <2>3 DEF Filled
<1>11. Complete(w, e, s, E)
  <2>1. \A p \in Places : e[p] # 0 => E[p] = e[p]
    BY <1>3, <1>4, <1>7
  <2>2. \A p \in Places \ (w.first .. w.last) : E[p] = e[p]
    BY <1>3, <1>4, <1>7
  <2>3. ~(Direct <= w.last)
    BY <1>2
  <2>4. ASSUME \A p \in Places : E[p] < NumBlocks PROVE s.count = w.length
    <3>1. \A p \in Pointers \cap (w.first .. w.last) : s.slots[p] < NumBlocks
      BY <1>1, <1>4, <2>4
    <3>2. s.count = Reached(w, (w.last + 1) * BlockSize)
      BY <3>1 DEF Round, Counted
    <3>3. QED BY <3>2, ReachedEnds
  <2>5. QED BY <2>1, <2>2, <2>3, <2>4 DEF Complete
<1>12. QED BY <1>3, <1>9, <1>10, <1>11 DEF Result

(* A write that goes on to the blocks of the array, which it stores.       *)
LEMMA StoredBehind ==
  ASSUME Typed, NEW inode \in Inodes, NEW w, Plain(w), w.last \in Slots,
         Direct <= w.last, NEW e, Promised(w, e), BlocksFrom(inode, e),
         NEW s \in States, Round(w, e, Slots, s, w.last),
         s.indirect # 0, disk' = StoredArray(s), NEW E, StoredBlocks(s, E)
  PROVE  Result(w, e, s, E)
<1>1. /\ Pointers \subseteq Slots /\ Slots \subseteq Slots
      /\ Slots \subseteq Places /\ -1 \in Places
      /\ -1 \notin Slots
      /\ \A p \in Places : p = -1 \/ p \in Slots
      /\ \A p \in Slots : p \in Pointers <=> p < Direct
      /\ \A p \in Places : p \in Int
  BY DEF Pointers, Slots, Places
<1>2. /\ w.first \in Nat /\ w.last \in Nat
      /\ w.first .. w.last \subseteq Slots
  BY PlainBlocks DEF Slots
<1>3. /\ s.free \subseteq free_bit_map
      /\ \A p \in Slots :
           /\ s.slots[p] = e[p] \/ s.slots[p] \in free_bit_map \union {BitmapBits}
           /\ e[p] # 0 => s.slots[p] = e[p]
      /\ \A p \in Slots \ (w.first .. w.last) : s.slots[p] = e[p]
      /\ \A p \in Slots \cap (w.first .. w.last) : s.slots[p] # 0
      /\ \A b \in Blocks :
           \/ s.disk[b] = disk[b]
           \/ /\ b # 0 /\ b \notin s.free
              /\ b \in free_bit_map \/ \E p \in Slots : e[p] = b
              /\ \E p \in Slots \cap (w.first .. w.last) : s.slots[p] = b
  <2>1. /\ s.free \subseteq free_bit_map
        /\ \A p \in Slots :
             /\ s.slots[p] = e[p] \/ s.slots[p] \in free_bit_map \union {BitmapBits}
             /\ e[p] # 0 => s.slots[p] = e[p]
        /\ \A p \in Slots \ (w.first .. w.last) : s.slots[p] = e[p]
        /\ \A p \in Slots \cap (w.first .. w.last) : s.slots[p] # 0
    <3>1. Slots \subseteq Slots
      BY <1>1
    <3>2. s.free \subseteq free_bit_map
      BY RoundFree
    <3>3. \A p \in Slots :
            /\ \/ s.slots[p] = e[p]
               \/ s.slots[p] \in free_bit_map \union {BitmapBits}
            /\ e[p] # 0 => s.slots[p] = e[p]
            /\ p \notin w.first .. w.last => s.slots[p] = e[p]
            /\ p \in w.first .. w.last => s.slots[p] # 0
      BY <3>1, RoundNumbers
    <3>4. QED BY <3>2, <3>3
  <2>2. \A b \in Blocks :
             \/ s.disk[b] = disk[b]
             \/ /\ b # 0 /\ b \notin s.free
                /\ b \in free_bit_map \/ \E p \in Slots : e[p] = b
                /\ \E p \in Slots \cap (w.first .. w.last) : s.slots[p] = b
    <3>1. Slots \subseteq Slots
      BY <1>1
    <3>2. QED BY <3>1, RoundDisk
  <2>3. QED BY <2>1, <2>2
<1>4. /\ E \in [Places -> Nat] /\ e \in [Places -> Nat]
      /\ E[-1] = s.indirect /\ s.indirect \in Nat
  BY DEF StoredBlocks, Promised, Numbered, States
<1>5. /\ s.disk \in [Blocks -> [Cells -> Nat]]
      /\ s.slots \in [Slots -> Nat]
  BY DEF States, SlotMaps
<1>6. \A b \in Blocks : b # s.indirect => disk'[b] = s.disk[b]
  BY <1>5 DEF StoredArray
<1>7. ASSUME NEW p \in Slots
      PROVE  E[p] = s.slots[p] \/ (E[p] = BitmapBits /\ NumBlocks <= s.indirect)
  <2>1. CASE p \in Pointers
    BY <2>1 DEF StoredBlocks
  <2>2. CASE p \notin Pointers /\ s.indirect < NumBlocks
    <3>1. E[p] = disk'[s.indirect][p - Direct]
      BY <1>4, <2>2 DEF StoredBlocks
    <3>2. p - Direct \in Cells /\ p - Direct \in Slots
          /\ Direct + (p - Direct) = p
      BY <1>1, <2>2 DEF Slots, Cells
    <3>3. s.indirect \in Blocks
      BY <1>4, <2>2 DEF Blocks
    <3>4. disk'[s.indirect] = Restrict(ArrayOf(s.slots), Cells)
      BY <1>5, <2>2, <3>3 DEF StoredArray
    <3>5. Restrict(ArrayOf(s.slots), Cells)[p - Direct] = s.slots[p]
      BY <3>2 DEF Restrict, ArrayOf
    <3>6. QED BY <3>1, <3>4, <3>5
  <2>3. CASE p \notin Pointers /\ ~(s.indirect < NumBlocks)
    <3>1. E[p] = BitmapBits
      BY <1>4, <2>3 DEF StoredBlocks
    <3>2. QED BY <1>4, <2>3, <3>1
  <2>4. QED BY <2>1, <2>2, <2>3
<1>8. \A p \in Slots : E[p] < NumBlocks => E[p] = s.slots[p]
  BY <1>7
<1>9. /\ 0 < s.indirect
      /\ s.indirect < NumBlocks => s.indirect \notin s.free
      /\ s.indirect = e[-1] \/ s.indirect \in free_bit_map \union {BitmapBits}
      /\ e[-1] # 0 => s.indirect = e[-1]
  <2>1. \/ s.indirect = e[-1]
        \/ e[-1] = 0 /\ s.indirect \in free_bit_map \union {BitmapBits}
    BY DEF Round, Placed
  <2>2. 0 < s.indirect /\ s.indirect < NumBlocks => s.indirect \notin s.free
    BY DEF Round, Apart
  <2>3. 0 < s.indirect
    BY <1>4
  <2>4. QED BY <2>1, <2>2, <2>3
<1>10. Separate(e, s, E)
  <2>1. ASSUME NEW p \in Slots, 0 < E[p], E[p] < NumBlocks
        PROVE  /\ E[p] = s.slots[p]
               /\ E[p] \notin s.free /\ E[p] # E[-1]
               /\ \A q \in Slots : s.slots[q] = E[p] => q = p
    BY <1>4, <1>8, <2>1 DEF Round, Apart
  <2>2. ASSUME NEW p \in Slots, 0 < E[p], E[p] < NumBlocks
        PROVE  \A q \in Slots : E[q] = E[p] => q = p
    BY <1>8, <2>1, <2>2
  <2>3. ASSUME NEW p \in Places, 0 < E[p], E[p] < NumBlocks
        PROVE  /\ E[p] \notin s.free
               /\ E[p] = e[p] \/ E[p] \in free_bit_map
    <3>1. CASE p \in Slots
      BY <1>3, <2>1, <2>3, <3>1
    <3>2. CASE p = -1
      BY <1>4, <1>9, <2>3, <3>2
    <3>3. QED BY <1>1, <3>1, <3>2
  <2>4. ASSUME NEW p \in Places, 0 < E[p], E[p] < NumBlocks,
               NEW q \in Places, E[q] = E[p]
        PROVE  q = p
    <3>1. CASE p \in Slots /\ q \in Slots
      BY <2>2, <2>4, <3>1
    <3>2. CASE p \in Slots /\ q = -1
      BY <2>1, <2>4, <3>2
    <3>3. CASE p = -1 /\ q \in Slots
      BY <2>1, <2>4, <3>3
    <3>4. QED BY <1>1, <3>1, <3>2, <3>3
  <2>5. QED BY <2>3, <2>4 DEF Separate
<1>11. Filled(w, e, s, E)
  <2>1. ASSUME NEW p \in w.first .. w.last
        PROVE  /\ E[p] # 0
               /\ E[p] < NumBlocks => /\ E[p] = s.slots[p]
                                      /\ disk'[E[p]] = Now(w, e, p)
    <3>1. p \in Slots /\ p \in Slots \cap (w.first .. w.last) /\ p \in Places
      BY <1>1, <1>2
    <3>2. E[p] # 0
      BY <1>3, <1>7, <3>1
    <3>3. ASSUME E[p] < NumBlocks
          PROVE  E[p] = s.slots[p] /\ disk'[E[p]] = Now(w, e, p)
      <4>1. E[p] = s.slots[p]
        BY <1>8, <3>1, <3>3
      <4>2. s.disk[s.slots[p]] = Now(w, e, p)
        BY <3>1, <3>3, <4>1 DEF Round, Holds
      <4>3. E[p] \in Nat /\ 0 < E[p]
        BY <1>4, <3>1, <3>2
      <4>4. E[p] # s.indirect
        BY <1>1, <1>4, <1>10, <3>1, <3>3, <4>3 DEF Separate
      <4>5. E[p] \in Blocks
        BY <3>3, <4>3 DEF Blocks
      <4>6. QED BY <1>6, <4>1, <4>2, <4>4, <4>5
    <3>4. QED BY <3>2, <3>3
  <2>2. ASSUME NEW p \in Slots \ (w.first .. w.last), E[p] < NumBlocks
        PROVE  E[p] = e[p] /\ (0 < E[p] => disk'[E[p]] = disk[E[p]])
    <3>1. E[p] = e[p]
      BY <1>3, <1>8, <2>2
    <3>2. ASSUME 0 < E[p] PROVE disk'[E[p]] = disk[E[p]]
      <4>1. E[p] \in Blocks
        BY <1>1, <1>4, <2>2 DEF Blocks
      <4>2. ASSUME NEW q \in Slots \cap (w.first .. w.last),
                   s.slots[q] = E[p]
            PROVE  FALSE
        <5>1. E[p] = s.slots[p]
          BY <1>8, <2>2
        <5>2. q = p
          BY <2>2, <3>2, <4>2, <5>1 DEF Round, Apart
        <5>3. QED BY <5>2
      <4>3. E[p] # s.indirect
        BY <1>1, <1>4, <1>10, <2>2, <3>2 DEF Separate
      <4>4. QED BY <1>3, <1>6, <4>1, <4>2, <4>3
    <3>3. QED BY <3>1, <3>2
  <2>3. ASSUME NEW b \in Blocks, disk'[b] # disk[b]
        PROVE  /\ b # 0 /\ b \notin s.free
               /\ b \in free_bit_map \/ \E p \in Places : e[p] = b
    <3>1. CASE b = s.indirect
      <4>1. b < NumBlocks /\ b # BitmapBits
        BY DEF Blocks
      <4>2. QED BY <1>1, <1>9, <3>1, <4>1
    <3>2. CASE b # s.indirect
      BY <1>1, <1>3, <1>6, <2>3, <3>2
    <3>3. QED BY <3>1, <3>2
  <2>4. QED BY <2>1, <2>2, <2>3 DEF Filled
<1>12. Complete(w, e, s, E)
  <2>1. \A p \in Slots : E[p] = s.slots[p] \/ NumBlocks <= E[p]
    BY <1>7
  <2>2. \A p \in Places : e[p] # 0 => E[p] = e[p] \/ NumBlocks <= E[p]
    BY <1>1, <1>3, <1>4, <1>9, <2>1
  <2>3. \A p \in Places \ (w.first .. w.last) :
          \/ E[p] = e[p] \/ NumBlocks <= E[p]
          \/ p = -1 /\ Direct <= w.last
    BY <1>1, <1>3, <2>1
  <2>4. E[-1] # 0
    BY <1>4
  <2>5. ASSUME \A p \in Places : E[p] < NumBlocks PROVE s.count = w.length
    <3>1. \A p \in Slots \cap (w.first .. w.last) : s.slots[p] < NumBlocks
      BY <1>1, <1>8, <2>5
    <3>2. s.count = Reached(w, (w.last + 1) * BlockSize)
      BY <3>1 DEF Round, Counted
    <3>3. QED BY <3>2, ReachedEnds
  <2>6. QED BY <2>2, <2>3, <2>4, <2>5 DEF Complete
<1>13. QED BY <1>3, <1>10, <1>11, <1>12 DEF Result


-----------------------------------------------------------------------------
(* The blocks of all files.                                                *)

LEMMA BlocksAre ==
  Typed => \A i \in Inodes : /\ BlocksOf(i) \in [Places -> Nat]
                             /\ BlocksFrom(i, BlocksOf(i))
<1> SUFFICES ASSUME Typed, NEW i \in Inodes
             PROVE  BlocksOf(i) \in [Places -> Nat] /\ BlocksFrom(i, BlocksOf(i))
  OBVIOUS
<1> DEFINE file  == table[i]
           a     == IF file.indirectptr = 0 THEN Zeros
                    ELSE ArrayOn(disk, file.indirectptr, Lost)
           slots == Numbers(file.data_ptrs, a)
<1>1. /\ file \in InodeRecords /\ file.indirectptr \in Nat
      /\ \A p \in Pointers : file.data_ptrs[p] \in Nat
      /\ disk \in [Blocks -> [Cells -> Nat]]
  BY DEF Typed, InodeRecords
<1>2. \A c \in Cells :
        /\ a[c] \in Nat
        /\ a[c] = IF file.indirectptr = 0 THEN 0
                  ELSE IF file.indirectptr < NumBlocks
                         THEN disk[file.indirectptr][c]
                  ELSE BitmapBits
  <2>1. file.indirectptr < NumBlocks => file.indirectptr \in Blocks
    BY <1>1 DEF Blocks
  <2>2. QED BY <1>1, <2>1 DEF ArrayOn, Zeros, Lost
<1>3. BlocksOf(i) = [j \in Places |-> IF j = -1 THEN file.indirectptr
                                                ELSE slots[j]]
  BY DEF BlocksOf
<1>4. /\ Pointers \subseteq Slots /\ Slots \subseteq Places /\ -1 \in Places
      /\ -1 \notin Slots
      /\ \A p \in Slots : p \in Pointers <=> p < Direct
      /\ \A p \in Slots \ Pointers : p - Direct \in Cells
      /\ \A p \in Places : p = -1 \/ p \in Slots
  BY DEF Pointers, Slots, Places, Cells
<1> HIDE DEF file, a
<1>5. slots \in [Slots -> Nat]
  BY <1>1, <1>2, NumbersType
<1>6. \A p \in Slots : slots[p] = IF p \in Pointers THEN file.data_ptrs[p]
                                  ELSE a[p - Direct]
  BY <1>4 DEF Numbers
<1> HIDE DEF slots
<1>7. BlocksOf(i) \in [Places -> Nat]
  BY <1>1, <1>3, <1>4, <1>5
<1>8. BlocksOf(i)[-1] = file.indirectptr
  BY <1>3, <1>4
<1>9. \A p \in Slots : BlocksOf(i)[p] = slots[p]
  BY <1>3, <1>4
<1>10. BlocksFrom(i, BlocksOf(i))
  <2>1. \A p \in Pointers : BlocksOf(i)[p] = file.data_ptrs[p]
    BY <1>4, <1>6, <1>9
  <2>2. \A p \in Slots \ Pointers :
          BlocksOf(i)[p] = IF BlocksOf(i)[-1] = 0 THEN 0
                           ELSE IF BlocksOf(i)[-1] < NumBlocks
                             THEN disk[BlocksOf(i)[-1]][p - Direct]
                           ELSE BitmapBits
    BY <1>2, <1>4, <1>6, <1>8, <1>9
  <2>3. QED BY <1>8, <2>1, <2>2 DEF BlocksFrom, file
<1>11. QED BY <1>7, <1>10

LEMMA BlocksAreNext ==
  Typed' => \A i \in Inodes : /\ BlocksOf(i)' \in [Places -> Nat]
                              /\ BlocksFrom(i, BlocksOf(i))'
<1>1. Typed' => (\A i \in Inodes : /\ BlocksOf(i) \in [Places -> Nat]
                                   /\ BlocksFrom(i, BlocksOf(i)))'
  BY BlocksAre, PTL
<1>2. QED BY <1>1

(* The file whose inode a write has stored.                                *)
LEMMA StoredBlocksAre ==
  ASSUME Typed, Typed', NEW k \in Inodes, HasInode(k), NEW w, NEW s,
         StoreWrite(k, w, s), NEW i \in Inodes, i = fdt[k].inode
  PROVE  StoredBlocks(s, BlocksOf(i)')
<1>1. /\ table'[i].data_ptrs = [p \in Pointers |-> s.slots[p]]
      /\ table'[i].indirectptr = s.indirect
  BY StoredTable
<1>2. /\ BlocksOf(i)' \in [Places -> Nat]
      /\ BlocksOf(i)'[-1] = table'[i].indirectptr
      /\ \A p \in Pointers : BlocksOf(i)'[p] = table'[i].data_ptrs[p]
      /\ \A p \in Slots \ Pointers :
           BlocksOf(i)'[p] = IF BlocksOf(i)'[-1] = 0 THEN 0
                             ELSE IF BlocksOf(i)'[-1] < NumBlocks
                               THEN disk'[BlocksOf(i)'[-1]][p - Direct]
                             ELSE BitmapBits
  BY BlocksAreNext DEF BlocksFrom
<1>3. QED BY <1>1, <1>2 DEF StoredBlocks

(* Files without a change of theirs.                                       *)
LEMMA BlocksSame ==
  ASSUME Typed, Typed', NEW i \in Inodes,
         table'[i].data_ptrs = table[i].data_ptrs,
         table'[i].indirectptr = table[i].indirectptr,
         0 < BlocksOf(i)[-1] /\ BlocksOf(i)[-1] < NumBlocks =>
           disk'[BlocksOf(i)[-1]] = disk[BlocksOf(i)[-1]]
  PROVE  BlocksOf(i)' = BlocksOf(i)
<1> DEFINE e == BlocksOf(i)
           E == BlocksOf(i)'
<1>1. /\ e \in [Places -> Nat] /\ BlocksFrom(i, e)
      /\ E \in [Places -> Nat] /\ BlocksFrom(i, BlocksOf(i))'
  BY BlocksAre, BlocksAreNext
<1>2. /\ E[-1] = table'[i].indirectptr
      /\ \A p \in Pointers : E[p] = table'[i].data_ptrs[p]
      /\ \A p \in Slots \ Pointers :
           E[p] = IF E[-1] = 0 THEN 0
                  ELSE IF E[-1] < NumBlocks THEN disk'[E[-1]][p - Direct]
                  ELSE BitmapBits
  BY <1>1 DEF BlocksFrom
<1>3. 0 < e[-1] /\ e[-1] < NumBlocks => disk'[e[-1]] = disk[e[-1]]
  OBVIOUS
<1>4. -1 \in Places /\ \A p \in Places : p = -1 \/ p \in Slots
  BY DEF Places
<1> HIDE DEF e, E
<1>5. E[-1] = e[-1] /\ e[-1] \in Nat
  BY <1>1, <1>2, <1>4 DEF BlocksFrom
<1>6. \A p \in Pointers : E[p] = e[p]
  BY <1>1, <1>2 DEF BlocksFrom
<1>7. \A p \in Slots \ Pointers : E[p] = e[p]
  BY <1>1, <1>2, <1>3, <1>5 DEF BlocksFrom
<1>8. \A p \in Places : E[p] = e[p]
  BY <1>4, <1>5, <1>6, <1>7
<1>9. E = e
  BY <1>1, <1>8
<1>10. QED BY <1>9 DEF e, E

(* BlocksOwned by parts: which blocks a file has, that they are its own,   *)
(* and that the free ones hold zeros.                                      *)
Needed(i) ==
  IF table[i].size = 0 THEN {}
  ELSE (0 .. table[i].size \div BlockSize)
         \union (IF table[i].size \div BlockSize < Direct THEN {} ELSE {-1})

Owning == \A i \in Files : /\ \A p \in Needed(i) : BlocksOf(i)[p] # 0
                           /\ \/ \E p \in Places : NumBlocks <= BlocksOf(i)[p]
                              \/ \A p \in Places :
                                   BlocksOf(i)[p] # 0 => p \in Needed(i)

Distinct ==
  \A i \in Files : \A p \in Places :
    0 < BlocksOf(i)[p] /\ BlocksOf(i)[p] < NumBlocks =>
      /\ BlocksOf(i)[p] \notin Reserved
      /\ BlocksOf(i)[p] \notin free_bit_map
      /\ \A j \in Files : \A q \in Places :
           BlocksOf(j)[q] = BlocksOf(i)[p] => j = i /\ q = p

FreeAreZero == \A b \in free_bit_map : b < NumBlocks => disk[b] = Zeros

LEMMA FilesAreInodes == ASSUME DirInv PROVE Files \subseteq Inodes
BY DEF DirInv, Linked, Files, Inodes

(* The places of a position in a file.                                     *)
LEMMA PlaceOf ==
  ASSUME Typed, NEW i \in Inodes, table[i].size < MaxSize,
         NEW x \in 0 .. table[i].size - 1
  PROVE  /\ x \in Nat
         /\ x \div BlockSize \in Slots /\ x \div BlockSize \in Places
         /\ x \div BlockSize \in Needed(i)
         /\ Direct <= x \div BlockSize => -1 \in Needed(i)
         /\ x % BlockSize \in Cells
<1> DEFINE n == table[i].size
           p == x \div BlockSize
           m == n \div BlockSize
<1>1. n \in Nat /\ x \in Nat /\ x < n /\ n < (Direct + BlockSize) * BlockSize
  BY DEF Typed, InodeRecords, MaxSize
<1>2. /\ p \in Nat /\ x % BlockSize \in Cells
      /\ p * BlockSize <= x /\ m \in Nat
      /\ (p <= m <=> p * BlockSize <= n)
  <2>1. p \in Nat /\ x % BlockSize \in Cells /\ m \in Nat
    BY <1>1, BlockAndCell
  <2>2. p <= p => p * BlockSize <= x
    BY <1>1, <2>1, BlockOf
  <2>3. p <= m <=> p * BlockSize <= n
    BY <1>1, <2>1, BlockOf
  <2> HIDE DEF p, m, n
  <2>4. QED BY <2>1, <2>2, <2>3
<1>3. p * BlockSize \in Nat
  BY <1>2, TimesBlock
<1>4. p <= m
  <2> HIDE DEF p, m, n
  <2>1. QED BY <1>1, <1>2, <1>3
<1>5. p \in Slots
  <2>1. x < MaxSize
    <3>1. MaxSize \in Nat /\ n < MaxSize
      BY DEF MaxSize
    <3> HIDE DEF n
    <3>2. QED BY <1>1, <3>1
  <2>2. QED BY <1>1, <2>1, EndInSlots
<1> HIDE DEF p, m
<1>6. p \in Needed(i)
  BY <1>1, <1>2, <1>4 DEF Needed, m
<1>7. Direct <= p => -1 \in Needed(i)
  BY <1>1, <1>2, <1>4 DEF Needed, m
<1>8. QED BY <1>1, <1>2, <1>5, <1>6, <1>7 DEF p, Places

(* What a write on a descriptor finds.                                     *)
LEMMA PromisedHolds ==
  ASSUME Typed, DirInv, Positioned, Owning, Distinct, FreeAreZero,
         NEW k \in Inodes, HasInode(k), NEW length \in Lengths,
         NEW w, w = WriteOf(fdt[k].inode, fdt[k].wptr, length)
  PROVE  Promised(w, BlocksOf(fdt[k].inode))
<1> DEFINE i == fdt[k].inode
           e == BlocksOf(i)
           n == table[i].size
<1>1. /\ Plain(w) /\ i \in Inodes /\ i \in Files
      /\ w.isfirst = (table[i].data_ptrs[0] = 0)
      /\ w.pointer <= n
      /\ w.isfirst => /\ n = 0 /\ table[i].indirectptr = 0
                      /\ \A p \in Pointers : table[i].data_ptrs[p] = 0
  BY FwritePlain
<1>2. e \in [Places -> Nat] /\ BlocksFrom(i, e)
  BY <1>1, BlocksAre
<1>3. n \in Nat
  BY <1>1 DEF Typed, InodeRecords
<1>4. /\ \A p \in Needed(i) : e[p] # 0
      /\ \A p \in Places : 0 < e[p] /\ e[p] < NumBlocks =>
           /\ e[p] \notin free_bit_map
           /\ \A q \in Places : e[q] = e[p] => q = p
  BY <1>1 DEF Owning, Distinct
<1> HIDE DEF i, e
<1>5. Numbered(e)
  BY <1>2, <1>4 DEF Numbered
<1>6. /\ Pointers \subseteq Slots /\ -1 \in Places /\ 0 \in Pointers
      /\ \A p \in Places : p = -1 \/ p \in Slots
  BY DEF Pointers, Slots, Places
<1>7. w.isfirst => \A p \in Places : e[p] = 0
  BY <1>1, <1>2, <1>6 DEF BlocksFrom
<1>8. ASSUME ~w.isfirst
      PROVE  /\ e[w.first] # 0 /\ (Direct <= w.first => e[-1] # 0)
  <2>1. /\ w.first \in Nat /\ w.pointer \in Nat
        /\ w.first = w.pointer \div BlockSize
        /\ w.first * BlockSize <= w.pointer /\ w.first * BlockSize \in Nat
    BY <1>1, PlainBlocks DEF Plain
  <2>2. CASE n = 0
    <3>1. w.first * BlockSize = 0
      <4> HIDE DEF n
      <4>1. QED BY <1>1, <1>3, <2>1, <2>2
    <3>2. 1 <= w.first => 1 * BlockSize <= w.first * BlockSize
      BY <2>1, TimesBlock
    <3>3. w.first = 0
      BY <2>1, <3>1, <3>2
    <3>4. e[0] = table[i].data_ptrs[0]
      BY <1>2, <1>6 DEF BlocksFrom
    <3>5. table[i].data_ptrs[0] # 0
      <4>1. w.isfirst = (table[i].data_ptrs[0] = 0)
        BY <1>1
      <4>2. QED BY <1>8, <4>1, Zenon
    <3>6. QED BY <3>3, <3>4, <3>5
  <2>3. CASE n # 0
    <3>1. w.first <= n \div BlockSize <=> w.first * BlockSize <= n
      BY <1>3, <2>1, BlockOf
    <3>2. n \div BlockSize \in Nat
      BY <1>3, BlockAndCell
    <3>3. w.first <= n \div BlockSize
      <4> DEFINE m == n \div BlockSize
      <4> HIDE DEF n, m
      <4>1. w.first * BlockSize <= n
        BY <1>1, <1>3, <2>1
      <4>2. QED BY <3>1, <4>1 DEF m
    <3>4. /\ w.first \in 0 .. n \div BlockSize
          /\ Direct <= w.first => ~(n \div BlockSize < Direct)
      <4> DEFINE m == n \div BlockSize
      <4> HIDE DEF n, m
      <4>1. m \in Nat /\ w.first <= m
        BY <3>2, <3>3 DEF m
      <4>2. QED BY <2>1, <4>1 DEF m
    <3>5. w.first \in Needed(i) /\ (Direct <= w.first => -1 \in Needed(i))
      BY <2>3, <3>4 DEF Needed
    <3>6. QED BY <1>4, <3>5
  <2>4. QED BY <2>2, <2>3
<1>9. free_bit_map \subseteq Unreserved
  BY DEF Typed
<1>10. Promised(w, e)
  BY <1>5, <1>7, <1>8, <1>9 DEF Promised, FreeAreZero
<1>11. QED BY <1>10 DEF e, i

(* A write of length cells on descriptor k, to the file of inode i, that   *)
(* ends in state s.                                                        *)
WriteStep(k, length, i, w, s) ==
  /\ HasInode(k) /\ i = fdt[k].inode
  /\ w = WriteOf(fdt[k].inode, fdt[k].wptr, length) /\ w.last \in Slots
  /\ s \in States /\ StoreWrite(k, w, s)
  /\ Weak(w, table[i].data_ptrs, s, w.last)
  /\ Result(w, BlocksOf(i), s, BlocksOf(i)')

LEMMA WriteResult ==
  ASSUME Typed, Typed', DirInv, Positioned, Owning, Distinct, FreeAreZero,
         NEW k \in Inodes, HasInode(k), NEW length \in Lengths,
         NEW i \in Inodes, i = fdt[k].inode,
         NEW w, w = WriteOf(fdt[k].inode, fdt[k].wptr, length),
         w.last \in Slots, NEW unset \in [Slots -> Nat],
         NEW s \in States, s = Written(w, Before(i), unset),
         s.unread => w.isfirst /\ unset = Clean, StoreWrite(k, w, s)
  PROVE  Result(w, BlocksOf(i), s, BlocksOf(i)')
<1> DEFINE e == BlocksOf(i)
           E == BlocksOf(i)'
<1>1. Plain(w)
  BY FwritePlain
<1>2. Promised(w, e)
  BY PromisedHolds
<1>3. BlocksFrom(i, e)
  BY BlocksAre
<1>4. StoredBlocks(s, E)
  BY StoredBlocksAre
<1>5. disk' = IF w.last >= Direct THEN StoredArray(s) ELSE s.disk
  BY DEF StoreWrite
<1>6. w.last \in Nat
  BY <1>1, PlainBlocks
<1> HIDE DEF e, E
<1>7. /\ w.last < Direct =>
           Round(w, e, Pointers, s, w.last) /\ s.indirect = e[-1]
      /\ Direct <= w.last => Round(w, e, Slots, s, w.last) /\ s.indirect # 0
  <2>1. Written(w, Before(i), unset).unread => w.isfirst /\ unset = Clean
    OBVIOUS
  <2>2. LET t == Written(w, Before(i), unset)
        IN /\ w.last < Direct =>
                Round(w, e, Pointers, t, w.last) /\ t.indirect = e[-1]
           /\ Direct <= w.last =>
                Round(w, e, Slots, t, w.last) /\ t.indirect # 0
    BY <1>1, <1>2, <1>3, <2>1, WrittenRound
  <2>3. QED BY <2>2
<1>8. CASE w.last < Direct
  <2>1. disk' = s.disk
    BY <1>5, <1>6, <1>8
  <2>2. Result(w, e, s, E)
    BY <1>1, <1>2, <1>3, <1>4, <1>7, <1>8, <2>1, StoredDirect
  <2>3. QED BY <2>2 DEF e, E
<1>9. CASE Direct <= w.last
  <2>1. disk' = StoredArray(s)
    BY <1>5, <1>6, <1>9
  <2>2. Result(w, e, s, E)
    BY <1>1, <1>2, <1>3, <1>4, <1>7, <1>9, <2>1, StoredBehind
  <2>3. QED BY <2>2 DEF e, E
<1>10. QED BY <1>6, <1>8, <1>9

LEMMA FwriteSteps ==
  ASSUME Typed, Typed', DirInv, Positioned, Owning, Distinct, FreeAreZero,
         NEW k \in Inodes, NEW length \in Lengths, Fwrite(k, length), ~stray'
  PROVE  GiveUp \/ \E i \in Inodes : \E w, s : WriteStep(k, length, i, w, s)
<1> SUFFICES ASSUME ~GiveUp
             PROVE  \E i \in Inodes : \E w, s : WriteStep(k, length, i, w, s)
  OBVIOUS
<1>1. PICK i : i = fdt[k].inode
  OBVIOUS
<1>2. PICK w : w = WriteOf(fdt[k].inode, fdt[k].wptr, length)
  OBVIOUS
<1>3. /\ i \in Inodes /\ HasInode(k) /\ w.last \in Slots
      /\ \E unset \in OnStack(w.last >= Direct) :
           LET s == Written(w, Before(i), unset)
           IN /\ unset \in [Slots -> Nat]
              /\ s \in States
              /\ StoreWrite(k, w, s)
              /\ stray' = (\/ stray
                           \/ s.unread /\ ~(w.isfirst /\ unset = Clean))
  BY <1>1, <1>2, FwriteIs
<1>4. PICK unset \in OnStack(w.last >= Direct) :
        LET s == Written(w, Before(i), unset)
        IN /\ unset \in [Slots -> Nat]
           /\ s \in States
           /\ StoreWrite(k, w, s)
           /\ stray' = (\/ stray
                        \/ s.unread /\ ~(w.isfirst /\ unset = Clean))
  BY <1>3
<1>5. PICK s : s = Written(w, Before(i), unset)
  OBVIOUS
<1>6. /\ unset \in [Slots -> Nat] /\ s \in States /\ StoreWrite(k, w, s)
      /\ stray' = (stray \/ (s.unread /\ ~(w.isfirst /\ unset = Clean)))
  BY <1>4, <1>5
<1>7. s.unread => w.isfirst /\ unset = Clean
  <2>1. stray' = (stray \/ (s.unread /\ ~(w.isfirst /\ unset = Clean)))
    BY <1>6
  <2>2. QED BY <2>1, Zenon
<1>8. Result(w, BlocksOf(i), s, BlocksOf(i)')
  BY <1>1, <1>2, <1>3, <1>5, <1>6, <1>7, WriteResult
<1>9. Weak(w, table[i].data_ptrs, s, w.last)
  <2>1. Plain(w)
    BY <1>2, <1>3, FwritePlain
  <2>2. Weak(w, table[i].data_ptrs, Written(w, Before(i), unset), w.last)
    BY <1>3, <1>6, <2>1, WrittenWeak
  <2>3. QED BY <1>5, <2>2
<1>10. WriteStep(k, length, i, w, s)
  BY <1>1, <1>2, <1>3, <1>6, <1>8, <1>9 DEF WriteStep
<1>11. QED BY <1>3, <1>10

LEMMA StrayStays ==
  ASSUME Typed, NEW k \in Inodes, NEW length \in Lengths, Fwrite(k, length),
         ~stray'
  PROVE  ~stray
<1>1. stray' = stray \/ \E a : stray' = (stray \/ a)
  BY DEF Fwrite, GiveUp, observed
<1>2. QED BY <1>1, Zenon

(* The write leaves the blocks of the other files alone,                   *)
LEMMA WriteTouches ==
  ASSUME Typed, Typed', DirInv, Distinct, NEW k \in Inodes, NEW length,
         NEW i \in Inodes, NEW w, NEW s, WriteStep(k, length, i, w, s)
  PROVE  /\ Files' = Files /\ i \in Files /\ Files \subseteq Inodes
         /\ free_bit_map' = s.free
         /\ \A j \in Files \ {i} : table'[j] = table[j]
<1>1. root' = root /\ free_bit_map' = s.free
  BY DEF WriteStep, StoreWrite
<1>2. Files' = Files
  BY <1>1 DEF Files, Listed
<1>3. i \in Files /\ Files \subseteq Inodes
  BY HasInodeIsFile, FilesAreInodes DEF WriteStep, Typed, Rooted
<1>4. \A j \in Inodes \ {fdt[k].inode} : table'[j] = table[j]
  BY StoredTable DEF WriteStep
<1>5. \A j \in Files \ {i} : table'[j] = table[j]
  BY <1>3, <1>4 DEF WriteStep
<1>6. QED BY <1>1, <1>2, <1>3, <1>5

LEMMA OtherBlocks ==
  ASSUME Typed, Typed', DirInv, Distinct, NEW k \in Inodes, NEW length,
         NEW i \in Inodes, NEW w, NEW s, WriteStep(k, length, i, w, s),
         NEW j \in Files, j # i
  PROVE  /\ BlocksOf(j)' = BlocksOf(j)
         /\ \A p \in Places :
              0 < BlocksOf(j)[p] /\ BlocksOf(j)[p] < NumBlocks =>
                disk'[BlocksOf(j)[p]] = disk[BlocksOf(j)[p]]
<1>1. i \in Files /\ j \in Inodes /\ table'[j] = table[j]
  BY WriteTouches
<1>2. BlocksOf(j) \in [Places -> Nat]
  BY <1>1, BlocksAre
<1>3. \A b \in Blocks :
        \/ disk'[b] = disk[b]
        \/ /\ b # 0 /\ b \notin s.free
           /\ b \in free_bit_map \/ \E p \in Places : BlocksOf(i)[p] = b
  BY DEF WriteStep, Result, Filled
<1>4. ASSUME NEW p \in Places, 0 < BlocksOf(j)[p], BlocksOf(j)[p] < NumBlocks
      PROVE  disk'[BlocksOf(j)[p]] = disk[BlocksOf(j)[p]]
  <2>1. BlocksOf(j)[p] \in Blocks
    BY <1>2, <1>4 DEF Blocks
  <2>2. /\ BlocksOf(j)[p] \notin free_bit_map
        /\ \A l \in Files : \A q \in Places :
             BlocksOf(l)[q] = BlocksOf(j)[p] => l = j /\ q = p
    BY <1>4 DEF Distinct
  <2>3. \A q \in Places : BlocksOf(i)[q] # BlocksOf(j)[p]
    BY <1>1, <2>2
  <2>4. QED BY <1>3, <2>1, <2>2, <2>3
<1>5. -1 \in Places
  BY DEF Places
<1>6. BlocksOf(j)' = BlocksOf(j)
  BY <1>1, <1>4, <1>5, BlocksSame
<1>7. QED BY <1>4, <1>6

LEMMA DistinctFwrite ==
  ASSUME Typed, Typed', DirInv, Distinct, NEW k \in Inodes, NEW length,
         NEW i \in Inodes, NEW w, NEW s, WriteStep(k, length, i, w, s)
  PROVE  Distinct'
<1> DEFINE e == BlocksOf(i)
           E == BlocksOf(i)'
<1>1. /\ Files' = Files /\ i \in Files /\ Files \subseteq Inodes
      /\ free_bit_map' = s.free
  BY WriteTouches
<1>2. \A j \in Files \ {i} : BlocksOf(j)' = BlocksOf(j)
  BY OtherBlocks
<1>3. /\ s.free \subseteq free_bit_map
      /\ \A p \in Places : 0 < E[p] /\ E[p] < NumBlocks =>
           /\ E[p] \notin s.free
           /\ E[p] = e[p] \/ E[p] \in free_bit_map
           /\ \A q \in Places : E[q] = E[p] => q = p
  BY DEF WriteStep, Result, Separate
<1>4. \A b \in free_bit_map : b \notin Reserved
  BY DEF Typed, Unreserved, Reserved
<1>5. ASSUME NEW j \in Files, NEW p \in Places,
             0 < BlocksOf(j)[p], BlocksOf(j)[p] < NumBlocks
      PROVE  /\ BlocksOf(j)[p] \notin Reserved
             /\ BlocksOf(j)[p] \notin free_bit_map
             /\ \A l \in Files : \A q \in Places :
                  BlocksOf(l)[q] = BlocksOf(j)[p] => l = j /\ q = p
  BY <1>5 DEF Distinct
<1> HIDE DEF e, E
<1>6. ASSUME NEW p \in Places, NEW j \in Files \ {i}, NEW q \in Places,
             BlocksOf(j)[q] = E[p], 0 < E[p], E[p] < NumBlocks
      PROVE  FALSE
  <2>1. E[p] \notin free_bit_map
    BY <1>5, <1>6
  <2>2. E[p] = e[p]
    BY <1>3, <1>6, <2>1
  <2>3. BlocksOf(i)[p] = BlocksOf(j)[q] /\ i \in Files /\ i # j
    BY <1>1, <1>6, <2>2 DEF e
  <2>4. QED BY <1>5, <1>6, <2>3
<1>7. ASSUME NEW p \in Places, 0 < E[p], E[p] < NumBlocks
      PROVE  /\ E[p] \notin Reserved /\ E[p] \notin s.free
             /\ \A j \in Files : \A q \in Places :
                  BlocksOf(j)'[q] = E[p] => j = i /\ q = p
  <2>1. E[p] \notin Reserved
    <3>1. CASE E[p] = e[p]
      <4>1. 0 < BlocksOf(i)[p] /\ BlocksOf(i)[p] < NumBlocks
        BY <1>7, <3>1 DEF e
      <4>2. BlocksOf(i)[p] \notin Reserved
        BY <1>1, <1>5, <4>1
      <4>3. QED BY <3>1, <4>2 DEF e
    <3>2. CASE E[p] \in free_bit_map
      BY <1>4, <3>2
    <3>3. QED BY <1>3, <1>7, <3>1, <3>2
  <2>2. ASSUME NEW j \in Files, NEW q \in Places, BlocksOf(j)'[q] = E[p]
        PROVE  j = i /\ q = p
    <3>1. CASE j = i
      BY <1>3, <1>7, <2>2, <3>1 DEF E
    <3>2. CASE j # i
      BY <1>2, <1>6, <1>7, <2>2, <3>2
    <3>3. QED BY <3>1, <3>2
  <2>3. QED BY <1>3, <1>7, <2>1, <2>2
<1>8. ASSUME NEW j \in Files \ {i}, NEW p \in Places,
             0 < BlocksOf(j)[p], BlocksOf(j)[p] < NumBlocks
      PROVE  /\ BlocksOf(j)[p] \notin Reserved
             /\ BlocksOf(j)[p] \notin s.free
             /\ \A l \in Files : \A q \in Places :
                  BlocksOf(l)'[q] = BlocksOf(j)[p] => l = j /\ q = p
  <2>1. ASSUME NEW l \in Files, NEW q \in Places,
               BlocksOf(l)'[q] = BlocksOf(j)[p]
        PROVE  l = j /\ q = p
    <3>1. CASE l = i
      BY <1>6, <1>8, <2>1, <3>1 DEF E
    <3>2. CASE l # i
      BY <1>2, <1>5, <1>8, <2>1, <3>2
    <3>3. QED BY <3>1, <3>2
  <2>2. QED BY <1>3, <1>5, <1>8, <2>1
<1>9. ASSUME NEW j \in Files, NEW p \in Places,
             0 < BlocksOf(j)'[p], BlocksOf(j)'[p] < NumBlocks
      PROVE  /\ BlocksOf(j)'[p] \notin Reserved
             /\ BlocksOf(j)'[p] \notin s.free
             /\ \A l \in Files : \A q \in Places :
                  BlocksOf(l)'[q] = BlocksOf(j)'[p] => l = j /\ q = p
  <2>1. CASE j = i
    BY <1>7, <1>9, <2>1 DEF E
  <2>2. CASE j # i
    BY <1>2, <1>8, <1>9, <2>2
  <2>3. QED BY <2>1, <2>2
<1>10. QED BY <1>1, <1>9 DEF Distinct, Reserved

LEMMA FreeFwrite ==
  ASSUME Typed, Typed', DirInv, Distinct, FreeAreZero,
         NEW k \in Inodes, NEW length,
         NEW i \in Inodes, NEW w, NEW s, WriteStep(k, length, i, w, s)
  PROVE  FreeAreZero'
<1>1. free_bit_map' = s.free /\ s.free \subseteq free_bit_map
  BY WriteTouches DEF WriteStep, Result
<1>2. \A b \in Blocks : disk'[b] = disk[b] \/ b \notin s.free
  BY DEF WriteStep, Result, Filled
<1>3. \A b \in free_bit_map : b < NumBlocks => b \in Blocks
  BY DEF Typed, Unreserved, Blocks
<1>4. QED BY <1>1, <1>2, <1>3 DEF FreeAreZero, Zeros, Cells

(* The sizes before and after it.                                          *)
LEMMA WriteSizes ==
  ASSUME Typed, DirInv, Positioned, NEW k \in Inodes, NEW length \in Lengths,
         NEW i \in Inodes, NEW w, NEW s, WriteStep(k, length, i, w, s)
  PROVE  /\ Plain(w) /\ w.length = length /\ w.pointer = fdt[k].wptr
         /\ w.pointer <= table[i].size
         /\ w.isfirst => table[i].size = 0 /\ table'[i].size = s.count
         /\ ~w.isfirst => table'[i].size =
              IF table[i].size <= w.pointer + w.length
                THEN w.pointer + w.length ELSE table[i].size
         /\ s.count \in 0 .. w.length
         /\ table[i].size \in Nat /\ table'[i].size \in Nat
         /\ table[i].size <= table'[i].size /\ table'[i].size < MaxSize
<1>1. /\ Plain(w) /\ w.length = length /\ w.pointer = fdt[k].wptr
      /\ w.pointer <= table[i].size
      /\ w.isfirst => table[i].size = 0
  BY FwritePlain DEF WriteStep
<1>2. /\ i = fdt[k].inode /\ HasInode(k) /\ w.last \in Slots
      /\ w = WriteOf(fdt[k].inode, fdt[k].wptr, length) /\ s \in States
      /\ StoreWrite(k, w, s) /\ Weak(w, table[fdt[k].inode].data_ptrs, s, w.last)
  BY DEF WriteStep
<1>3. LET inode == fdt[k].inode
      IN /\ s.count \in 0 .. length
         /\ w.isfirst => table'[inode].size = s.count
         /\ ~w.isfirst => table'[inode].size =
              IF table[inode].size <= w.pointer + length
                THEN w.pointer + length ELSE table[inode].size
         /\ table'[inode].size \in Nat
         /\ table[inode].size \in Nat
         /\ table[inode].size <= table'[inode].size
         /\ w.pointer + s.count <= table'[inode].size
         /\ table'[inode].size < MaxSize
  BY <1>2, NewSize
<1>4. QED BY <1>1, <1>2, <1>3

(* The last block of a file of n cells.                                    *)
LEMMA LastBlock ==
  ASSUME NEW w, Plain(w), NEW n \in Nat, w.pointer <= n
  PROVE  /\ n \div BlockSize \in Nat /\ w.first <= n \div BlockSize
         /\ n <= w.pointer + w.length => n \div BlockSize <= w.last
         /\ w.pointer + w.length <= n => w.last <= n \div BlockSize
<1> DEFINE m == n \div BlockSize
           z == w.pointer + w.length
<1>1. /\ w.first \in Nat /\ w.last \in Nat
      /\ w.first * BlockSize \in Nat /\ w.last * BlockSize \in Nat
      /\ w.pointer \in Nat /\ w.length \in Nat
      /\ w.first * BlockSize <= w.pointer
      /\ w.last * BlockSize <= z
      /\ z < w.last * BlockSize + BlockSize
  BY PlainBlocks
<1>2. m \in Nat
  BY BlockAndCell
<1>3. w.first <= m <=> w.first * BlockSize <= n
  BY <1>1, BlockOf
<1>4. m <= w.last <=> n < w.last * BlockSize + BlockSize
  BY <1>1, BlockOf
<1>5. w.last <= m <=> w.last * BlockSize <= n
  BY <1>1, BlockOf
<1> HIDE DEF m
<1>6. w.first <= m
  BY <1>1, <1>3
<1>7. n <= z => m <= w.last
  BY <1>1, <1>4
<1>8. z <= n => w.last <= m
  BY <1>1, <1>5
<1>9. QED BY <1>2, <1>6, <1>7, <1>8 DEF m

(* Which blocks the file needs then.                                       *)
LEMMA OwningFirst ==
  ASSUME Typed, Typed', DirInv, Positioned, Owning, Distinct,
         FreeAreZero, NEW k \in Inodes, HasInode(k), NEW length \in Lengths,
         NEW i \in Inodes, NEW w, NEW s, WriteStep(k, length, i, w, s), w.isfirst
  PROVE  LET E == BlocksOf(i)'
         IN /\ \A p \in Needed(i)' : E[p] # 0
            /\ \/ \E p \in Places : NumBlocks <= E[p]
               \/ \A p \in Places : E[p] # 0 => p \in Needed(i)'
<1> DEFINE e == BlocksOf(i)
           E == BlocksOf(i)'
           n == s.count
           m == n \div BlockSize
<1>1. /\ Plain(w) /\ w.pointer = 0 /\ w.first = 0 /\ w.last \in Nat
      /\ w.length \in Nat /\ 0 < w.length
      /\ table'[i].size = n /\ n \in 0 .. w.length /\ n \in Nat
  <2>1. Plain(w) /\ table'[i].size = n /\ n \in 0 .. w.length
    BY WriteSizes
  <2>2. w.length \in Nat /\ w.last \in Nat /\ w.first = 0
    BY <2>1, PlainBlocks
  <2>3. w.pointer = 0 /\ 0 < w.length
    BY <2>1 DEF Plain
  <2>4. QED BY <2>1, <2>2, <2>3
<1>2. m \in Nat /\ m <= w.last /\ (n = w.length => m = w.last)
  <2>1. /\ n \div BlockSize \in Nat
        /\ n <= w.pointer + w.length => n \div BlockSize <= w.last
        /\ w.pointer + w.length <= n => w.last <= n \div BlockSize
    BY <1>1, LastBlock
  <2> HIDE DEF n
  <2>2. QED BY <1>1, <2>1
<1>3. \A p \in Places : e[p] = 0
  BY PromisedHolds DEF WriteStep, Promised
<1>4. /\ E \in [Places -> Nat]
      /\ \A p \in w.first .. w.last : E[p] # 0
      /\ \A p \in Places \ (w.first .. w.last) :
           \/ E[p] = e[p] \/ NumBlocks <= E[p]
           \/ p = -1 /\ Direct <= w.last
      /\ Direct <= w.last => E[-1] # 0
      /\ (\A p \in Places : E[p] < NumBlocks) => s.count = w.length
  BY BlocksAreNext DEF WriteStep, Result, Complete, Filled
<1>5. Needed(i)' = IF n = 0 THEN {}
                   ELSE (0 .. m) \union (IF m < Direct THEN {} ELSE {-1})
  BY <1>1 DEF Needed
<1> HIDE DEF e, E, n, m
<1>6. ASSUME NEW p \in Needed(i)' PROVE E[p] # 0
  <2>1. CASE p \in 0 .. m
    <3>1. p \in w.first .. w.last
      BY <1>1, <1>2, <2>1
    <3>2. QED BY <1>4, <3>1
  <2>2. CASE p = -1 /\ ~(m < Direct)
    <3>1. Direct <= w.last
      BY <1>1, <1>2, <2>2
    <3>2. QED BY <1>4, <2>2, <3>1
  <2>3. QED BY <1>5, <2>1, <2>2
<1>7. ASSUME \A p \in Places : ~(NumBlocks <= E[p]), NEW p \in Places, E[p] # 0
      PROVE  p \in Needed(i)'
  <2>1. \A q \in Places : E[q] < NumBlocks
    BY <1>4, <1>7
  <2>2. n = w.length
    BY <1>4, <2>1 DEF n
  <2>3. m = w.last /\ n # 0
    BY <1>1, <1>2, <2>2
  <2>4. CASE p \in w.first .. w.last
    BY <1>1, <1>5, <2>3, <2>4
  <2>5. CASE p \notin w.first .. w.last
    <3>1. p = -1 /\ Direct <= w.last
      BY <1>3, <1>4, <1>7, <2>5
    <3>2. ~(m < Direct)
      BY <1>2, <2>3, <3>1
    <3>3. QED BY <1>5, <2>3, <3>1, <3>2
  <2>6. QED BY <2>4, <2>5
<1>8. QED BY <1>6, <1>7 DEF E

LEMMA OwningNext ==
  ASSUME Typed, Typed', DirInv, Positioned, Owning, Distinct,
         FreeAreZero, NEW k \in Inodes, HasInode(k), NEW length \in Lengths,
         NEW i \in Inodes, NEW w, NEW s, WriteStep(k, length, i, w, s),
         ~w.isfirst
  PROVE  LET E == BlocksOf(i)'
         IN /\ \A p \in Needed(i)' : E[p] # 0
            /\ \/ \E p \in Places : NumBlocks <= E[p]
               \/ \A p \in Places : E[p] # 0 => p \in Needed(i)'
<1> DEFINE e == BlocksOf(i)
           E == BlocksOf(i)'
           n == table[i].size
           m == n \div BlockSize
           N == table'[i].size
           M == N \div BlockSize
           z == w.pointer + w.length
<1>1. /\ Plain(w) /\ w.pointer <= n /\ n \in Nat /\ N \in Nat /\ n <= N
      /\ N = IF n <= z THEN z ELSE n
  BY WriteSizes
<1>2. /\ w.first \in Nat /\ w.last \in Nat /\ w.first <= w.last
      /\ w.pointer \in Nat /\ w.length \in Nat /\ 0 < w.length
      /\ w.pointer < w.first * BlockSize + BlockSize
  BY <1>1, PlainBlocks DEF Plain
<1>3. /\ m \in Nat /\ w.first <= m
      /\ n <= z => m <= w.last
      /\ z <= n => w.last <= m
  BY <1>1, LastBlock
<1>4. /\ M \in Nat
      /\ N <= z => M <= w.last
      /\ z <= N => w.last <= M
  <2>1. w.pointer <= N
    <3> HIDE DEF n, N
    <3>1. QED BY <1>1, <1>2
  <2> HIDE DEF z
  <2>2. QED BY <1>1, <2>1, LastBlock DEF z
<1>5. /\ \A p \in w.first .. w.last : E[p] # 0
      /\ E \in [Places -> Nat]
      /\ \A p \in Places \ (w.first .. w.last) :
           \/ E[p] = e[p] \/ NumBlocks <= E[p]
           \/ p = -1 /\ Direct <= w.last
      /\ Direct <= w.last => E[-1] # 0
      /\ \A p \in Places : e[p] # 0 => E[p] = e[p] \/ NumBlocks <= E[p]
  BY BlocksAreNext DEF WriteStep, Result, Complete, Filled
<1>6. /\ \A p \in Needed(i) : e[p] # 0
      /\ \/ \E p \in Places : NumBlocks <= e[p]
         \/ \A p \in Places : e[p] # 0 => p \in Needed(i)
      /\ e \in [Places -> Nat]
  BY HasInodeType, HasInodeIsFile, BlocksAre DEF WriteStep, Owning
<1>7. Needed(i) = IF n = 0 THEN {}
                  ELSE (0 .. m) \union (IF m < Direct THEN {} ELSE {-1})
  BY DEF Needed
<1>8. Needed(i)' = IF N = 0 THEN {}
                   ELSE (0 .. M) \union (IF M < Direct THEN {} ELSE {-1})
  BY DEF Needed
<1>9. n = 0 => m = 0
  <2>1. m <= 0 <=> n < 0 * BlockSize + BlockSize
    BY <1>1, BlockOf
  <2> HIDE DEF n, m
  <2>2. QED BY <1>3, <2>1
<1> HIDE DEF e, E, n, m, N, M
<1>10. /\ 0 < N /\ z \in Nat
       /\ m <= M /\ w.last <= M
       /\ M = m \/ M = w.last
  BY <1>1, <1>2, <1>3, <1>4 DEF z, M, m
<1>11. \A p \in Places : e[p] # 0 => E[p] # 0
  BY <1>5
<1>12. Needed(i) \subseteq Places
  <2>1. ASSUME NEW p \in 0 .. m, n # 0 PROVE p \in Places
    <3>1. table[i].size < MaxSize
      BY DEF Positioned, Bounded
    <3>2. m \in Slots
      BY <1>1, <3>1, EndInSlots DEF m, n
    <3>3. QED BY <1>3, <2>1, <3>2 DEF Places, Slots
  <2>2. QED BY <1>7, <2>1 DEF Places
<1>13. ASSUME NEW p \in Needed(i)' PROVE E[p] # 0
  <2>1. CASE p \in 0 .. M
    <3>1. CASE p \in w.first .. w.last
      BY <1>5, <3>1
    <3>2. CASE p \notin w.first .. w.last
      <4>1. p \in 0 .. m
        BY <1>2, <1>3, <1>10, <2>1, <3>2
      <4>2. n # 0
        BY <1>2, <1>3, <1>9, <3>2, <4>1
      <4>3. p \in Needed(i)
        BY <1>7, <4>1, <4>2
      <4>4. QED BY <1>6, <1>11, <1>12, <4>3
    <3>3. QED BY <3>1, <3>2
  <2>2. CASE p = -1 /\ ~(M < Direct)
    <3>1. CASE Direct <= w.last
      BY <1>5, <2>2, <3>1
    <3>2. CASE ~(Direct <= w.last)
      <4>1. ~(m < Direct) /\ n # 0
        BY <1>2, <1>3, <1>4, <1>9, <1>10, <2>2, <3>2
      <4>2. p \in Needed(i)
        BY <1>7, <2>2, <4>1
      <4>3. QED BY <1>6, <1>11, <1>12, <4>2
    <3>3. QED BY <3>1, <3>2
  <2>3. QED BY <1>8, <2>1, <2>2
<1>14. ASSUME \A p \in Places : ~(NumBlocks <= E[p]), NEW p \in Places, E[p] # 0
      PROVE  p \in Needed(i)'
  <2>1. \A q \in Places : ~(NumBlocks <= e[q])
    BY <1>5, <1>6, <1>14
  <2>2. \A q \in Places : e[q] # 0 => q \in Needed(i)
    BY <1>6, <2>1
  <2>3. CASE p \in w.first .. w.last
    BY <1>2, <1>4, <1>8, <1>10, <2>3
  <2>4. CASE p \notin w.first .. w.last /\ E[p] = e[p]
    <3>1. p \in Needed(i)
      BY <1>14, <2>2, <2>4
    <3>2. CASE p \in 0 .. m
      BY <1>3, <1>4, <1>8, <1>10, <3>2
    <3>3. CASE p = -1 /\ ~(m < Direct)
      <4>1. ~(M < Direct)
        BY <1>3, <1>4, <1>10, <3>3
      <4>2. QED BY <1>8, <1>10, <3>3, <4>1
    <3>4. QED BY <1>7, <3>1, <3>2, <3>3
  <2>5. CASE p = -1 /\ Direct <= w.last
    <3>1. ~(M < Direct)
      BY <1>2, <1>4, <1>10, <2>5
    <3>2. QED BY <1>8, <1>10, <2>5, <3>1
  <2>6. QED BY <1>5, <1>14, <2>3, <2>4, <2>5
<1>15. QED BY <1>13, <1>14 DEF E

LEMMA OwningFwrite ==
  ASSUME Typed, Typed', DirInv, Positioned, Owning, Distinct, FreeAreZero,
         NEW k \in Inodes, HasInode(k), NEW length \in Lengths,
         NEW i \in Inodes, NEW w, NEW s, WriteStep(k, length, i, w, s)
  PROVE  Owning'
<1>1. Files' = Files /\ i \in Files /\ \A j \in Files \ {i} : table'[j] = table[j]
  BY WriteTouches
<1>2. \A j \in Files \ {i} : BlocksOf(j)' = BlocksOf(j)
  BY OtherBlocks
<1>3. \A j \in Files \ {i} : Needed(j)' = Needed(j)
  BY <1>1 DEF Needed
<1>4. /\ \A p \in Needed(i)' : BlocksOf(i)'[p] # 0
      /\ \/ \E p \in Places : NumBlocks <= BlocksOf(i)'[p]
         \/ \A p \in Places : BlocksOf(i)'[p] # 0 => p \in Needed(i)'
  <2>1. CASE w.isfirst
    BY <2>1, OwningFirst
  <2>2. CASE ~w.isfirst
    BY <2>2, OwningNext
  <2>3. QED BY <2>1, <2>2
<1>5. ASSUME NEW j \in Files
      PROVE  /\ \A p \in Needed(j)' : BlocksOf(j)'[p] # 0
             /\ \/ \E p \in Places : NumBlocks <= BlocksOf(j)'[p]
                \/ \A p \in Places : BlocksOf(j)'[p] # 0 => p \in Needed(j)'
  <2>1. CASE j = i
    BY <1>4, <2>1
  <2>2. CASE j # i
    BY <1>2, <1>3, <2>2 DEF Owning
  <2>3. QED BY <2>1, <2>2
<1>6. Places' = Places
  BY DEF Places
<1>7. QED BY <1>1, <1>5 DEF Owning

-----------------------------------------------------------------------------
(* What the files hold.                                                    *)

Observed == DOMAIN content = Inodes /\ DOMAIN wiped = Inodes

(* The positions that a write zeroes in its last block.                    *)
Zeroed(i, w) ==
  IF ~w.isfirst /\ w.last = w.first THEN {}
  ELSE (w.pointer + w.length .. (w.last + 1) * BlockSize - 1)
         \cap (0 .. table[i].size - 1)

LEMMA StoredContent ==
  ASSUME Typed, DirInv, Positioned, Observed,
         NEW k \in Inodes, NEW length \in Lengths,
         NEW i \in Inodes, NEW w, NEW s, WriteStep(k, length, i, w, s)
  PROVE  /\ Observed'
         /\ \A j \in Inodes \ {i} : /\ content'[j] = content[j]
                                    /\ wiped'[j] = wiped[j]
         /\ wiped'[i] = (wiped[i] \ Asked(w)) \union Zeroed(i, w)
         /\ \A x \in Asked(w) :
              x \div BlockSize \in Slots /\ s.slots[x \div BlockSize] < NumBlocks =>
                /\ x \in DOMAIN content'[i]
                /\ content'[i][x] = Buffer(x - w.pointer, w.length)
         /\ \A x \in DOMAIN content[i] : x \notin Asked(w) =>
              /\ x \in DOMAIN content'[i]
              /\ content'[i][x] = content[i][x]
<1> DEFINE accepted == {x \in Asked(w) :
                          /\ x \div BlockSize \in Slots
                          /\ s.slots[x \div BlockSize] < NumBlocks}
           new == [x \in accepted \union DOMAIN content[i] |->
                     IF x \in accepted THEN Buffer(x - w.pointer, w.length)
                                       ELSE content[i][x]]
           z == (w.pointer + w.length .. (w.last + 1) * BlockSize - 1)
                  \cap (0 .. table[i].size - 1)
<1>1. w.pointer = fdt[k].wptr /\ i = fdt[k].inode
  BY WriteSizes DEF WriteStep
<1>2. /\ content' = [content EXCEPT ![i] = new]
      /\ wiped' = [wiped EXCEPT ![i] =
                     (wiped[i] \ Asked(w)) \union
                       (IF ~w.isfirst /\ w.last = w.first THEN {} ELSE z)]
  BY <1>1 DEF WriteStep, StoreWrite
<1>3. /\ DOMAIN content = Inodes /\ DOMAIN wiped = Inodes
  BY DEF Observed
<1>4. /\ Observed'
      /\ \A j \in Inodes \ {i} : content'[j] = content[j] /\ wiped'[j] = wiped[j]
      /\ content'[i] = new
  <2> HIDE DEF new, z
  <2>1. QED BY <1>2, <1>3 DEF Observed, Inodes
<1>5. wiped'[i] = (wiped[i] \ Asked(w)) \union Zeroed(i, w)
  BY <1>2, <1>3 DEF Zeroed
<1>6. QED BY <1>4, <1>5

(* The positions of a write and of its blocks.                             *)
LEMMA AskedCells ==
  ASSUME NEW w, Plain(w), NEW x \in Nat
  PROVE  /\ Within(w, x \div BlockSize, x % BlockSize) <=> x \in Asked(w)
         /\ x \in Asked(w) <=> w.pointer <= x /\ x < w.pointer + w.length
         /\ x < w.pointer => x \div BlockSize <= w.first
         /\ w.pointer <= x => w.first <= x \div BlockSize
         /\ x < w.pointer + w.length => x \div BlockSize <= w.last
         /\ w.pointer + w.length <= x => w.last <= x \div BlockSize
         /\ x \div BlockSize <= w.last <=> x < (w.last + 1) * BlockSize
<1> DEFINE p == x \div BlockSize
           c == x % BlockSize
           a == w.first * BlockSize
           b == w.last * BlockSize
<1>1. /\ w.first \in Nat /\ w.last \in Nat /\ a \in Nat /\ b \in Nat
      /\ w.pointer \in Nat /\ w.length \in Nat /\ 0 < w.length
      /\ a <= w.pointer /\ w.pointer < a + BlockSize
      /\ b <= w.pointer + w.length /\ w.pointer + w.length < b + BlockSize
      /\ w.from = w.pointer /\ w.taken = w.length
  BY PlainBlocks DEF Plain
<1>2. p \in Nat /\ c \in Cells /\ x = p * BlockSize + c
  BY BlockAndCell
<1>3. Within(w, p, c) <=> x \in Asked(w)
  <2>1. Within(w, p, c) <=> x \in w.from .. w.from + w.taken - 1
    BY <1>2 DEF Within
  <2>2. QED BY <1>1, <2>1 DEF Asked
<1>4. x \in Asked(w) <=> w.pointer <= x /\ x < w.pointer + w.length
  BY <1>1 DEF Asked
<1>5. /\ w.first <= p <=> a <= x
      /\ p <= w.first <=> x < a + BlockSize
      /\ w.last <= p <=> b <= x
      /\ p <= w.last <=> x < b + BlockSize
  BY <1>1, BlockOf
<1>6. (w.last + 1) * BlockSize = b + BlockSize
  BY <1>1, TimesBlock
<1> HIDE DEF p, c, a, b
<1>7. /\ x < w.pointer => p <= w.first
      /\ w.pointer <= x => w.first <= p
      /\ x < w.pointer + w.length => p <= w.last
      /\ w.pointer + w.length <= x => w.last <= p
      /\ p <= w.last <=> x < (w.last + 1) * BlockSize
  BY <1>1, <1>2, <1>5, <1>6
<1>8. QED BY <1>3, <1>4, <1>7 DEF p, c

(* DataKept as long as no array is used unread.                            *)
Kept ==
  \A i \in Files : \A x \in 0 .. table[i].size - 1 :
    OnDisk(i, x) =>
      /\ x \in DOMAIN content[i]
      /\ CellOf(i, x) = IF x \in wiped[i] THEN 0 ELSE content[i][x]

LEMMA KeptOther ==
  ASSUME Typed, Typed', DirInv, Positioned, Owning, Distinct, Observed, Kept,
         NEW k \in Inodes, NEW length \in Lengths,
         NEW i \in Inodes, NEW w, NEW s, WriteStep(k, length, i, w, s),
         NEW j \in Files, j # i, NEW x \in 0 .. table'[j].size - 1,
         OnDisk(j, x)'
  PROVE  /\ x \in DOMAIN content'[j]
         /\ CellOf(j, x)' = IF x \in wiped'[j] THEN 0 ELSE content'[j][x]
<1> DEFINE p == x \div BlockSize
           e == BlocksOf(j)
<1>1. j \in Inodes /\ table'[j] = table[j] /\ x \in 0 .. table[j].size - 1
  BY WriteTouches
<1>2. /\ BlocksOf(j)' = e
      /\ \A q \in Places : 0 < e[q] /\ e[q] < NumBlocks =>
           disk'[e[q]] = disk[e[q]]
  BY OtherBlocks
<1>3. content'[j] = content[j] /\ wiped'[j] = wiped[j]
  BY <1>1, StoredContent
<1>4. p \in Places /\ p \in Needed(j)
  BY <1>1, PlaceOf DEF Positioned, Bounded
<1>5. e \in [Places -> Nat] /\ e[p] # 0
  BY <1>1, <1>4, BlocksAre DEF Owning
<1>6. e[p] < NumBlocks
  BY <1>2 DEF OnDisk
<1>7. disk'[e[p]] = disk[e[p]]
  BY <1>2, <1>4, <1>5, <1>6
<1>8. OnDisk(j, x)
  BY <1>6 DEF OnDisk
<1>9. /\ x \in DOMAIN content[j]
      /\ disk[e[p]][x % BlockSize] = IF x \in wiped[j] THEN 0 ELSE content[j][x]
  BY <1>1, <1>8 DEF Kept, CellOf
<1>10. CellOf(j, x)' = disk'[e[p]][x % BlockSize]
  BY <1>2 DEF CellOf
<1>11. QED BY <1>3, <1>7, <1>9, <1>10

(* What a block of the file holds after the write.                         *)
LEMMA KeptWritten ==
  ASSUME Typed, Typed', DirInv, Positioned, Owning, Distinct, FreeAreZero,
         Observed, Kept, NEW k \in Inodes, NEW length \in Lengths,
         NEW i \in Inodes, NEW w, NEW s, WriteStep(k, length, i, w, s),
         NEW x \in 0 .. table'[i].size - 1, OnDisk(i, x)'
  PROVE  /\ x \in DOMAIN content'[i]
         /\ CellOf(i, x)' = IF x \in wiped'[i] THEN 0 ELSE content'[i][x]
<1> DEFINE p == x \div BlockSize
           c == x % BlockSize
           e == BlocksOf(i)
           E == BlocksOf(i)'
           n == table[i].size
           N == table'[i].size
           z == w.pointer + w.length
<1>1. /\ Plain(w) /\ w.pointer <= n /\ n \in Nat /\ N \in Nat /\ n <= N
      /\ w.isfirst => n = 0 /\ N <= w.length
      /\ ~w.isfirst => N = IF n <= z THEN z ELSE n
      /\ N < MaxSize
  BY WriteSizes
<1>2. /\ w.first \in Nat /\ w.last \in Nat /\ w.first <= w.last
      /\ w.pointer \in Nat /\ w.length \in Nat /\ 0 < w.length /\ z \in Nat
      /\ w.isfirst => w.first = 0 /\ w.pointer = 0
  BY <1>1, PlainBlocks DEF Plain
<1>3. /\ x \in Nat /\ x < N /\ p \in Nat /\ c \in Cells
  BY <1>1, BlockAndCell
<1>4. /\ Within(w, p, c) <=> x \in Asked(w)
      /\ x \in Asked(w) <=> w.pointer <= x /\ x < z
      /\ x < w.pointer => p <= w.first
      /\ w.pointer <= x => w.first <= p
      /\ x < z => p <= w.last
      /\ z <= x => w.last <= p
      /\ p <= w.last <=> x < (w.last + 1) * BlockSize
  BY <1>1, <1>3, AskedCells
<1>5. p \in Slots /\ p \in Places
  <2>1. x < MaxSize
    <3>1. MaxSize \in Nat
      BY DEF MaxSize
    <3> HIDE DEF N
    <3>2. QED BY <1>1, <1>3, <3>1
  <2>2. QED BY <1>3, <2>1, EndInSlots DEF Places
<1>6. E[p] < NumBlocks /\ CellOf(i, x)' = disk'[E[p]][c]
  BY DEF OnDisk, CellOf
<1>7. /\ e \in [Places -> Nat] /\ E \in [Places -> Nat]
      /\ p \in w.first .. w.last =>
           /\ E[p] # 0 /\ E[p] = s.slots[p] /\ disk'[E[p]] = Now(w, e, p)
      /\ p \notin w.first .. w.last =>
           E[p] = e[p] /\ (0 < E[p] => disk'[E[p]] = disk[E[p]])
      /\ e[p] # 0 => E[p] = e[p]
  <2>1. e \in [Places -> Nat] /\ E \in [Places -> Nat]
    BY BlocksAre, BlocksAreNext
  <2>2. Filled(w, e, s, E) /\ Complete(w, e, s, E)
    BY DEF WriteStep, Result
  <2> HIDE DEF p, e, E
  <2>3. e[p] # 0 => E[p] = e[p]
    BY <1>5, <1>6, <2>1, <2>2 DEF Complete
  <2>4. QED BY <1>5, <1>6, <2>1, <2>2, <2>3 DEF Filled
<1>8. /\ wiped'[i] = (wiped[i] \ Asked(w)) \union Zeroed(i, w)
      /\ x \in Asked(w) /\ s.slots[p] < NumBlocks =>
           /\ x \in DOMAIN content'[i]
           /\ content'[i][x] = Buffer(x - w.pointer, w.length)
      /\ x \in DOMAIN content[i] /\ x \notin Asked(w) =>
           /\ x \in DOMAIN content'[i]
           /\ content'[i][x] = content[i][x]
  BY <1>5, StoredContent
<1>9. x \in Zeroed(i, w) <=>
        /\ ~(~w.isfirst /\ w.last = w.first)
        /\ z <= x /\ x < n /\ p <= w.last
  <2>1. (w.last + 1) * BlockSize \in Int
    BY <1>2
  <2> HIDE DEF n, p, z
  <2>2. QED BY <1>1, <1>2, <1>3, <1>4, <2>1 DEF Zeroed, n, z
(* The positions of the old file that keep their block.                    *)
<1>10. ASSUME x < n
       PROVE  /\ e[p] # 0 /\ e[p] = E[p]
              /\ x \in DOMAIN content[i]
              /\ disk[e[p]][c] = IF x \in wiped[i] THEN 0 ELSE content[i][x]
  <2>1. x \in 0 .. table[i].size - 1
    BY <1>1, <1>3, <1>10
  <2>2. p \in Needed(i)
    BY <2>1, PlaceOf DEF Positioned, Bounded
  <2>3. i \in Files
    BY WriteTouches
  <2>4. e[p] # 0
    BY <2>2, <2>3 DEF Owning
  <2>5. e[p] = E[p]
    BY <1>7, <2>4
  <2>6. OnDisk(i, x)
    BY <1>6, <2>5 DEF OnDisk
  <2>7. QED BY <2>1, <2>3, <2>4, <2>5, <2>6 DEF Kept, CellOf
<1> HIDE DEF p, c, e, E, n, N, z
<1>11. CASE x \in Asked(w)
  <2>1. p \in w.first .. w.last
    BY <1>2, <1>3, <1>4, <1>11
  <2>2. disk'[E[p]][c] = Buffer(x - w.pointer, w.length)
    <3>1. Now(w, e, p)[c] = Buffer((p * BlockSize + c) - w.from, w.length)
      BY <1>3, <1>4, <1>11 DEF Now
    <3>2. p * BlockSize + c = x /\ w.from = w.pointer
      BY <1>1, <1>3, BlockAndCell DEF p, c, Plain
    <3>3. QED BY <1>7, <2>1, <3>1, <3>2
  <2>3. x \in DOMAIN content'[i] /\ content'[i][x] = disk'[E[p]][c]
    BY <1>6, <1>7, <1>8, <1>11, <2>1, <2>2
  <2>4. x \notin wiped'[i]
    BY <1>1, <1>2, <1>3, <1>4, <1>8, <1>9, <1>11
  <2>5. QED BY <1>6, <2>3, <2>4
<1>12. CASE x \notin Asked(w) /\ p \notin w.first .. w.last
  <2>1. x < n
    BY <1>1, <1>2, <1>3, <1>4, <1>12 DEF z
  <2>2. disk'[E[p]][c] = disk[e[p]][c]
    BY <1>5, <1>7, <1>10, <1>12, <2>1
  <2>3. x \notin Zeroed(i, w)
    BY <1>2, <1>3, <1>4, <1>9, <1>12
  <2>4. x \in wiped'[i] <=> x \in wiped[i]
    BY <1>8, <1>12, <2>3
  <2>5. QED BY <1>6, <1>8, <1>10, <1>12, <2>1, <2>2, <2>4
<1>13. CASE x \notin Asked(w) /\ p \in w.first .. w.last
  <2>1. ~w.isfirst
    BY <1>1, <1>2, <1>3, <1>4, <1>13 DEF z
  <2>2. x < n
    BY <1>1, <1>2, <1>3, <1>4, <1>13, <2>1
  <2>3. disk'[E[p]][c] = IF p = w.first THEN BlockOn(disk, e[p])[c] ELSE 0
    <3>1. ~Within(w, p, c)
      BY <1>4, <1>13
    <3>2. QED BY <1>3, <1>7, <1>13, <2>1, <3>1 DEF Now
  <2>4. CASE p = w.first
    <3>1. disk'[E[p]][c] = disk[e[p]][c]
      BY <1>6, <1>10, <2>2, <2>3, <2>4 DEF BlockOn
    <3>2. x \notin Zeroed(i, w)
      BY <1>2, <1>3, <1>4, <1>9, <2>1, <2>4
    <3>3. x \in wiped'[i] <=> x \in wiped[i]
      BY <1>8, <1>13, <3>2
    <3>4. QED BY <1>6, <1>8, <1>10, <1>13, <2>2, <3>1, <3>3
  <2>5. CASE p # w.first
    <3>1. disk'[E[p]][c] = 0
      BY <2>3, <2>5
    <3>2. w.first < p /\ p <= w.last /\ w.last # w.first
      BY <1>2, <1>3, <1>13, <2>5
    <3>3. z <= x
      BY <1>2, <1>3, <1>4, <1>13, <3>2
    <3>4. x \in Zeroed(i, w)
      BY <1>9, <2>2, <3>2, <3>3
    <3>5. x \in wiped'[i]
      BY <1>8, <3>4
    <3>6. x \in DOMAIN content'[i]
      BY <1>8, <1>10, <1>13, <2>2
    <3>7. QED BY <1>6, <3>1, <3>5, <3>6
  <2>6. QED BY <2>4, <2>5
<1>14. QED BY <1>11, <1>12, <1>13

LEMMA KeptFwrite ==
  ASSUME Typed, Typed', DirInv, Positioned, Owning, Distinct, FreeAreZero,
         Observed, Kept, NEW k \in Inodes, NEW length \in Lengths,
         NEW i \in Inodes, NEW w, NEW s, WriteStep(k, length, i, w, s)
  PROVE  Kept'
<1>1. Files' = Files
  BY WriteTouches
<1>2. ASSUME NEW j \in Files, NEW x \in 0 .. table'[j].size - 1, OnDisk(j, x)'
      PROVE  /\ x \in DOMAIN content'[j]
             /\ CellOf(j, x)' = IF x \in wiped'[j] THEN 0 ELSE content'[j][x]
  <2>1. CASE j = i
    BY <1>2, <2>1, KeptWritten
  <2>2. CASE j # i
    BY <1>2, <2>2, KeptOther
  <2>3. QED BY <2>1, <2>2
<1>3. QED BY <1>1, <1>2 DEF Kept

-----------------------------------------------------------------------------
(* All steps.                                                              *)

Content == ~stray => Owning /\ Distinct /\ FreeAreZero /\ Kept

LEMMA ContentInit == Init => Observed /\ Content
<1> SUFFICES ASSUME Init PROVE Observed /\ Content
  OBVIOUS
<1>1. Files = {}
  BY DEF Init, Files, Listed, NoFile
<1>2. FreeAreZero
  <2>1. ASSUME NEW b \in free_bit_map, b < NumBlocks PROVE disk[b] = Zeros
    <3>1. b \in Blocks /\ b # 0
      BY <2>1 DEF Init, Blocks, Reserved
    <3>2. QED BY <3>1 DEF Init
  <2>2. QED BY <2>1 DEF FreeAreZero
<1>3. Owning /\ Distinct /\ Kept
  BY <1>1 DEF Owning, Distinct, Kept
<1>4. Observed
  BY DEF Init, Observed
<1>5. QED BY <1>2, <1>3, <1>4 DEF Content

(* A new file has no blocks yet; that all is as it was is the other case.  *)
LEMMA ContentOpen ==
  ASSUME Typed, Typed', DirInv, Positioned, Observed, Content,
         Observed', stray' = stray,
         free_bit_map' = free_bit_map, disk' = disk,
         NEW j \in Inodes \union {NumInodes},
         Files' = Files \/ (Files' \subseteq Files \union {j} /\ j \notin Files),
         \A i \in Inodes : /\ table'[i].data_ptrs = table[i].data_ptrs
                           /\ table'[i].indirectptr = table[i].indirectptr,
         \A i \in Files : /\ table'[i].size = table[i].size
                          /\ content'[i] = content[i]
                          /\ wiped'[i] = wiped[i],
         Files' \subseteq Inodes,
         \A i \in Files' \ Files :
           /\ table'[i].size = 0 /\ table'[i].indirectptr = 0
           /\ \A p \in Pointers : table'[i].data_ptrs[p] = 0
  PROVE  Content'
<1> SUFFICES ASSUME ~stray PROVE (Owning /\ Distinct /\ FreeAreZero /\ Kept)'
  BY DEF Content
<1>1. Owning /\ Distinct /\ FreeAreZero /\ Kept
  BY DEF Content
<1>2. Files \subseteq Inodes
  BY FilesAreInodes
<1>3. \A i \in Inodes : BlocksOf(i)' = BlocksOf(i)
  BY BlocksSame
<1>4. \A i \in Files : Needed(i)' = Needed(i)
  BY DEF Needed
<1>5. ASSUME NEW i \in Files' \ Files
      PROVE  Needed(i)' = {} /\ \A p \in Places : BlocksOf(i)'[p] = 0
  <2>1. Needed(i)' = {}
    BY DEF Needed
  <2>2. i \in Inodes
    BY <1>5
  <2>3. BlocksFrom(i, BlocksOf(i))'
    BY <2>2, BlocksAreNext
  <2>4. BlocksOf(i)'[-1] = 0
    BY <1>5, <2>3 DEF BlocksFrom
  <2>5. \A p \in Pointers : BlocksOf(i)'[p] = 0
    BY <1>5, <2>3 DEF BlocksFrom
  <2>6. \A p \in Slots \ Pointers : BlocksOf(i)'[p] = 0
    BY <2>3, <2>4 DEF BlocksFrom
  <2>7. QED BY <2>1, <2>4, <2>5, <2>6 DEF Places
<1>6. Places' = Places /\ Reserved' = Reserved
  BY DEF Places, Reserved
<1>7. Owning'
  <2>1. ASSUME NEW i \in Files'
        PROVE  /\ \A p \in Needed(i)' : BlocksOf(i)'[p] # 0
               /\ \/ \E p \in Places : NumBlocks <= BlocksOf(i)'[p]
                  \/ \A p \in Places : BlocksOf(i)'[p] # 0 => p \in Needed(i)'
    <3>1. CASE i \in Files
      BY <1>1, <1>2, <1>3, <1>4, <3>1 DEF Owning
    <3>2. CASE i \notin Files
      BY <1>5, <3>2
    <3>3. QED BY <3>1, <3>2
  <2>2. QED BY <1>6, <2>1 DEF Owning
<1>8. Distinct'
  <2>1. ASSUME NEW i \in Files', NEW p \in Places,
               0 < BlocksOf(i)'[p], BlocksOf(i)'[p] < NumBlocks
        PROVE  /\ BlocksOf(i)'[p] \notin Reserved
               /\ BlocksOf(i)'[p] \notin free_bit_map
               /\ \A l \in Files' : \A q \in Places :
                    BlocksOf(l)'[q] = BlocksOf(i)'[p] => l = i /\ q = p
    <3>1. i \in Files /\ BlocksOf(i)' = BlocksOf(i)
      BY <1>2, <1>3, <1>5, <2>1
    <3>2. /\ BlocksOf(i)[p] \notin Reserved
          /\ BlocksOf(i)[p] \notin free_bit_map
          /\ \A l \in Files : \A q \in Places :
               BlocksOf(l)[q] = BlocksOf(i)[p] => l = i /\ q = p
      BY <1>1, <2>1, <3>1 DEF Distinct
    <3>3. ASSUME NEW l \in Files', NEW q \in Places,
                 BlocksOf(l)'[q] = BlocksOf(i)'[p]
          PROVE  l = i /\ q = p
      <4>1. l \in Files
        BY <1>5, <2>1, <3>3
      <4>2. BlocksOf(l)[q] = BlocksOf(i)[p]
        BY <1>2, <1>3, <3>1, <3>3, <4>1
      <4>3. QED BY <3>2, <4>1, <4>2
    <3>4. QED BY <3>1, <3>2, <3>3
  <2>2. QED BY <1>6, <2>1 DEF Distinct
<1>9. FreeAreZero'
  BY <1>1 DEF FreeAreZero, Zeros, Cells
<1>10. Kept'
  <2>1. ASSUME NEW i \in Files', NEW x \in 0 .. table'[i].size - 1,
               OnDisk(i, x)'
        PROVE  /\ x \in DOMAIN content'[i]
               /\ CellOf(i, x)' = IF x \in wiped'[i] THEN 0 ELSE content'[i][x]
    <3>1. i \in Files
      BY <2>1
    <3>2. /\ BlocksOf(i)' = BlocksOf(i) /\ table'[i].size = table[i].size
          /\ content'[i] = content[i] /\ wiped'[i] = wiped[i]
      BY <1>2, <1>3, <3>1
    <3>3. x \in 0 .. table[i].size - 1 /\ OnDisk(i, x)
      BY <2>1, <3>2 DEF OnDisk
    <3>4. CellOf(i, x)' = CellOf(i, x)
      BY <3>2 DEF CellOf
    <3>5. QED BY <1>1, <3>1, <3>2, <3>3, <3>4 DEF Kept
  <2>2. QED BY <2>1 DEF Kept
<1>11. QED BY <1>7, <1>8, <1>9, <1>10

LEMMA ContentSame ==
  ASSUME Typed, Typed', DirInv, Positioned, Observed, Content,
         UNCHANGED <<table, root, free_bit_map, disk, content, wiped, stray>>
  PROVE  Observed' /\ Content'
<1>1. Observed'
  BY DEF Observed, Inodes
<1>2. Files' = Files /\ Files \subseteq Inodes
  BY FilesAreInodes DEF Files, Listed, Inodes
<1>3. NumInodes \in Inodes \union {NumInodes}
  OBVIOUS
<1>4. Content'
  BY <1>1, <1>2, <1>3, ContentOpen
<1>5. QED BY <1>1, <1>4

LEMMA ContentNew ==
  ASSUME Typed, Typed', DirInv, Positioned, Observed, Content,
         NEW name \in Names, FopenNew(name)
  PROVE  Observed' /\ Content'
<1>1. free_bit_map' = free_bit_map /\ disk' = disk /\ stray' = stray
  BY DEF FopenNew
<1>2. Files \subseteq Inodes
  BY FilesAreInodes
<1>3. CASE /\ table' = table /\ root' = root
           /\ content' = [i \in Inodes |-> content[i]]
           /\ wiped' = [i \in Inodes |-> wiped[i]]
  <2>1. Observed' /\ Files' = Files
    BY <1>3 DEF Observed, Files, Listed, Inodes
  <2>2. /\ \A i \in Files : content'[i] = content[i] /\ wiped'[i] = wiped[i]
        /\ NumInodes \in Inodes \union {NumInodes}
    BY <1>2, <1>3
  <2>3. QED BY <1>1, <1>2, <1>3, <2>1, <2>2, ContentOpen
<1>4. ASSUME NEW e \in Inodes, NEW j \in Inodes,
             table[j].used = 0, j \notin Files, root[e].filename = NoName,
             table' = [table EXCEPT ![j] =
                         [table[j] EXCEPT !.used = 1, !.size = 0]],
             root' = [root EXCEPT ![e] =
                        [filename |-> name, inoteindex |-> j]],
             content' = [i \in Inodes |-> IF i = j THEN Empty ELSE content[i]],
             wiped' = [i \in Inodes |-> IF i = j THEN {} ELSE wiped[i]]
      PROVE  Observed' /\ Content'
  <2>1. Observed'
    BY <1>4 DEF Observed, Inodes
  <2>2. Files' \subseteq Files \union {j} /\ Files' \subseteq Inodes
    <3>1. root \in [Inodes -> [filename : Names \union {NoName},
                               inoteindex : 0 .. Free]]
      BY DEF Typed
    <3>2. ASSUME NEW i \in Listed' PROVE root'[i].inoteindex \in Files \union {j}
      <4>1. CASE i = e
        BY <1>4, <3>1, <4>1
      <4>2. CASE i # e
        <5>1. i \in Inodes /\ root'[i] = root[i] /\ root[i].filename # NoName
          BY <1>4, <3>1, <3>2, <4>2 DEF Listed, Inodes
        <5>2. QED BY <5>1 DEF Files, Listed
      <4>3. QED BY <4>1, <4>2
    <3>3. QED BY <1>2, <3>2 DEF Files
  <2>3. /\ table[j].size = 0 /\ table[j].indirectptr = 0
        /\ \A p \in Pointers : table[j].data_ptrs[p] = 0
    BY <1>4 DEF Positioned, Untouched
  <2>4. table \in [Inodes -> InodeRecords]
    BY DEF Typed
  <2>5. \A i \in Inodes : /\ table'[i].data_ptrs = table[i].data_ptrs
                          /\ table'[i].indirectptr = table[i].indirectptr
                          /\ i # j => table'[i].size = table[i].size
                          /\ i = j => table'[i].size = 0
    BY <1>4, <2>4 DEF InodeRecords
  <2>6. \A i \in Files : /\ table'[i].size = table[i].size
                         /\ content'[i] = content[i]
                         /\ wiped'[i] = wiped[i]
    BY <1>2, <1>4, <2>5
  <2>7. ASSUME NEW i \in Files' \ Files
        PROVE  /\ table'[i].size = 0 /\ table'[i].indirectptr = 0
               /\ \A p \in Pointers : table'[i].data_ptrs[p] = 0
    <3>1. i = j
      BY <2>2
    <3>2. QED BY <2>3, <2>5, <3>1
  <2>8. j \in Inodes \union {NumInodes}
    OBVIOUS
  <2>9. \A i \in Inodes : /\ table'[i].data_ptrs = table[i].data_ptrs
                          /\ table'[i].indirectptr = table[i].indirectptr
    BY <2>5
  <2>10. Files' \subseteq Files \union {j} /\ j \notin Files
    BY <1>4, <2>2
  <2>11. Content'
    BY <1>1, <2>1, <2>2, <2>6, <2>7, <2>8, <2>9, <2>10, ContentOpen
  <2>12. QED BY <2>1, <2>11
<1>5. QED BY <1>3, <1>4, FopenNewIs

LEMMA StoredObserved ==
  ASSUME NEW k, NEW w, NEW s, Observed, StoreWrite(k, w, s)
  PROVE  Observed'
<1>1. /\ \E i, c : content' = [content EXCEPT ![i] = c]
      /\ \E i, z : wiped' = [wiped EXCEPT ![i] = z]
  BY DEF StoreWrite
<1>2. QED BY <1>1 DEF Observed, Inodes

LEMMA ContentFwrite ==
  ASSUME Typed, Typed', DirInv, Positioned, Observed, Content,
         NEW k \in Inodes, NEW length \in Lengths, Fwrite(k, length)
  PROVE  Observed' /\ Content'
<1>1. CASE GiveUp
  <2>1. UNCHANGED <<table, root, free_bit_map, disk, content, wiped, stray>>
    BY <1>1 DEF GiveUp, memory, ondisk, observed
  <2>2. QED BY <2>1, ContentSame
<1>2. CASE ~GiveUp
  <2>1. Observed'
    <3>1. \E w, s : StoreWrite(k, w, s)
      BY <1>2 DEF Fwrite
    <3>2. QED BY <3>1, StoredObserved
  <2>2. ASSUME ~stray' PROVE (Owning /\ Distinct /\ FreeAreZero /\ Kept)'
    <3>1. ~stray
      BY <2>2, StrayStays
    <3>2. Owning /\ Distinct /\ FreeAreZero /\ Kept
      BY <3>1 DEF Content
    <3>3. PICK i \in Inodes : \E w, s : WriteStep(k, length, i, w, s)
      BY <1>2, <2>2, <3>2, FwriteSteps
    <3>4. PICK w, s : WriteStep(k, length, i, w, s)
      BY <3>3
    <3>5. HasInode(k)
      BY <3>4 DEF WriteStep
    <3>6. Owning'
      BY <3>2, <3>4, <3>5, OwningFwrite
    <3>7. Distinct'
      BY <3>2, <3>4, DistinctFwrite
    <3>8. FreeAreZero'
      BY <3>2, <3>4, FreeFwrite
    <3>9. Kept'
      BY <3>2, <3>4, KeptFwrite
    <3>10. QED BY <3>6, <3>7, <3>8, <3>9
  <2>3. Content'
    <3>1. ~stray' => Owning' /\ Distinct' /\ FreeAreZero' /\ Kept'
      BY <2>2
    <3>2. QED BY <3>1 DEF Content
  <2>4. QED BY <2>1, <2>3
<1>3. QED BY <1>1, <1>2

(* Everything that the theorems rest on.                                   *)
Intact == Sound /\ Observed /\ Content

LEMMA IntactInit == Init => Intact
BY SoundInit, ContentInit DEF Intact

LEMMA IntactStep == Intact /\ [FileCall]_vars => Intact'
<1> SUFFICES ASSUME Intact, [FileCall]_vars PROVE Intact'
  OBVIOUS
<1>1. Sound'
  BY SoundStep DEF Intact
<1>2. /\ Typed /\ Typed' /\ DirInv /\ Positioned /\ Observed /\ Content
  BY <1>1 DEF Intact, Sound
<1>3. CASE UNCHANGED <<table, root, free_bit_map, disk, content, wiped, stray>>
  BY <1>1, <1>2, <1>3, ContentSame DEF Intact
<1>4. ASSUME NEW name \in Names, FopenExisting(name) \/ FopenNew(name)
      PROVE  Intact'
  <2>1. CASE FopenNew(name)
    BY <1>1, <1>2, <2>1, ContentNew DEF Intact
  <2>2. CASE FopenExisting(name)
    BY <1>3, <2>2 DEF FopenExisting, ondisk, observed
  <2>3. QED BY <1>4, <2>1, <2>2
<1>5. ASSUME NEW k \in Inodes, NEW length \in Lengths,
             Fread(k, length) \/ Fwrite(k, length)
      PROVE  Intact'
  <2>1. CASE Fwrite(k, length)
    BY <1>1, <1>2, <2>1, ContentFwrite DEF Intact
  <2>2. CASE Fread(k, length)
    BY <1>3, <2>2 DEF Fread, GiveUp, memory, ondisk, observed
  <2>3. QED BY <1>5, <2>1, <2>2
<1>6. ASSUME NEW k \in Inodes,
             Fclose(k) \/ FreadClosed(k) \/ UseWithoutInode(k)
      PROVE  Intact'
  BY <1>3, <1>6
     DEF Fclose, FreadClosed, UseWithoutInode, GiveUp, memory, ondisk, observed
<1>7. ASSUME NEW k \in Inodes, NEW loc \in Positions, Fseek(k, loc)
      PROVE  Intact'
  BY <1>3, <1>7 DEF Fseek, ondisk, observed
<1>8. CASE UNCHANGED vars
  BY <1>3, <1>8 DEF vars, memory, ondisk, observed
<1>9. QED BY <1>4, <1>5, <1>6, <1>7, <1>8 DEF FileCall

(* The numbers that a read uses are those of the file.                     *)
LEMMA ReadBlock ==
  ASSUME Typed, NEW i \in Inodes, NEW p \in Slots, NEW unset,
         p < Direct \/ table[i].indirectptr < NumBlocks,
         Direct <= p => BlocksOf(i)[-1] # 0
  PROVE  Numbers(table[i].data_ptrs,
                 ArrayOn(disk, table[i].indirectptr, unset))[p]
           = BlocksOf(i)[p]
<1> DEFINE e == BlocksOf(i)
           b == table[i].indirectptr
<1>1. BlocksFrom(i, e) /\ e \in [Places -> Nat] /\ b = e[-1]
  BY BlocksAre DEF BlocksFrom
<1>2. p \in Int
  BY DEF Slots
<1>3. CASE p < Direct
  <2>1. p \in Pointers
    BY <1>3 DEF Slots, Pointers
  <2>2. QED BY <1>1, <1>3, <2>1 DEF Numbers, BlocksFrom
<1>4. CASE ~(p < Direct)
  <2>1. p \in Slots \ Pointers /\ e[-1] # 0
    BY <1>2, <1>4 DEF Pointers
  <2>2. e[-1] < NumBlocks /\ e[p] = disk[e[-1]][p - Direct]
    BY <1>1, <1>4, <2>1 DEF BlocksFrom
  <2>3. ArrayOn(disk, b, unset) = disk[e[-1]]
    BY <1>1, <2>2 DEF ArrayOn
  <2> HIDE DEF e, b
  <2>4. Numbers(table[i].data_ptrs, ArrayOn(disk, b, unset))[p]
          = ArrayOn(disk, b, unset)[p - Direct]
    BY <1>4 DEF Numbers
  <2>5. QED BY <2>2, <2>3, <2>4 DEF e, b
<1>5. QED BY <1>3, <1>4

LEMMA FreadReads ==
  ASSUME Intact, NEW k \in Inodes, NEW length \in Lengths, Fread(k, length)
  PROVE  FreadReturns'
<1> DEFINE i    == fdt[k].inode
           file == table[i]
           from == fdt[k].rwptr
           read == IF from + length > file.size THEN file.size - from
                                                ELSE length
           e    == BlocksOf(i)
<1>1. /\ Typed /\ DirInv /\ Positioned /\ HasInode(k) /\ Content
  BY DEF Intact, Sound, Fread
<1>2. /\ i \in Files /\ i \in Inodes /\ from \in Nat /\ file.size \in Nat
      /\ from <= file.size /\ length \in Nat /\ length > 0
  <2>1. i \in Files /\ i \in Inodes
    BY <1>1, HasInodeType, HasInodeIsFile
  <2>2. from <= file.size
    BY <1>1, <2>1 DEF Positioned, Cursors
  <2>3. file.size \in Nat
    BY <1>1, <2>1 DEF Typed, InodeRecords
  <2>4. from \in Nat
    BY <1>1, HasInodeType
  <2>5. QED BY <2>1, <2>2, <2>3, <2>4, SfsAssumption
<1>3. CASE GiveUp
  BY <1>3 DEF GiveUp, FreadReturns, NoRead, Empty
<1>4. CASE ~GiveUp
  <2>1. \E unset :
          readbuf' =
            [inode |-> i, from |-> from,
             cells |-> [x \in 0 .. read - 1 |->
               BlockOn(disk, Numbers(file.data_ptrs,
                                     ArrayOn(disk, file.indirectptr, unset))
                               [(from + x) \div BlockSize])
                 [Offset(from, x)]]]
    BY <1>4 DEF Fread
  <2>2. UNCHANGED <<table, root, free_bit_map, disk, content, wiped, stray>>
    BY <1>4 DEF Fread, ondisk, observed
  <2>3. PICK unset :
          readbuf' =
            [inode |-> i, from |-> from,
             cells |-> [x \in 0 .. read - 1 |->
               BlockOn(disk, Numbers(file.data_ptrs,
                                     ArrayOn(disk, file.indirectptr, unset))
                               [(from + x) \div BlockSize])
                 [Offset(from, x)]]]
    BY <2>1
  <2>4. read \in Int /\ from + read <= file.size
    <3> HIDE DEF from, file
    <3>1. QED BY <1>2
  <2> DEFINE slots == Numbers(file.data_ptrs,
                              ArrayOn(disk, file.indirectptr, unset))
  <2>5. /\ readbuf'.inode = i /\ readbuf'.from = from
        /\ DOMAIN readbuf'.cells = 0 .. read - 1
        /\ \A x \in 0 .. read - 1 :
             readbuf'.cells[x] =
               BlockOn(disk, slots[(from + x) \div BlockSize])[Offset(from, x)]
    <3> HIDE DEF i, from, read, file
    <3>1. QED BY <2>3
  <2>6. ASSUME ~stray, NEW x \in 0 .. read - 1, NumberKept(i, from + x)
        PROVE  readbuf'.cells[x] =
                 IF e[(from + x) \div BlockSize] < NumBlocks
                    /\ from + x \notin wiped[i]
                   THEN content[i][from + x] ELSE 0
    <3> DEFINE y == from + x
               p == y \div BlockSize
    <3>1. y \in 0 .. file.size - 1
      <4> HIDE DEF from, file, read
      <4>1. QED BY <1>2, <2>4
    <3>2. Owning /\ Kept /\ file.size < MaxSize
      BY <1>1, <1>2, <2>6 DEF Content, Positioned, Bounded
    <3>3. /\ p \in Slots /\ p \in Places /\ p \in Needed(i)
          /\ Direct <= p => -1 \in Needed(i)
      <4> HIDE DEF y, i
      <4>1. QED BY <1>1, <1>2, <3>1, <3>2, PlaceOf
    <3>4. e[p] # 0 /\ (Direct <= p => e[-1] # 0)
      BY <1>2, <3>2, <3>3 DEF Owning
    <3>5. slots[p] = e[p]
      <4>1. p < Direct \/ file.indirectptr < NumBlocks
        BY <2>6 DEF NumberKept
      <4> HIDE DEF p, i
      <4>2. QED BY <1>1, <1>2, <3>3, <3>4, <4>1, ReadBlock
    <3>6. Offset(from, x) = y % BlockSize
      BY DEF Offset
    <3>7. readbuf'.cells[x] = BlockOn(disk, e[p])[y % BlockSize]
      BY <2>5, <3>5, <3>6
    <3>8. CASE e[p] < NumBlocks
      <4>1. readbuf'.cells[x] = CellOf(i, y)
        BY <3>7, <3>8 DEF BlockOn, CellOf
      <4>2. OnDisk(i, y)
        BY <3>8 DEF OnDisk
      <4>3. CellOf(i, y) = IF y \in wiped[i] THEN 0 ELSE content[i][y]
        <5> HIDE DEF y
        <5>1. QED BY <1>2, <3>1, <3>2, <4>2 DEF Kept
      <4>4. QED BY <3>8, <4>1, <4>3
    <3>9. CASE ~(e[p] < NumBlocks)
      <4>1. y % BlockSize \in Cells
        <5>1. y \in Nat
          BY <1>2, <3>1
        <5> HIDE DEF y
        <5>2. QED BY <5>1, BlockAndCell
      <4>2. readbuf'.cells[x] = 0
        BY <3>7, <3>9, <4>1 DEF BlockOn, Zeros
      <4>3. QED BY <3>9, <4>2
    <3>10. QED BY <3>8, <3>9
  <2>7. BlocksOf(readbuf.inode)' = e
    BY <2>2, <2>5 DEF BlocksOf, Places, Lost, Zeros, Cells, Slots
  <2> HIDE DEF e, i, from, read
  <2>8. ASSUME ~stray', NEW x \in DOMAIN readbuf'.cells,
                NumberKept(readbuf.inode, readbuf.from + x)'
         PROVE  readbuf'.cells[x] =
                  IF OnDisk(readbuf.inode, readbuf.from + x)'
                     /\ readbuf'.from + x \notin wiped'[readbuf'.inode]
                    THEN content'[readbuf'.inode][readbuf'.from + x] ELSE 0
    <3>1. /\ x \in 0 .. read - 1 /\ readbuf'.from = from
          /\ readbuf'.inode = i
      BY <2>5
    <3>2. OnDisk(readbuf.inode, readbuf.from + x)'
            = (e[(from + x) \div BlockSize] < NumBlocks)
      BY <2>7, <3>1 DEF OnDisk
    <3>3. NumberKept(i, from + x) /\ ~stray
      BY <2>2, <2>8, <3>1 DEF NumberKept
    <3>4. readbuf'.cells[x] =
            IF e[(from + x) \div BlockSize] < NumBlocks
               /\ from + x \notin wiped[i]
              THEN content[i][from + x] ELSE 0
      BY <2>6, <3>1, <3>3
    <3>5. QED BY <2>2, <3>1, <3>2, <3>4
  <2>9. QED BY <2>8 DEF FreadReturns
<1>5. QED BY <1>3, <1>4

LEMMA FreadReturnsStep ==
  Intact /\ FreadReturns /\ [FileCall]_vars => FreadReturns'
<1> SUFFICES ASSUME Intact, FreadReturns, [FileCall]_vars PROVE FreadReturns'
  OBVIOUS
<1>1. CASE readbuf' = NoRead
  BY <1>1 DEF FreadReturns, NoRead, Empty
<1>2. ASSUME NEW name \in Names, FopenExisting(name) \/ FopenNew(name)
      PROVE  readbuf' = NoRead
  BY <1>2 DEF FopenExisting, FopenNew
<1>3. ASSUME NEW k \in Inodes,
             Fclose(k) \/ FreadClosed(k) \/ UseWithoutInode(k)
      PROVE  readbuf' = NoRead
  BY <1>3 DEF Fclose, FreadClosed, UseWithoutInode, GiveUp
<1>4. ASSUME NEW k \in Inodes, NEW length \in Lengths, Fwrite(k, length)
      PROVE  readbuf' = NoRead
  <2>1. GiveUp \/ \E w, s : StoreWrite(k, w, s)
    BY <1>4 DEF Fwrite
  <2>2. QED BY <2>1 DEF GiveUp, StoreWrite
<1>5. ASSUME NEW k \in Inodes, NEW loc \in Positions, Fseek(k, loc)
      PROVE  readbuf' = NoRead
  BY <1>5 DEF Fseek
<1>6. ASSUME NEW k \in Inodes, NEW length \in Lengths, Fread(k, length)
      PROVE  FreadReturns'
  BY <1>6, FreadReads
<1>7. CASE UNCHANGED vars
  <2>1. UNCHANGED <<table, disk, readbuf, content, wiped, stray>>
    BY <1>7 DEF vars, memory, ondisk, observed
  <2>2. QED BY <2>1
           DEF FreadReturns, NumberKept, OnDisk, BlocksOf, Places, Lost, Zeros, Cells, Slots
<1>8. QED
  BY <1>1, <1>2, <1>3, <1>4, <1>5, <1>6, <1>7 DEF FileCall

LEMMA IntactCorrect == DataSpec => []Intact
BY IntactInit, IntactStep, PTL DEF DataSpec

(* Until a write uses an array of block numbers that nobody has read or    *)
(* set: whatever is opened, written, read and sought, in any order and on  *)
(* any files, the block of every position inside a file is allocated and   *)
(* the indirect block with it when one is needed, and others only when the *)
(* disk has refused one; no block of the disk belongs to two files or      *)
(* twice to one, is marked free or is one of the first four.               *)
THEOREM BlocksOwnedCorrect == DataSpec => []BlocksOwned
<1>1. Intact => BlocksOwned
  <2> SUFFICES ASSUME Intact, ~stray PROVE BlocksOwned
    BY DEF BlocksOwned
  <2>1. Typed /\ DirInv /\ Positioned /\ Owning /\ Distinct
    BY DEF Intact, Sound, Content
  <2>2. \A i \in Files : BlocksOf(i) \in [Places -> Nat]
    BY <2>1, BlocksAre, FilesAreInodes
  <2>3. ASSUME NEW i \in Files
        PROVE  Needed(i) \subseteq Owned(i)
               /\ (Needed(i) = Owned(i) \/ Refused(i))
    <3>1. Needed(i) \subseteq Places
      <4>1. CASE table[i].size = 0
        BY <4>1 DEF Needed
      <4>2. CASE table[i].size # 0
        <5>1. /\ i \in Inodes /\ table[i].size \in Nat
              /\ table[i].size < MaxSize
          BY <2>1, FilesAreInodes
             DEF Typed, InodeRecords, Positioned, Bounded
        <5>2. table[i].size \div BlockSize \in Slots
          BY <5>1, EndInSlots
        <5>3. QED BY <5>2 DEF Needed, Places, Slots
      <4>3. QED BY <4>1, <4>2
    <3>2. \A p \in Needed(i) : BlocksOf(i)[p] # 0
      BY <2>1 DEF Owning
    <3>3. Needed(i) \subseteq Owned(i)
      BY <3>1, <3>2 DEF Owned
    <3>4. CASE \E p \in Places : NumBlocks <= BlocksOf(i)[p]
      BY <2>2, <3>3, <3>4 DEF Refused
    <3>5. CASE \A p \in Places : BlocksOf(i)[p] # 0 => p \in Needed(i)
      <4>1. Owned(i) \subseteq Needed(i)
        BY <3>5 DEF Owned
      <4>2. QED BY <3>3, <4>1
    <3>6. QED BY <2>1, <3>4, <3>5 DEF Owning
  <2>4. ASSUME NEW i \in Files, NEW p \in Owned(i),
               BlocksOf(i)[p] < NumBlocks
        PROVE  /\ BlocksOf(i)[p] \notin Reserved
               /\ BlocksOf(i)[p] \notin free_bit_map
               /\ \A j \in Files : \A q \in Owned(j) :
                    BlocksOf(j)[q] = BlocksOf(i)[p] => j = i /\ q = p
    <3>1. p \in Places /\ 0 < BlocksOf(i)[p]
      BY <2>2 DEF Owned
    <3>2. \A j \in Files : Owned(j) \subseteq Places
      BY DEF Owned
    <3>3. QED BY <2>1, <2>4, <3>1, <3>2 DEF Distinct
  <2>5. ASSUME NEW i \in Files
        PROVE  LET end    == table[i].size \div BlockSize
                   needed == IF table[i].size = 0 THEN {}
                             ELSE 0 .. end \union
                                    IF end < Direct THEN {} ELSE {-1}
               IN /\ needed \subseteq Owned(i)
                  /\ needed = Owned(i) \/ Refused(i)
    BY <2>3 DEF Needed
  <2>6. QED BY <2>4, <2>5 DEF BlocksOwned
<1>2. QED BY <1>1, IntactCorrect, PTL

(* For all sequences of calls, until a write uses an array of block        *)
(* numbers that nobody has read or set: the cells of every file that lie   *)
(* in a block of the disk hold what was last written there, or 0 where a   *)
(* write of several blocks that ends before them has zeroed the rest of    *)
(* its last block.  Cells whose block a full disk has refused are on no    *)
(* block and hold nothing.                                                 *)
THEOREM DataKeptCorrect == DataSpec => []DataKept
<1>1. Intact => DataKept
  BY DEF Intact, Content, Kept, DataKept
<1>2. QED BY <1>1, IntactCorrect, PTL

(* In the same calls and until the same write, sfs_fread() returns what    *)
(* was written last at each position, with however many reads, writes and  *)
(* seeks in between, and 0 for a cell that a write has zeroed or whose     *)
(* block was refused; what it returns behind the direct blocks of a file   *)
(* whose indirect block was refused is left open.                          *)
THEOREM FreadReturnsCorrect == DataSpec => []FreadReturns
<1>1. Init => FreadReturns
  BY DEF Init, FreadReturns, NoRead, Empty
<1>2. QED BY <1>1, FreadReturnsStep, IntactCorrect, PTL DEF DataSpec

(* Only a write from the direct blocks to those behind them, or one to a   *)
(* file whose indirect block was refused, uses an array as it finds it.    *)
LEMMA WrittenUnread ==
  ASSUME Typed, NEW inode \in Inodes, NEW w, Plain(w), w.last \in Slots,
         NEW unset \in [Slots -> Nat],
         Written(w, Before(inode), unset).unread = TRUE
  PROVE  \/ w.first < Direct /\ Direct <= w.last
         \/ NumBlocks <= table[inode].indirectptr
<1> DEFINE s == Before(inode)
           d == Loop(w, s, w.first)
<1>1. /\ w.first \in Nat /\ w.last \in Nat /\ w.first <= w.last
      /\ w.isfirst => w.first = 0
      /\ w \in Writes /\ calls \in Nat /\ s \in States
  BY PlainBlocks, BeforeType DEF Plain, Typed
<1>2. w.last \in -1 .. Direct + BlockSize - 1
  BY <1>1 DEF Slots
<1>3. s.unread = FALSE /\ s.indirect = table[inode].indirectptr
  BY DEF Before
<1>4. table[inode].indirectptr \in Nat
  BY DEF Typed, InodeRecords
<1> HIDE DEF s
<1>5. CASE w.last < Direct
  <2>1. Written(w, s, unset) = d[w.last]
    BY <1>5, WrittenIs
  <2>2. d[w.last].unread = s.unread
    BY <1>1, <1>2, LoopKeeps
  <2>3. Written(w, s, unset).unread = FALSE
    BY <1>3, <2>1, <2>2
  <2>4. QED BY <2>3 DEF s
<1>6. CASE Direct <= w.first
  <2> DEFINE o == Opened(w, s, unset)
  <2>1. /\ Direct <= w.last /\ ~w.isfirst
        /\ w.first >= Direct /\ ~(w.first < Direct)
    BY <1>1, <1>6
  <2>2. Written(w, s, unset) = Loop(w, o, Behind(w))[w.last]
    <3>1. d[Direct - 1] = s
      BY <1>6, WrittenIs
    <3>2. QED BY <2>1, <3>1, WrittenIs
  <2>3. o = ArrayRead(s, unset)
    BY <2>1 DEF Opened
  <2>4. o \in States
    BY <1>1, OpenedType
  <2>5. o.unread = (s.indirect >= NumBlocks)
    BY <1>1, <2>3 DEF ArrayRead, States
  <2> HIDE DEF o
  <2>6. Behind(w) \in Nat
    BY <1>1 DEF Behind
  <2>7. Written(w, s, unset).unread = o.unread
    BY <1>1, <1>2, <2>2, <2>4, <2>6, LoopKeeps
  <2>8. (s.indirect >= NumBlocks) = TRUE
    BY <2>5, <2>7 DEF s
  <2>9. QED BY <1>3, <1>4, <2>8
<1>7. QED BY <1>1, <1>5, <1>6

(* A call uses an array of block numbers that nobody has read or set only  *)
(* when it is a write that begins in the direct blocks and ends behind     *)
(* them, or one to a file whose indirect block the full disk has refused:  *)
(* every other write has read the array, or needs none.                    *)
THEOREM StrayByCrossingCorrect == DataSpec => StrayByCrossing
<1> DEFINE Crossing ==
      \E k \in Inodes : \E length \in Lengths :
        /\ Fwrite(k, length)
        /\ \/ Crosses(k, length)
           \/ table[fdt[k].inode].indirectptr >= NumBlocks
<1>1. ASSUME Intact, FileCall, ~stray /\ stray' PROVE Crossing
  <2>1. PICK k \in Inodes, length \in Lengths : Fwrite(k, length)
    <3>1. \A name \in Names : FopenExisting(name) \/ FopenNew(name)
                                => stray' = stray
      BY DEF FopenExisting, FopenNew, observed
    <3>2. \A k \in Inodes : Fclose(k) \/ FreadClosed(k) \/ UseWithoutInode(k)
                               => stray' = stray
      BY DEF Fclose, FreadClosed, UseWithoutInode, GiveUp, observed
    <3>3. ASSUME NEW k, NEW length, Fread(k, length) PROVE stray' = stray
      BY <3>3 DEF Fread, GiveUp, observed
    <3>4. ASSUME NEW k, NEW loc, Fseek(k, loc) PROVE stray' = stray
      BY <3>4 DEF Fseek, observed
    <3>5. QED BY <1>1, <3>1, <3>2, <3>3, <3>4 DEF FileCall
  <2> DEFINE i == fdt[k].inode
             w == WriteOf(i, fdt[k].wptr, length)
  <2>2. Typed /\ DirInv /\ Positioned
    BY <1>1 DEF Intact, Sound
  <2>3. /\ i \in Inodes /\ HasInode(k) /\ w.last \in Slots
        /\ \E unset \in [Slots -> Nat] :
             /\ stray' = (\/ stray
                          \/ /\ Written(w, Before(i), unset).unread
                             /\ ~(w.isfirst /\ unset = Clean))
             /\ Written(w, Before(i), unset) \in States
    <3>1. ~GiveUp
      BY <1>1 DEF GiveUp, observed
    <3>2. QED BY <2>1, <2>2, <3>1, FwriteIs
  <2>4. PICK unset \in [Slots -> Nat] :
          /\ stray' = (\/ stray
                       \/ /\ Written(w, Before(i), unset).unread
                          /\ ~(w.isfirst /\ unset = Clean))
          /\ Written(w, Before(i), unset) \in States
    BY <2>3
  <2>5. Plain(w) /\ w.pointer = fdt[k].wptr /\ w.length = length
    BY <2>2, <2>3, FwritePlain
  <2> HIDE DEF w, i
  <2>6. Written(w, Before(i), unset).unread = TRUE
    <3>1. Written(w, Before(i), unset).unread \in BOOLEAN
      BY <2>4 DEF States
    <3>2. stray' = (\/ stray
                    \/ /\ Written(w, Before(i), unset).unread
                       /\ ~(w.isfirst /\ unset = Clean))
      BY <2>4
    <3>3. Written(w, Before(i), unset).unread # FALSE
      BY <1>1, <3>2, Zenon
    <3>4. QED BY <3>1, <3>3
  <2>7. \/ w.first < Direct /\ Direct <= w.last
        \/ NumBlocks <= table[i].indirectptr
    BY <2>2, <2>3, <2>5, <2>6, WrittenUnread
  <2>8. w.first < Direct /\ Direct <= w.last => Crosses(k, length)
    BY <2>5 DEF Plain, Crosses
  <2>9. NumBlocks <= table[i].indirectptr => table[i].indirectptr >= NumBlocks
    <3>1. table[i].indirectptr \in Nat
      BY <2>2, <2>3 DEF Typed, InodeRecords
    <3>2. QED BY <3>1
  <2>10. QED BY <2>1, <2>7, <2>8, <2>9 DEF i
<1> HIDE DEF Crossing
<1>2. Intact /\ [FileCall]_vars => [~stray /\ stray' => Crossing]_vars
  BY <1>1
<1>3. QED BY <1>2, IntactCorrect, PTL DEF DataSpec, StrayByCrossing, Crossing

=============================================================================
