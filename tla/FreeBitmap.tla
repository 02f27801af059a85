----------------------------- MODULE FreeBitmap -----------------------------
(***************************************************************************)
(* The free bitmap of "file system/filesystem/bitmap.c": an array of bytes *)
(* whose bits, lowest first, say which blocks are free.  A byte is the     *)
(* function of its bits.                                                   *)
(***************************************************************************)
EXTENDS Integers

CONSTANTS
  Size,     \* SIZE, the number of bytes: 1024 / 8
  Width     \* the bits of a byte: 8

ASSUME SizeAssumption == Size \in Nat \ {0} /\ Width \in Nat \ {0}

VARIABLES
  free_bit_map,
  last,         \* observed: the last call, with its index
  overrun       \* get_index() has left the array: followed no further

vars == <<free_bit_map, last, overrun>>

Sections == 0 .. Size - 1
Bits     == 0 .. Width - 1
Indices  == 0 .. Size * Width - 1

\* A bit is 1 when its block is free.
Init == /\ free_bit_map = [i \in Sections |-> [bit \in Bits |-> 1]]
        /\ last = <<"none", 0>>
        /\ overrun = FALSE

(* The macros FREE_BIT and USE_BIT.                                        *)
FreeBit(i, bit) == free_bit_map' = [free_bit_map EXCEPT ![i][bit] = 1]
UseBit(i, bit)  == free_bit_map' = [free_bit_map EXCEPT ![i][bit] = 0]

AllUsed(i) == \A bit \in Bits : free_bit_map[i][bit] = 0

\* ffs(): the lowest bit that is set.
IsFirstSet(i, bit) == /\ free_bit_map[i][bit] = 1
                      /\ \A b \in Bits : b < bit => free_bit_map[i][b] = 0

\* Bits counted from 1, as ffs() does.
get_index_from_one ==
  /\ ~overrun
  /\ \E i \in Sections, bit \in Bits :
       /\ \A j \in Sections : j < i => AllUsed(j)
       /\ ~AllUsed(i)
       /\ IsFirstSet(i, bit)
       /\ UseBit(i, bit)
       /\ last' = <<"get_index", i * Width + bit + 1>>
  /\ UNCHANGED overrun

(* get_index(): the loop passes the bytes that are 0.                      *)
get_index ==
  /\ ~overrun
  /\ \E i \in Sections, bit \in Bits :
       /\ \A j \in Sections : j < i => AllUsed(j)
       /\ ~AllUsed(i)
       /\ IsFirstSet(i, bit)
       /\ UseBit(i, bit)
       /\ last' = <<"get_index", i * Width + bit>>
  /\ UNCHANGED overrun

(* "Let's ignore overflow for now": the loop reads on behind the array.    *)
GetIndexOverflow ==
  /\ ~overrun
  /\ \A i \in Sections : AllUsed(i)
  /\ overrun' = TRUE
  /\ UNCHANGED <<free_bit_map, last>>

\* The index of a byte and that of a bit are mixed up.
rm_index_swapped(n) == /\ ~overrun
                       /\ FreeBit(n % Width, n \div Width)
                       /\ last' = <<"rm_index", n>>
                       /\ UNCHANGED overrun

rm_index(n) == /\ ~overrun
               /\ FreeBit(n \div Width, n % Width)
               /\ last' = <<"rm_index", n>>
               /\ UNCHANGED overrun

force_set_index(n) == /\ ~overrun
                      /\ UseBit(n \div Width, n % Width)
                      /\ last' = <<"force_set_index", n>>
                      /\ UNCHANGED overrun

Next == \/ get_index \/ GetIndexOverflow
        \/ \E n \in Indices : rm_index(n) \/ force_set_index(n)

Spec == Init /\ [][Next]_vars

-----------------------------------------------------------------------------
(* Properties.                                                             *)

FreeBlocks == {n \in Indices : free_bit_map[n \div Width][n % Width] = 1}

(* Every byte keeps its bits and every index is one of the bitmap.         *)
TypeOK == /\ free_bit_map \in [Sections -> [Bits -> {0, 1}]]
          /\ last[2] \in Indices
          /\ overrun \in BOOLEAN

Allocator == INSTANCE BlockSet WITH Blocks <- Indices, free <- FreeBlocks

(* The bytes implement the set of free blocks: get_index() gives out the   *)
(* lowest free block of all, across bytes, as test.c asks for, marks just  *)
(* this one, and rm_index() and force_set_index() mark just theirs.        *)
RefinesBlockSet == Allocator!Spec
=============================================================================
