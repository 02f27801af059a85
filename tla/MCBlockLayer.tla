---------------------------- MODULE MCBlockLayer ----------------------------
(* The block layer of the file system: bitmap.c gives out block numbers,   *)
(* disk_emu.c holds the blocks, and one sequential program calls both in   *)
(* any order.  A bitmap of three bytes of two bits counts more blocks than *)
(* the disk has, as in the code.                                           *)
EXTENDS FreeBitmap, DiskEmu

BlockLayerInit == Init /\ DiskInit
BitmapCall     == step = "idle" /\ Next /\ UNCHANGED diskvars
DiskStep       == DiskNext /\ UNCHANGED vars

BlockLayerSpec ==
  BlockLayerInit /\ [][BitmapCall \/ DiskStep]_<<vars, diskvars>>
=============================================================================
