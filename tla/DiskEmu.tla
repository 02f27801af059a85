------------------------------ MODULE DiskEmu ------------------------------
(***************************************************************************)
(* The emulated disk of "file system/filesystem/disk_emu.c": a file that   *)
(* is used through a stdio stream with a buffer of its own, by a program   *)
(* that may be killed between any two steps and started again.  The file   *)
(* outlives the program, the buffer does not.                              *)
(***************************************************************************)
EXTENDS Integers, Sequences

CONSTANTS
  MaxBlock,        \* MAX_BLOCK, 512
  Data,            \* what a block can hold
  Zero, Absent,    \* the block init_fresh_disk() writes; no block
  Starts, Counts   \* the start addresses and numbers of blocks of the calls

ASSUME DiskAssumption ==
  /\ MaxBlock \in Nat \ {0}
  /\ Zero \in Data /\ Absent \notin Data
  /\ Starts \subseteq Nat /\ Counts \subseteq Nat \ {0}

VARIABLES
  file, created,   \* the blocks of the disk file; whether it exists
  fp, buffer,      \* the stream; what only its buffer holds
  step, at, todo,  \* inside init_fresh_disk() or write_blocks()
  answer           \* what the last call, if read_blocks(), has read

callvars == <<step, at, todo>>
diskvars == <<file, created, fp, buffer, callvars, answer>>

Addresses == 0 .. MaxBlock - 1
Nothing   == [b \in {} |-> Zero]

DiskInit == /\ file = [b \in Addresses |-> Absent] /\ created = FALSE
            /\ fp = "none" /\ buffer = Nothing
            /\ step = "idle" /\ at = 0 /\ todo = << >>
            /\ answer = Nothing

(* The stream of an earlier call is not closed.  The zeros go through the  *)
(* buffer; its last part stays there.                                      *)
InitFreshDisk ==
  /\ step = "idle"
  /\ \E end \in Addresses :
       /\ file' = [b \in Addresses |-> IF b < end THEN Zero ELSE Absent]
       /\ buffer' = [b \in end .. MaxBlock - 1 |-> Zero]
  /\ created' = TRUE /\ fp' = "open" /\ step' = "fresh"
  /\ answer' = Nothing
  /\ UNCHANGED <<at, todo>>

(* fopen(filename, "r+b") fails without a file; mksfs() does not look at   *)
(* the -1 and its first read_blocks() ends the program.                    *)
InitDisk ==
  /\ step = "idle"
  /\ fp' = IF created THEN "open" ELSE "none"
  /\ buffer' = Nothing /\ answer' = Nothing
  /\ UNCHANGED <<file, created, callvars>>

CloseDisk ==
  /\ step = "idle" /\ fp = "open"
  /\ fp' = "closed" /\ answer' = Nothing
  /\ UNCHANGED <<file, created, buffer, callvars>>

\* The number of blocks is left out.
InRangeFirst(start, n) == start < MaxBlock
InRange(start, n)      == start + n <= MaxBlock

(* fread() leaves the temporary block as malloc() gave it where the file   *)
(* has ended.                                                              *)
ReadBlocks(start, n) ==
  /\ step = "idle" /\ fp = "open"
  /\ IF InRange(start, n)
     THEN answer' \in {f \in [start .. start + n - 1 -> Data] :
                         \A b \in DOMAIN f : file[b] # Absent => f[b] = file[b]}
     ELSE answer' = Nothing
  /\ UNCHANGED <<file, created, fp, buffer, callvars>>

(* write_blocks() up to its loop.  fseek() writes what the buffer holds.   *)
\* mksfs() writes the superblock right after init_fresh_disk().
Flushed == [b \in DOMAIN file \union DOMAIN buffer |->
              IF b \in DOMAIN buffer THEN buffer[b] ELSE file[b]]

WriteBlocks(start, data) ==
  /\ step \in {"idle", "fresh"} /\ fp = "open"
  /\ InRange(start, Len(data))
  /\ file' = Flushed /\ buffer' = Nothing
  /\ step' = "write" /\ at' = start /\ todo' = data
  /\ answer' = Nothing
  /\ UNCHANGED <<created, fp>>

WriteBlocksRefused(start, data) ==
  /\ step = "idle" /\ fp = "open"
  /\ ~InRange(start, Len(data))
  /\ answer' = Nothing
  /\ UNCHANGED <<file, created, fp, buffer, callvars>>

(* The loop ends with its last block.                                      *)
EndOfRound == /\ todo' = Tail(todo)
              /\ at' = IF todo' = << >> THEN 0 ELSE at + 1
              /\ step' = IF todo' = << >> THEN "idle" ELSE "write"

\* Without fflush() the block stays in the buffer.
WriteBlockBuffered ==
  /\ step = "write"
  /\ file' = Flushed
  /\ buffer' = [b \in {at} |-> Head(todo)]
  /\ EndOfRound
  /\ answer' = Nothing
  /\ UNCHANGED <<created, fp>>

(* One round of the loop: fwrite() and fflush().                           *)
WriteBlock ==
  /\ step = "write"
  /\ file' = [b \in DOMAIN file \union {at} |->
                IF b = at THEN Head(todo) ELSE file[b]]
  /\ buffer' = Nothing
  /\ EndOfRound
  /\ answer' = Nothing
  /\ UNCHANGED <<created, fp>>

(* The program is killed, between calls or inside one, or it ends; the     *)
(* next step is that of another one.                                       *)
Kill ==
  /\ fp' = "none" /\ buffer' = Nothing
  /\ step' = "idle" /\ at' = 0 /\ todo' = << >>
  /\ answer' = Nothing
  /\ UNCHANGED <<file, created>>

DiskNext ==
  \/ InitFreshDisk \/ InitDisk \/ CloseDisk \/ WriteBlock \/ Kill
  \/ \E start \in Starts, n \in Counts :
       \/ ReadBlocks(start, n)
       \/ \E data \in [1 .. n -> Data] :
            WriteBlocks(start, data) \/ WriteBlocksRefused(start, data)

DiskSpec == DiskInit /\ [][DiskNext]_diskvars

-----------------------------------------------------------------------------
(* Properties.                                                             *)

(* The file never has a block behind MAX_BLOCK, and every block of it and  *)
(* of the buffer has contents; a write stays on the disk to its end.       *)
DiskTypeOK ==
  /\ file \in [Addresses -> Data \union {Absent}]
  /\ DOMAIN buffer \subseteq Addresses
  /\ \A b \in DOMAIN buffer : buffer[b] \in Data
  /\ created \in BOOLEAN /\ fp \in {"none", "open", "closed"}
  /\ step \in {"idle", "fresh", "write"}
  /\ at \in Nat /\ todo \in Seq(Data)
  /\ step = "write" => todo # << >> /\ at + Len(todo) <= MaxBlock

Seen  == [b \in Addresses |-> IF b \in DOMAIN buffer THEN buffer[b] ELSE file[b]]
Store == INSTANCE BlockStore WITH
           Blocks <- Addresses, Lost <- Absent, store <- Seen,
           fresh <- step = "fresh"

(* What read_blocks() returns is what the last finished round of a write   *)
(* put there, also after the disk was opened a second time and after the   *)
(* program was killed in the middle of a write: nothing that write_blocks() *)
(* has returned for is in a buffer only.                                   *)
RefinesBlockStore == Store!Spec
=============================================================================
