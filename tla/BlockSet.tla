------------------------------ MODULE BlockSet ------------------------------
(***************************************************************************)
(* What the file system expects of its bitmap: a set of free blocks that   *)
(* gives out the lowest one and takes any block back.                      *)
(***************************************************************************)
EXTENDS Integers

CONSTANT Blocks          \* the numbers of the blocks

VARIABLES free, last     \* the free blocks; the last call with its block

Init == free = Blocks /\ last = <<"none", 0>>

Get == \E b \in free : /\ \A c \in free : b <= c
                       /\ free' = free \ {b}
                       /\ last' = <<"get_index", b>>

GiveBack(b) == free' = free \union {b} /\ last' = <<"rm_index", b>>

Take(b) == free' = free \ {b} /\ last' = <<"force_set_index", b>>

Next == Get \/ \E b \in Blocks : GiveBack(b) \/ Take(b)

Spec == Init /\ [][Next]_<<free, last>>
=============================================================================
