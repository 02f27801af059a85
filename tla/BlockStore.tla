----------------------------- MODULE BlockStore -----------------------------
(***************************************************************************)
(* What the file system expects of its disk: every block keeps what was    *)
(* last put there, whoever opens the disk and whenever a program that uses *)
(* it is killed.  Only a disk that nobody has used since it was created    *)
(* may lose its end.                                                       *)
(***************************************************************************)
EXTENDS Integers

CONSTANTS Blocks,        \* the numbers of the blocks
          Data,          \* what a block can hold
          Zero, Lost     \* a block of a new disk; one that is not there

VARIABLES store, fresh,  \* the blocks; nobody has used the disk yet
          answer         \* what the last step, if Get, has read, by block

Nothing == [b \in {} |-> Zero]

Init == /\ store = [b \in Blocks |-> Lost] /\ fresh = FALSE
        /\ answer = Nothing

Create == /\ store' = [b \in Blocks |-> Zero] /\ fresh' = TRUE
          /\ answer' = Nothing

LoseEnd == /\ fresh /\ fresh' = FALSE
           /\ \E end \in Blocks :
                store' = [b \in Blocks |-> IF b < end THEN store[b] ELSE Lost]
           /\ answer' = Nothing

Use == /\ fresh' = FALSE /\ answer' = Nothing
       /\ UNCHANGED store

Put(b, d) == /\ ~fresh
             /\ store' = [store EXCEPT ![b] = d]
             /\ answer' = Nothing
             /\ UNCHANGED fresh

Get == /\ ~fresh
       /\ DOMAIN answer' \subseteq Blocks
       /\ \A b \in DOMAIN answer' :
            /\ answer'[b] \in Data
            /\ store[b] # Lost => answer'[b] = store[b]
       /\ UNCHANGED <<store, fresh>>

Next == \/ Create \/ LoseEnd \/ Use \/ Get
        \/ \E b \in Blocks, d \in Data : Put(b, d)

Spec == Init /\ [][Next]_<<store, fresh, answer>>
=============================================================================
