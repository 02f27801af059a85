------------------------------- MODULE MCSfs -------------------------------
(* A disk of a few blocks of three cells, three inodes and two file names, *)
(* which are only compared with each other.                                *)
EXTENDS Sfs

NameSymmetry == Permutations(Names)

\* The stack as the repository's build leaves it, and as a call that has not
\* used it does.
LeftOnly    == {Left}
LeftOrClean == {Left, 0}
=============================================================================
