----------------------------- MODULE MCSensorTail -----------------------------
(* Small instances of SensorTail.  Inode numbers are interchangeable: nothing *)
(* compares them but for equality, so safety runs may take them as a          *)
(* symmetry set.                                                              *)
EXTENDS SensorTail, TLC

InodeSymmetry == Permutations(Inodes)
==============================================================================
