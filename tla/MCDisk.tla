------------------------------- MODULE MCDisk -------------------------------
(* Sectors, and what they hold, are interchangeable.                       *)
EXTENDS Disk, TLC

DiskSymmetry == Permutations(Sector) \cup Permutations(Data)
=============================================================================
