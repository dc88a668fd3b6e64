------------------------------- MODULE MCHeap -------------------------------
(* The clients of Heap are interchangeable.                                *)
EXTENDS Heap, TLC

ClientSymmetry == Permutations(Client)
=============================================================================
