---------------------------- MODULE MCFileSystem ----------------------------
(***************************************************************************)
(* Names for the checks of FileSystem: two spellings of one name, and two  *)
(* other names, all of at most 31 characters, as BASIC passes them.        *)
(***************************************************************************)
EXTENDS FileSystem, TLC

Names == {"prog", "PROG", "data", "temp"}
Folded == [n \in Names |-> IF n = "prog" THEN "PROG" ELSE n]
VersionSymmetry == Permutations(Version)
Plain == {"prog", "data", "temp"}
Whole == [n \in Names |-> n]
=============================================================================
