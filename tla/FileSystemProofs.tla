-------------------------- MODULE FileSystemProofs --------------------------
(***************************************************************************)
(* Proofs about the file system, for every disk, directory, set of names   *)
(* and contents, and whether or not the disk may fail: its types, that no  *)
(* two files share a sector, that a call on one file leaves the others     *)
(* alone, and that the sectors keep the promise of module FileStore while  *)
(* the disk does not fail.                                                 *)
(***************************************************************************)
EXTENDS FileSystem, Integers, FiniteSetTheorems, WellFoundedInduction, TLAPS

----------------------------------------------------------------------------
(* Finite sets of numbers: find_entry_by_name takes the first of a set of  *)
(* entries, find_free_sector the last of a set of sectors.                 *)

(* Every set of natural numbers has a least element.                       *)
LEMMA LeastNumber ==
  ASSUME NEW S \in SUBSET Nat, S # {}
  PROVE  \E m \in S : \A o \in S : m <= o
<1> DEFINE Down(x) == {y \in S : y <= x}
           Downs == {Down(x) : x \in S}
           R == StrictSubsetOrdering(Nat)
<1>1. \A x \in S : Down(x) \in FiniteSubsetsOf(Nat)
  <2> SUFFICES ASSUME NEW x \in S PROVE Down(x) \in FiniteSubsetsOf(Nat)
    OBVIOUS
  <2>1. x \in Nat /\ Down(x) \in SUBSET Nat /\ \A y \in Down(x) : y <= x
    OBVIOUS
  <2> HIDE DEF Down
  <2>2. IsFiniteSet(Down(x))
    BY <2>1, FS_BoundedSetOfNaturals
  <2> QED
    BY <2>1, <2>2 DEF FiniteSubsetsOf
<1>2. Downs \subseteq FiniteSubsetsOf(Nat) /\ Downs # {}
  <2> HIDE DEF Down
  <2> QED
    BY <1>1
<1>3. \E D \in Downs : \A E \in Downs : ~ <<E, D>> \in R
  <2> HIDE DEF Downs, R
  <2>1. IsWellFoundedOn(StrictSubsetOrdering(Nat), FiniteSubsetsOf(Nat))
    BY FS_StrictSubsetOrderingWellFounded
  <2> QED
    BY <1>2, <2>1, WFMin DEF R
<1>4. PICK m \in S : \A o \in S : ~ <<Down(o), Down(m)>> \in R
  <2> HIDE DEF Down, R
  <2> QED
    BY <1>3
<1>5. ASSUME NEW o \in S, o < m
      PROVE  FALSE
  <2>0. o \in Nat /\ m \in Nat /\ o < m
    BY <1>5
  <2>1. Down(o) \subseteq Down(m) /\ m \in Down(m) /\ m \notin Down(o)
    <3>1. \A y \in S : y \in Nat
      OBVIOUS
    <3>2. \A y \in S : y <= o => y <= m
      BY <2>0, <3>1
    <3>3. m <= m /\ ~(m <= o)
      BY <2>0
    <3> QED
      BY <3>2, <3>3
  <2>2. Down(o) \in SUBSET Nat /\ Down(m) \in SUBSET Nat
    OBVIOUS
  <2> HIDE DEF Down
  <2>3. <<Down(o), Down(m)>> \in StrictSubsetOrdering(Nat)
    BY <2>1, <2>2 DEF StrictSubsetOrdering
  <2> QED
    BY <1>4, <2>3
<1> QED
  BY <1>4, <1>5

(* A bounded set of natural numbers has a greatest element.               *)
LEMMA GreatestNumber ==
  ASSUME NEW S \in SUBSET Nat, S # {}, NEW b \in Nat, \A o \in S : o <= b
  PROVE  \E m \in S : \A o \in S : o <= m
<1> DEFINE Below == {b - o : o \in S}
<1>1. Below \in SUBSET Nat /\ Below # {}
  OBVIOUS
<1>2. PICK l \in Below : \A o \in Below : l <= o
  <2> HIDE DEF Below
  <2> QED
    BY <1>1, LeastNumber
<1>3. PICK m \in S : l = b - m
  BY <1>2
<1>4. ASSUME NEW o \in S
      PROVE  o <= m
  <2>1. b - m <= b - o
    BY <1>2, <1>3
  <2> QED
    BY <2>1
<1> QED
  BY <1>4

----------------------------------------------------------------------------
(* The invariant.                                                          *)

Slot == 0 .. FS_MAX_FILES - 1
DirEntry == [name : Name \cup {NoName}, start : Nat, size : Length \cup {0}]
Part == (Version \X Nat) \cup {NoData}
Job ==
  [op : {"save"}, name : Name, body : Body]
    \cup [op : {"delete"}, name : Name] \cup [op : {"format"}]

Types ==
  /\ header \in [magic : BOOLEAN, count : 0 .. FS_MAX_FILES]
  /\ dir \in [Slot -> DirEntry]
  /\ data \in [DataSector -> Part]
  /\ pc \in Pc
  /\ job \in Job \cup {NoJob}
  /\ pc = "idle" <=> job = NoJob
  /\ i \in 0 .. FS_MAX_FILES /\ j \in Nat /\ start \in Nat

(* The entries that count hold stored names and lie in the data area, and  *)
(* any two are one behind the other, or equal: one not yet moved down.     *)
EntriesOK ==
  /\ \A e \in Entries :
       /\ dir[e].name \in {Stored[n] : n \in Name}
       /\ FS_DATA_START <= dir[e].start
       /\ EndOf(e) <= TotalSectors
  /\ \A d, e \in Entries :
       dir[d] = dir[e] \/ EndOf(d) <= dir[e].start \/ EndOf(e) <= dir[d].start

(* Which call is at which step.                                            *)
CallOK ==
  /\ pc \in {"search", "shift", "count"} => job.op \in {"save", "delete"}
  /\ pc \in {"place", "data", "entry", "header"} => job.op = "save"
  /\ pc \in {"format", "blank"} => job.op = "format"
  /\ pc \notin {"idle", "format"} => header.magic
  /\ ~header.magic \/ pc = "blank" => header.count = 0
  /\ pc = "blank" => j < FS_MAX_FILES

(* A removal has found the file, and moved the entries between i and j.    *)
RemoveOK ==
  /\ pc \in {"shift", "count"} =>
       \/ i = j /\ i \in Matches(Fold[job.name])
       \/ i < j /\ dir[j] = dir[j - 1]
  /\ pc = "shift" => j + 1 < header.count
  /\ pc = "count" => j + 1 = header.count

(* A save has a place behind all entries that count, and writes there.     *)
SaveOK ==
  /\ pc \in {"data", "entry", "header"} =>
       /\ header.count < FS_MAX_FILES
       /\ FS_DATA_START <= start
       /\ \A e \in Entries : EndOf(e) <= start
  /\ pc = "data" => j < Sectors(job.body.size) /\ start + j <= TotalSectors
  /\ pc \in {"entry", "header"} => start + Sectors(job.body.size) <= TotalSectors
  /\ pc = "header" => dir[header.count] = Entry(Stored[job.name], start, job.body.size)

DirInv == Types /\ EntriesOK /\ CallOK /\ RemoveOK /\ SaveOK

(* While the disk does not fail there is one entry for each file, but for  *)
(* the copy a removal is about to write over.                              *)
Unique ==
  \A d, e \in Entries :
    d < e /\ Fold[dir[d].name] = Fold[dir[e].name]
      => pc \in {"shift", "count"} /\ i < j /\ e = j

(* A file that a call has removed has no entry until the call ends.        *)
Removed ==
  pc \in {"place", "data", "entry", "header"} \/ (pc \in {"shift", "count"} /\ i < j)
    => Matches(Fold[job.name]) = {}

(* What a save has written so far.                                         *)
Written ==
  pc \in {"data", "entry", "header"} =>
    \A s \in Nat :
      s < (IF pc = "data" THEN j ELSE Sectors(job.body.size))
        => data[start + s] = job.body.parts[s + 1]

StoreInv == Unique /\ Removed /\ Written

----------------------------------------------------------------------------
(* What the operators of the model return.                                 *)

LEMMA Bounds ==
  /\ FS_MAX_FILES \in Nat \ {0} /\ FS_DATA_START \in Nat /\ TotalSectors \in Nat
  /\ FS_DATA_START <= TotalSectors
  /\ Length \subseteq Nat
BY FileSystemAssumption DEF FS_DATA_START

LEMMA SectorsNat ==
  ASSUME NEW size \in Nat
  PROVE  Sectors(size) \in Nat
BY FileSystemAssumption DEF Sectors

LEMMA SectorsOfNothing == Sectors(0) = 0
<1>1. SECTOR_SIZE \in Nat \ {0}
  BY FileSystemAssumption
<1>2. (0 + SECTOR_SIZE - 1) \div SECTOR_SIZE = 0
  BY <1>1
<1> QED
  BY <1>2 DEF Sectors

(* A body that callers save, sector by sector.                             *)
LEMMA BodyShape ==
  ASSUME NEW body \in Body
  PROVE  /\ body.size \in Length
         /\ body = [size |-> body.size, parts |-> body.parts]
         /\ body.parts \in [1 .. Sectors(body.size) -> Part]
<1>1. PICK v \in Version, size \in Length : body = Contents(v, size)
  BY DEF Body
<1>2. body.size = size /\ body.parts = [s \in 1 .. Sectors(size) |-> <<v, s>>]
  BY <1>1 DEF Contents
<1>3. size \in Nat
  BY FileSystemAssumption
<1>4. 1 .. Sectors(size) \subseteq Nat
  BY <1>3, SectorsNat
<1>5. \A s \in 1 .. Sectors(size) : <<v, s>> \in Part
  BY <1>4 DEF Part
<1> QED
  BY <1>1, <1>2, <1>5 DEF Contents

LEMMA FirstLeast ==
  ASSUME NEW S \in SUBSET Nat, S # {}
  PROVE  First(S) \in S /\ \A o \in S : First(S) <= o
<1>1. \E e \in S : \A o \in S : e <= o
  BY LeastNumber
<1> QED
  BY <1>1 DEF First

LEMMA FirstIs ==
  ASSUME NEW S \in SUBSET Nat, NEW e \in S, \A o \in S : e <= o
  PROVE  First(S) = e
<1>1. First(S) \in S /\ First(S) <= e
  BY FirstLeast
<1>2. First(S) \in Nat /\ e \in Nat /\ e <= First(S)
  BY <1>1
<1> QED
  BY <1>1, <1>2

(* The number of an entry that counts is that of a slot.                   *)
LEMMA EntryNumbers ==
  ASSUME Types
  PROVE  /\ header.count \in Nat
         /\ \A e \in Entries : e \in Nat /\ e < header.count /\ e \in Slot
         /\ \A e \in Nat : e < header.count => e \in Entries
BY Bounds DEF Types, Entries, Slot

LEMMA EntryTyped ==
  ASSUME Types, NEW e \in Slot
  PROVE  /\ dir[e] \in DirEntry
         /\ dir[e].start \in Nat /\ dir[e].size \in Nat
         /\ Sectors(dir[e].size) \in Nat
         /\ EndOf(e) \in Nat /\ dir[e].start <= EndOf(e)
<1>1. dir[e] \in DirEntry
  BY DEF Types
<1>2. dir[e].start \in Nat /\ dir[e].size \in Nat
  <2>1. \A x \in DirEntry : x.start \in Nat /\ x.size \in Length \cup {0}
    BY DEF DirEntry
  <2>2. \A l \in Length \cup {0} : l \in Nat
    BY Bounds
  <2> QED
    BY <1>1, <2>1, <2>2
<1>3. Sectors(dir[e].size) \in Nat
  BY <1>2, SectorsNat
<1> QED
  BY <1>1, <1>2, <1>3 DEF EndOf

LEMMA MatchesAreEntries ==
  ASSUME Types, NEW f
  PROVE  Matches(f) \in SUBSET Nat /\ Matches(f) \subseteq Entries
BY EntryNumbers DEF Matches

(* An entry that counts is found by its name.                              *)
LEMMA Found ==
  ASSUME Types, EntriesOK, NEW f, NEW e
  PROVE  e \in Matches(f) <=> e \in Entries /\ Fold[dir[e].name] = f
<1>1. e \in Entries => dir[e].name \in Name
  BY FileSystemAssumption DEF EntriesOK
<1> QED
  BY <1>1, FileSystemAssumption DEF Matches

(* The sector find_free_sector returns lies behind every file.             *)
LEMMA FreeSector ==
  ASSUME Types, EntriesOK
  PROVE  /\ find_free_sector \in Nat
         /\ FS_DATA_START <= find_free_sector
         /\ find_free_sector <= TotalSectors
         /\ \A e \in Entries : EndOf(e) <= find_free_sector
<1> DEFINE ends == {EndOf(e) : e \in Entries} \cup {FS_DATA_START}
<1>1. \A e \in Entries : EndOf(e) \in Nat /\ EndOf(e) <= TotalSectors
  BY EntryNumbers, EntryTyped DEF EntriesOK
<1>2. ends \in SUBSET Nat /\ ends # {} /\ \A s \in ends : s <= TotalSectors
  BY <1>1, Bounds
<1>3. \E m \in ends : \A o \in ends : o <= m
  <2> HIDE DEF ends
  <2> QED
    BY <1>2, Bounds, GreatestNumber
<1>4. find_free_sector = CHOOSE s \in ends : \A o \in ends : o <= s
  BY DEF find_free_sector
<1>5. find_free_sector \in ends /\ \A o \in ends : o <= find_free_sector
  <2> HIDE DEF ends
  <2> QED
    BY <1>3, <1>4
<1>6. \A e \in Entries : EndOf(e) <= find_free_sector
  BY <1>5
<1>7. FS_DATA_START <= find_free_sector
  BY <1>5
<1> QED
  BY <1>2, <1>5, <1>6, <1>7

----------------------------------------------------------------------------
(* Every step keeps the invariant.                                         *)

LEMMA InitInv == Init => DirInv
<1> SUFFICES ASSUME Init PROVE DirInv
  OBVIOUS
<1>1. Types
  <2>1. Blank \in DirEntry
    BY DEF Blank, Entry, DirEntry
  <2> QED
    BY <2>1, Bounds DEF Init, Types, Slot, Part, Pc
<1>2. Entries = {}
  BY DEF Init, Entries
<1> QED
  BY <1>1, <1>2 DEF Init, DirInv, EntriesOK, CallOK, RemoveOK, SaveOK

(* Types and EntriesOK do not depend on the call in progress.              *)
LEMMA SameDisk ==
  ASSUME DirInv, UNCHANGED disk
  PROVE  /\ EntriesOK'
         /\ Entries' = Entries
         /\ \A e : EndOf(e)' = EndOf(e)
         /\ \A f : Matches(f)' = Matches(f)
BY DEF DirInv, disk, EntriesOK, Entries, EndOf, Matches

(* A call that returns leaves no obligations, wherever it stopped.         *)
LEMMA ReturnInv ==
  ASSUME DirInv, NEW r, Return(r), UNCHANGED disk
  PROVE  DirInv'
<1>1. EntriesOK'
  BY SameDisk
<1>2. Types' /\ CallOK'
  BY Bounds DEF DirInv, Types, CallOK, Return, disk, Pc
<1>3. RemoveOK' /\ SaveOK'
  BY DEF Return, RemoveOK, SaveOK
<1> QED
  BY <1>1, <1>2, <1>3 DEF DirInv

LEMMA IdleInv ==
  ASSUME DirInv, UNCHANGED <<disk, pc, job, Locals>>
  PROVE  DirInv'
BY DEF DirInv, Types, EntriesOK, Entries, EndOf, CallOK, RemoveOK, SaveOK, Matches, disk, Locals

LEMMA CallInv ==
  ASSUME DirInv, NEW label, NEW o \in Job, Call(label, o),
         \/ label = "search" /\ header.magic /\ o.op \in {"save", "delete"}
         \/ label = "format" /\ o.op = "format"
  PROVE  DirInv'
<1>1. EntriesOK'
  BY SameDisk DEF Call
<1>2. o # NoJob
  BY DistinctValues DEF Job
<1>3. Types' /\ CallOK'
  BY <1>2 DEF DirInv, Types, CallOK, Call, disk, Locals, Pc
<1>4. RemoveOK' /\ SaveOK'
  BY DEF Call, RemoveOK, SaveOK
<1> QED
  BY <1>1, <1>3, <1>4 DEF DirInv

LEMMA SearchInv ==
  ASSUME DirInv, Search
  PROVE  DirInv'
<1> DEFINE found == Matches(Fold[job.name])
<1>0. Types /\ found \in SUBSET Nat /\ found \subseteq Entries
  BY MatchesAreEntries DEF DirInv
<1>1. CASE found = {} /\ job.op = "delete"
  BY <1>1, ReturnInv DEF Search, Goto
<1>2. CASE found = {} /\ job.op = "save"
  <2>1. pc' = "place" /\ UNCHANGED <<job, i, j, start>> /\ UNCHANGED disk /\ pc = "search"
    BY <1>2 DEF Search, Goto, Locals
  <2>2. EntriesOK'
    BY <2>1, SameDisk
  <2>3. Types' /\ CallOK' /\ RemoveOK' /\ SaveOK'
    BY <2>1, <1>2 DEF DirInv, Types, CallOK, RemoveOK, SaveOK, disk, Pc
  <2> QED
    BY <2>2, <2>3 DEF DirInv
<1>3. CASE found # {}
  <2>1. First(found) \in found
    BY <1>0, <1>3, FirstLeast
  <2>2. /\ i' = First(found) /\ j' = First(found)
        /\ pc' = IF First(found) < header.count - 1 THEN "shift" ELSE "count"
        /\ UNCHANGED <<job, start>> /\ UNCHANGED disk /\ pc = "search"
    BY <1>3 DEF Search, Goto
  <2>3. EntriesOK' /\ Entries' = Entries /\ found' = found
    BY <2>2, SameDisk DEF Matches, disk, Entries
  <2> HIDE DEF found
  <2>4. First(found) \in Nat /\ First(found) < header.count /\ header.count \in 0 .. FS_MAX_FILES
    BY <1>0, <2>1, EntryNumbers DEF Types
  <2>5. Types' /\ CallOK'
    BY <2>2, <2>4, Bounds DEF DirInv, Types, CallOK, disk, Pc
  <2>6. RemoveOK'
    <3>1. (pc = "shift")' => (j + 1 < header.count)'
      BY <2>2, <2>4, Bounds DEF disk
    <3>2. (pc = "count")' => (j + 1 = header.count)'
      BY <2>2, <2>4, Bounds DEF disk
    <3>3. (i = j /\ i \in Matches(Fold[job.name]))'
      BY <2>1, <2>2, <2>3 DEF found
    <3> QED
      BY <3>1, <3>2, <3>3 DEF RemoveOK
  <2>7. SaveOK'
    BY <2>2 DEF SaveOK
  <2> QED
    BY <2>3, <2>5, <2>6, <2>7 DEF DirInv
<1> QED
  BY <1>1, <1>2, <1>3 DEF Search


(* An entry moved down is copied as it is: its name is a stored one.       *)
LEMMA ShiftCopies ==
  ASSUME DirInv, Shift
  PROVE  /\ dir' = [dir EXCEPT ![j] = dir[j + 1]]
         /\ j \in Entries /\ j + 1 \in Entries /\ i <= j
         /\ UNCHANGED <<header, data, job, i, start>> /\ j' = j + 1
         /\ Entries' = Entries
         /\ pc = "shift"
         /\ pc' = IF j + 1 < header.count - 1 THEN "shift" ELSE "count"
<1>1. pc = "shift" /\ j + 1 < header.count /\ i <= j
  BY DEF DirInv, Shift, RemoveOK, Types
<1>2. j \in Entries /\ j + 1 \in Entries /\ j + 1 \in Slot
  BY <1>1, EntryNumbers DEF DirInv, Types
<1>3. dir[j + 1] \in DirEntry /\ dir[j + 1].name \in {Stored[n] : n \in Name}
  BY <1>2, EntryTyped DEF DirInv, EntriesOK
<1>4. Stored[dir[j + 1].name] = dir[j + 1].name
  BY <1>3, FileSystemAssumption
<1>5. Entry(Stored[dir[j + 1].name], dir[j + 1].start, dir[j + 1].size) = dir[j + 1]
  BY <1>3, <1>4 DEF Entry, DirEntry
<1> QED
  BY <1>1, <1>2, <1>5 DEF Shift, Goto, Entries

LEMMA ShiftInv ==
  ASSUME DirInv, Shift
  PROVE  DirInv'
<1>1. /\ dir' = [dir EXCEPT ![j] = dir[j + 1]]
      /\ j \in Entries /\ j + 1 \in Entries /\ i <= j
      /\ UNCHANGED <<header, data, job, i, start>> /\ j' = j + 1
      /\ Entries' = Entries
      /\ pc = "shift"
      /\ pc' = IF j + 1 < header.count - 1 THEN "shift" ELSE "count"
  BY ShiftCopies
<1>2. j \in Slot /\ j + 1 \in Slot /\ j \in Nat /\ j + 1 < header.count /\ header.count \in 0 .. FS_MAX_FILES
  BY <1>1, EntryNumbers DEF DirInv, Types
<1>3. dir' \in [Slot -> DirEntry] /\ dir \in [Slot -> DirEntry]
  BY <1>1, <1>2 DEF DirInv, Types
<1>4. Types'
  BY <1>1, <1>2, <1>3 DEF DirInv, Types, Pc
<1>5. EntriesOK'
  <2>1. \A e \in Entries : \E d \in Entries : dir'[e] = dir[d] /\ EndOf(e)' = EndOf(d)
    <3> TAKE e \in Entries
    <3>1. CASE e = j
      BY <3>1, <1>1, <1>2, <1>3 DEF EndOf
    <3>2. CASE e # j
      BY <3>2, <1>1, <1>3, EntryNumbers DEF EndOf, DirInv
    <3> QED
      BY <3>1, <3>2
  <2> QED
    BY <1>1, <2>1 DEF DirInv, EntriesOK
<1>6. CallOK'
  BY <1>1 DEF DirInv, CallOK
<1>7. RemoveOK'
  <2>1. (i < j /\ dir[j] = dir[j - 1])'
    <3>1. i < j + 1 /\ j + 1 - 1 = j /\ j + 1 # j
      BY <1>1, <1>2 DEF DirInv, Types
    <3>2. dir'[j] = dir[j + 1] /\ dir'[j + 1] = dir[j + 1]
      BY <1>1, <1>2, <1>3, <3>1
    <3>3. j' = j + 1 /\ i' = i /\ j' - 1 = j
      <4>1. j' = j + 1 /\ i' = i
        BY <1>1
      <4> QED
        BY <1>2, <4>1
    <3> QED
      BY <3>1, <3>2, <3>3
  <2>2. (pc = "shift")' => (j + 1 < header.count)'
    BY <1>1, <1>2
  <2>3. (pc = "count")' => (j + 1 = header.count)'
    BY <1>1, <1>2
  <2> QED
    BY <2>1, <2>2, <2>3 DEF RemoveOK
<1>8. SaveOK'
  BY <1>1 DEF SaveOK
<1> QED
  BY <1>4, <1>5, <1>6, <1>7, <1>8 DEF DirInv

(* The entries that count are those that did, but for the last.            *)
LEMMA CountDownDrops ==
  ASSUME DirInv, CountDown
  PROVE  /\ UNCHANGED <<dir, data>>
         /\ header' = [header EXCEPT !.count = header.count - 1]
         /\ header'.count = j /\ header'.magic = header.magic /\ header.count = j + 1
         /\ j \in Entries /\ j \in Nat
         /\ Entries' = Entries \ {j}
         /\ \A e : EndOf(e)' = EndOf(e)
         /\ \A f : Matches(f)' = Matches(f) \ {j}
<1>1. pc = "count" /\ j + 1 = header.count /\ j \in Nat /\ header \in [magic : BOOLEAN, count : 0 .. FS_MAX_FILES]
  BY DEF DirInv, CountDown, RemoveOK, Types
<1>2. header' = [header EXCEPT !.count = header.count - 1] /\ UNCHANGED <<dir, data>>
  BY DEF CountDown
<1>3. header'.count = j /\ header'.magic = header.magic
  BY <1>1, <1>2
<1>4. Entries' = Entries \ {j} /\ j \in Entries
  BY <1>1, <1>3 DEF Entries
<1>5. \A e : EndOf(e)' = EndOf(e)
  BY <1>2 DEF EndOf
<1>6. \A f : Matches(f)' = Matches(f) \ {j}
  BY <1>2, <1>4 DEF Matches
<1> QED
  BY <1>1, <1>2, <1>3, <1>4, <1>5, <1>6

LEMMA CountDownInv ==
  ASSUME DirInv, CountDown
  PROVE  DirInv'
<1>1. /\ UNCHANGED <<dir, data>>
      /\ header' = [header EXCEPT !.count = header.count - 1]
      /\ header'.count = j /\ header'.magic = header.magic /\ header.count = j + 1
      /\ j \in Nat
      /\ Entries' = Entries \ {j}
      /\ \A e : EndOf(e)' = EndOf(e)
  BY CountDownDrops
<1>2. header' \in [magic : BOOLEAN, count : 0 .. FS_MAX_FILES]
  BY <1>1, Bounds DEF DirInv, Types
<1>3. EntriesOK'
  BY <1>1 DEF DirInv, EntriesOK
<1>4. pc = "count" /\ header.magic
  BY DEF DirInv, CallOK, CountDown
<1>5. CASE job.op = "delete" /\ Return("ok")
  <2>1. Types' /\ CallOK'
    BY <1>1, <1>2, <1>4, <1>5, Bounds DEF DirInv, Types, CallOK, Return, Pc
  <2> QED
    BY <2>1, <1>3, <1>5 DEF DirInv, Return, RemoveOK, SaveOK
<1>6. CASE job.op = "save" /\ Goto("place") /\ UNCHANGED Locals
  <2>1. Types' /\ CallOK'
    BY <1>1, <1>2, <1>4, <1>6 DEF DirInv, Types, CallOK, Goto, Locals, Pc
  <2> QED
    BY <2>1, <1>3, <1>6 DEF DirInv, Goto, RemoveOK, SaveOK
<1> QED
  BY <1>5, <1>6 DEF CountDown

(* What a save has in hand.                                                *)
LEMMA SaveJob ==
  ASSUME DirInv, pc \in {"place", "data", "entry", "header"}
  PROVE  /\ job.op = "save" /\ job.name \in Name /\ job.body \in Body /\ job \in Job
         /\ Stored[job.name] \in Name
         /\ job.body.size \in Length /\ job.body.size \in Nat
         /\ job.body.parts \in [1 .. Sectors(job.body.size) -> Part]
         /\ Sectors(job.body.size) \in Nat
<1>1. job.op = "save" /\ job \in Job
  BY DEF DirInv, Types, CallOK
<1>2. job.name \in Name /\ job.body \in Body
  BY <1>1 DEF Job
<1>3. job.body.size \in Length /\ job.body.size \in Nat /\ job.body.parts \in [1 .. Sectors(job.body.size) -> Part]
  BY <1>2, BodyShape, Bounds
<1> QED
  BY <1>1, <1>2, <1>3, SectorsNat, FileSystemAssumption

LEMMA PlaceInv ==
  ASSUME DirInv, Place
  PROVE  DirInv'
<1>1. CASE header.count >= FS_MAX_FILES /\ Return("DIRECTORY FULL")
  BY <1>1, ReturnInv DEF Place
<1>2. CASE /\ header.count < FS_MAX_FILES
           /\ start' = find_free_sector
           /\ j' = 0
           /\ Goto(IF Sectors(job.body.size) > 0 THEN "data" ELSE "entry")
           /\ UNCHANGED i
  <2>1. pc = "place" /\ UNCHANGED disk /\ UNCHANGED job
    BY <1>2 DEF Place, Goto
  <2>2. /\ find_free_sector \in Nat
        /\ FS_DATA_START <= find_free_sector
        /\ find_free_sector <= TotalSectors
        /\ \A e \in Entries : EndOf(e) <= find_free_sector
    BY FreeSector DEF DirInv
  <2>3. Sectors(job.body.size) \in Nat
    BY <2>1, SaveJob
  <2>4. EntriesOK' /\ Entries' = Entries /\ \A e : EndOf(e)' = EndOf(e)
    BY <2>1, SameDisk
  <2>5. pc' = (IF Sectors(job.body.size) > 0 THEN "data" ELSE "entry")
    BY <1>2 DEF Goto
  <2>6. Types' /\ CallOK' /\ RemoveOK'
    BY <1>2, <2>1, <2>2, <2>5 DEF DirInv, Types, CallOK, RemoveOK, disk, Pc
  <2>7. Sectors(job'.body.size) = Sectors(job.body.size) /\ header' = header
    BY <2>1 DEF disk
  <2>8. SaveOK'
    BY <1>2, <2>2, <2>3, <2>4, <2>5, <2>7, Bounds DEF SaveOK
  <2> QED
    BY <2>4, <2>6, <2>8 DEF DirInv
<1> QED
  BY <1>1, <1>2 DEF Place

LEMMA WriteDataInv ==
  ASSUME DirInv, WriteData
  PROVE  DirInv'
<1>1. /\ pc = "data" /\ start + j \in DataSector
      /\ data' = [data EXCEPT ![start + j] = job.body.parts[j + 1]]
      /\ j' = j + 1
      /\ pc' = IF j + 1 < Sectors(job.body.size) THEN "data" ELSE "entry"
      /\ UNCHANGED <<header, dir, i, start, job>>
  BY DEF WriteData, Goto
<1>2. /\ Sectors(job.body.size) \in Nat
      /\ job.body.parts \in [1 .. Sectors(job.body.size) -> Part]
  BY <1>1, SaveJob
<1>3. j < Sectors(job.body.size) /\ j \in Nat /\ start \in Nat
  BY <1>1 DEF DirInv, SaveOK, Types
<1>4. job.body.parts[j + 1] \in Part
  BY <1>2, <1>3
<1>5. data' \in [DataSector -> Part]
  BY <1>1, <1>4 DEF DirInv, Types
<1>6. EntriesOK' /\ Entries' = Entries /\ \A e : EndOf(e)' = EndOf(e)
  BY <1>1 DEF DirInv, EntriesOK, Entries, EndOf
<1>7. Types' /\ CallOK' /\ RemoveOK'
  BY <1>1, <1>3, <1>5 DEF DirInv, Types, CallOK, RemoveOK, Pc
<1>8. start + j < TotalSectors
  BY <1>1, Bounds DEF DataSector
<1>9. SaveOK'
  <2>1. Sectors(job'.body.size) = Sectors(job.body.size)
    BY <1>1
  <2>2. (pc' = "data" => j' < Sectors(job.body.size)) /\ start' + j' <= TotalSectors
    BY <1>1, <1>3, <1>8, Bounds
  <2>3. pc' = "entry" => start' + Sectors(job.body.size) <= TotalSectors
    BY <1>1, <1>2, <1>3, <1>8, Bounds
  <2> QED
    BY <1>1, <1>6, <2>1, <2>2, <2>3 DEF DirInv, SaveOK
<1> QED
  BY <1>6, <1>7, <1>9 DEF DirInv

LEMMA WriteEntryInv ==
  ASSUME DirInv, WriteEntry
  PROVE  DirInv'
<1>1. /\ pc = "entry" /\ pc' = "header"
      /\ dir' = [dir EXCEPT ![header.count] = Entry(Stored[job.name], start, job.body.size)]
      /\ UNCHANGED <<header, data, i, j, start, job>>
  BY DEF WriteEntry, Goto, Locals
<1>2. Stored[job.name] \in Name /\ job.body.size \in Length
  BY <1>1, SaveJob
<1>3. header.count < FS_MAX_FILES /\ header.count \in Slot /\ start \in Nat
  BY <1>1, Bounds DEF DirInv, SaveOK, Types, Slot
<1>4. Entry(Stored[job.name], start, job.body.size) \in DirEntry
  BY <1>2, <1>3 DEF Entry, DirEntry
<1>5. dir' \in [Slot -> DirEntry] /\ dir \in [Slot -> DirEntry]
  BY <1>1, <1>3, <1>4 DEF DirInv, Types
<1>6. Entries' = Entries /\ \A e \in Entries : dir'[e] = dir[e] /\ EndOf(e)' = EndOf(e)
  <2>1. \A e \in Entries : e \in Slot /\ e # header.count
    BY EntryNumbers DEF DirInv
  <2> QED
    BY <1>1, <1>5, <2>1 DEF Entries, EndOf
<1>7. EntriesOK'
  BY <1>6 DEF DirInv, EntriesOK
<1>8. Types' /\ CallOK' /\ RemoveOK'
  BY <1>1, <1>5 DEF DirInv, Types, CallOK, RemoveOK, Pc
<1>9. SaveOK'
  <2>1. dir'[header'.count] = Entry(Stored[job'.name], start', job'.body.size)
    BY <1>1, <1>3, <1>5
  <2> QED
    BY <1>1, <1>6, <2>1 DEF DirInv, SaveOK
<1> QED
  BY <1>7, <1>8, <1>9 DEF DirInv

(* The entries that count are those that did and the new one.              *)
LEMMA CountUpAdds ==
  ASSUME DirInv, CountUp
  PROVE  /\ pc = "header" /\ UNCHANGED <<dir, data>>
         /\ header' = [header EXCEPT !.count = header.count + 1]
         /\ header'.count = header.count + 1 /\ header.count < FS_MAX_FILES
         /\ header'.magic = header.magic
         /\ header.count \in Nat /\ header.count \notin Entries
         /\ Entries' = Entries \cup {header.count}
         /\ \A e : EndOf(e)' = EndOf(e)
         /\ dir[header.count] = Entry(Stored[job.name], start, job.body.size)
<1>1. /\ pc = "header" /\ header.count < FS_MAX_FILES /\ header.count \in Nat
      /\ header \in [magic : BOOLEAN, count : 0 .. FS_MAX_FILES]
      /\ dir[header.count] = Entry(Stored[job.name], start, job.body.size)
  BY DEF DirInv, CountUp, SaveOK, Types
<1>2. header' = [header EXCEPT !.count = header.count + 1] /\ UNCHANGED <<dir, data>>
  BY DEF CountUp
<1>3. header'.count = header.count + 1 /\ header'.magic = header.magic
  BY <1>1, <1>2
<1>4. Entries' = Entries \cup {header.count} /\ header.count \notin Entries
  BY <1>1, <1>3 DEF Entries
<1>5. \A e : EndOf(e)' = EndOf(e)
  BY <1>2 DEF EndOf
<1> QED
  BY <1>1, <1>2, <1>3, <1>4, <1>5

LEMMA CountUpInv ==
  ASSUME DirInv, CountUp
  PROVE  DirInv'
<1> DEFINE new == header.count
<1>1. /\ pc = "header" /\ UNCHANGED <<dir, data>>
      /\ header' = [header EXCEPT !.count = header.count + 1]
      /\ header'.count = header.count + 1 /\ header.count < FS_MAX_FILES
      /\ header'.magic = header.magic
      /\ header.count \in Nat /\ header.count \notin Entries
      /\ Entries' = Entries \cup {new}
      /\ \A e : EndOf(e)' = EndOf(e)
      /\ dir[new] = Entry(Stored[job.name], start, job.body.size)
  BY CountUpAdds
<1>2. header' \in [magic : BOOLEAN, count : 0 .. FS_MAX_FILES]
  BY <1>1, Bounds DEF DirInv, Types
<1>3. Return("ok")
  BY DEF CountUp
<1>4. header.magic
  BY <1>1 DEF DirInv, CallOK
<1>5. Types' /\ CallOK'
  BY <1>1, <1>2, <1>3, <1>4, Bounds DEF DirInv, Types, CallOK, Return, Pc
<1>6. EntriesOK'
  <2>1. /\ dir[new].name = Stored[job.name] /\ job.name \in Name
        /\ dir[new].start = start
        /\ EndOf(new) = start + Sectors(job.body.size)
    BY <1>1, SaveJob DEF Entry, EndOf
  <2>2. /\ FS_DATA_START <= start /\ start + Sectors(job.body.size) <= TotalSectors
        /\ \A e \in Entries : EndOf(e) <= start
    BY <1>1 DEF DirInv, SaveOK
  <2>3. \A e \in Entries' :
          /\ dir[e].name \in {Stored[n] : n \in Name}
          /\ FS_DATA_START <= dir[e].start
          /\ EndOf(e) <= TotalSectors
    BY <1>1, <2>1, <2>2 DEF DirInv, EntriesOK
  <2>4. \A d, e \in Entries' :
          dir[d] = dir[e] \/ EndOf(d) <= dir[e].start \/ EndOf(e) <= dir[d].start
    BY <1>1, <2>1, <2>2 DEF DirInv, EntriesOK
  <2> QED
    BY <1>1, <2>3, <2>4 DEF EntriesOK
<1> QED
  BY <1>3, <1>5, <1>6 DEF DirInv, RemoveOK, SaveOK, Return

LEMMA FormatHeaderInv ==
  ASSUME DirInv, FormatHeader
  PROVE  DirInv'
<1>1. /\ pc = "format" /\ pc' = "blank" /\ header' = [magic |-> TRUE, count |-> 0] /\ j' = 0
      /\ UNCHANGED <<dir, data, i, start, job>>
  BY DEF FormatHeader, Goto
<1>2. Types' /\ CallOK'
  BY <1>1, Bounds DEF DirInv, Types, CallOK, Pc
<1>3. Entries' = {}
  BY <1>1 DEF Entries
<1> QED
  BY <1>1, <1>2, <1>3 DEF DirInv, EntriesOK, RemoveOK, SaveOK

LEMMA FormatEntryInv ==
  ASSUME DirInv, FormatEntry
  PROVE  DirInv'
<1>1. /\ pc = "blank" /\ dir' = [dir EXCEPT ![j] = Blank] /\ UNCHANGED <<header, data>>
      /\ header.magic /\ header.count = 0 /\ j < FS_MAX_FILES
  BY DEF DirInv, FormatEntry, CallOK
<1>2. Blank \in DirEntry
  BY DEF Blank, Entry, DirEntry
<1>3. dir' \in [Slot -> DirEntry]
  BY <1>1, <1>2 DEF DirInv, Types
<1>4. Entries' = {}
  BY <1>1 DEF Entries
<1>5. EntriesOK'
  BY <1>4 DEF EntriesOK
<1>6. CASE Return("ok")
  <2>1. Types' /\ CallOK'
    BY <1>1, <1>3, <1>6, Bounds DEF DirInv, Types, CallOK, Return, Pc
  <2> QED
    BY <2>1, <1>5, <1>6 DEF DirInv, Return, RemoveOK, SaveOK
<1>7. CASE j + 1 < FS_MAX_FILES /\ j' = j + 1 /\ Goto("blank") /\ UNCHANGED <<i, start>>
  <2>1. Types' /\ CallOK'
    BY <1>1, <1>3, <1>7 DEF DirInv, Types, CallOK, Goto, Pc
  <2> QED
    BY <2>1, <1>5, <1>7 DEF DirInv, Goto, RemoveOK, SaveOK
<1> QED
  BY <1>6, <1>7 DEF FormatEntry

LEMMA NextInv ==
  ASSUME DirInv, [Next]_vars
  PROVE  DirInv'
<1>1. ASSUME NEW n \in Name, NEW max \in Buffer, fs_load(n, max)
      PROVE  DirInv'
  BY <1>1, IdleInv DEF fs_load
<1>2. ASSUME NEW n \in Name, NEW body \in Body, fs_save(n, body)
      PROVE  DirInv'
  <2> DEFINE o == [op |-> "save", name |-> n, body |-> body]
  <2>1. o \in Job /\ o.op = "save"
    BY DEF Job
  <2>2. header.magic /\ Call("search", o)
    BY <1>2 DEF fs_save
  <2> HIDE DEF o
  <2> QED
    BY <2>1, <2>2, CallInv
<1>3. ASSUME NEW n \in Name, fs_delete(n)
      PROVE  DirInv'
  <2> DEFINE o == [op |-> "delete", name |-> n]
  <2>1. o \in Job /\ o.op = "delete"
    BY DEF Job
  <2>2. header.magic /\ Call("search", o)
    BY <1>3 DEF fs_delete
  <2> HIDE DEF o
  <2> QED
    BY <2>1, <2>2, CallInv
<1>4. CASE fs_format
  <2> DEFINE o == [op |-> "format"]
  <2>1. o \in Job /\ o.op = "format"
    BY DEF Job
  <2>2. Call("format", o)
    BY <1>4 DEF fs_format
  <2> HIDE DEF o
  <2> QED
    BY <2>1, <2>2, CallInv
<1>5. CASE NotFormatted
  BY <1>5, IdleInv DEF NotFormatted
<1>6. CASE DiskFull \/ Fault
  BY <1>6, ReturnInv DEF DiskFull, Fault
<1>7. CASE UNCHANGED vars
  BY <1>7, IdleInv DEF vars, disk, Locals
<1> QED
  BY <1>1, <1>2, <1>3, <1>4, <1>5, <1>6, <1>7, SearchInv, ShiftInv, CountDownInv, PlaceInv,
     WriteDataInv, WriteEntryInv, CountUpInv, FormatHeaderInv, FormatEntryInv
  DEF Next

(* The invariant holds, whether or not the disk fails.                     *)
THEOREM Invariance == Spec => []DirInv
<1>1. DirInv /\ [Next]_vars => DirInv'
  BY NextInv
<1> QED
  BY InitInv, <1>1, PTL DEF Spec

(* A call is at a step it has, the directory count stays within the        *)
(* directory, and the entries have names, sectors and sizes as fs.rs       *)
(* writes them.                                                            *)
THEOREM TypeCorrect == Spec => []TypeOK
<1>1. DirInv => TypeOK
  <2> SUFFICES ASSUME DirInv PROVE TypeOK
    OBVIOUS
  <2>1. \A e \in 0 .. FS_MAX_FILES - 1 : dir[e] \in DirEntry
    BY DEF DirInv, Types, Slot
  <2>2. \A e \in 0 .. FS_MAX_FILES - 1 :
          dir[e].name \in Name \cup {NoName} /\ dir[e].start \in Nat /\ dir[e].size \in Length \cup {0}
    BY <2>1 DEF DirEntry
  <2> QED
    BY <2>2 DEF DirInv, Types, TypeOK
<1> QED
  BY <1>1, Invariance, PTL

(* No sector belongs to two files, and no file reaches beyond the data     *)
(* area, wherever a save, a removal or a format stopped half way.          *)
THEOREM FilesApart == Spec => []Extents
<1>1. DirInv => Extents
  <2> SUFFICES ASSUME DirInv PROVE Extents
    OBVIOUS
  <2>1. \A e \in Entries : dir[e].start \in Nat /\ EndOf(e) \in Nat
    BY EntryNumbers, EntryTyped DEF DirInv
  <2>2. \A e \in Entries : FS_DATA_START <= dir[e].start /\ EndOf(e) <= TotalSectors
    BY DEF DirInv, EntriesOK
  <2>3. \A e \in Entries : Extent(e) \subseteq DataSector
    BY <2>1, <2>2, Bounds DEF Extent, DataSector
  <2>4. ASSUME NEW d \in Entries, NEW e \in Entries, dir[d] # dir[e]
        PROVE  Extent(d) \cap Extent(e) = {}
    <3>1. EndOf(d) <= dir[e].start \/ EndOf(e) <= dir[d].start
      BY <2>4 DEF DirInv, EntriesOK
    <3> QED
      BY <2>1, <3>1 DEF Extent
  <2> QED
    BY <2>3, <2>4 DEF Extents
<1> QED
  BY <1>1, Invariance, PTL

----------------------------------------------------------------------------
(* What a load finds.  An entry keeps 31 characters of a name, so what     *)
(* follows is about names of at most 31, which is all that BASIC passes:   *)
(* names_match then tells a name from another as it does those stored.     *)

ShortNames == \A n \in Name : Fold[Stored[n]] = Fold[n]

FileAt(e) ==
  [size |-> dir[e].size,
   parts |-> [s \in 1 .. Sectors(dir[e].size) |-> data[dir[e].start + (s - 1)]]]

LEMMA LookupIs ==
  ASSUME NEW f
  PROVE  /\ Matches(f) = {} => Lookup(f) = NoFile
         /\ \A e : Matches(f) # {} /\ e = First(Matches(f)) => Lookup(f) = FileAt(e)
BY DEF Lookup, FileAt

LEMMA LookupIsNext ==
  ASSUME NEW f
  PROVE  /\ Matches(f)' = {} => Lookup(f)' = NoFile
         /\ \A e : Matches(f)' # {} /\ e = First(Matches(f)') => Lookup(f)' = FileAt(e)'
<1>1. Matches(f)' = {} => Lookup(f)' = NoFile
  BY DEF Lookup
<1>2. ASSUME NEW e, Matches(f)' # {}, e = First(Matches(f)')
      PROVE  Lookup(f)' = FileAt(e)'
  <2>1. Lookup(f)' = [size |-> dir'[e].size,
                      parts |-> [s \in 1 .. Sectors(dir'[e].size) |-> data'[dir'[e].start + (s - 1)]]]
    BY <1>2 DEF Lookup
  <2> QED
    BY <2>1 DEF FileAt
<1> QED
  BY <1>1, <1>2

LEMMA FoundNext ==
  ASSUME Types', EntriesOK', NEW f, NEW e
  PROVE  e \in Matches(f)' <=> e \in Entries' /\ Fold[dir'[e].name] = f
<1>1. e \in Entries' => dir'[e].name \in Name
  BY FileSystemAssumption DEF EntriesOK
<1> QED
  BY <1>1, FileSystemAssumption DEF Matches

(* A file whose entry is the same, or whose entry was copied, is the same. *)
LEMMA SameFile ==
  ASSUME NEW d, NEW e, dir'[e] = dir[d], data' = data
  PROVE  FileAt(e)' = FileAt(d)
BY DEF FileAt

LEMMA LookupKept ==
  ASSUME DirInv, NEW f, Matches(f)' = Matches(f),
         \A e \in Matches(f) : FileAt(e)' = FileAt(e)
  PROVE  Lookup(f)' = Lookup(f)
<1>1. Matches(f) # {} => First(Matches(f)) \in Matches(f)
  BY MatchesAreEntries, FirstLeast DEF DirInv
<1> QED
  BY <1>1, LookupIs, LookupIsNext

LEMMA LookupSameDisk ==
  ASSUME UNCHANGED disk, NEW f
  PROVE  Lookup(f)' = Lookup(f)
BY DEF disk, Lookup, Matches, Entries, First

(* While a removal moves entries down, the last one moved is there twice,  *)
(* and a search finds the copy before it.                                  *)
LEMMA CopyBefore ==
  ASSUME DirInv, pc \in {"shift", "count"}, NEW f, j \in Matches(f),
         i < j \/ f # Fold[job.name]
  PROVE  j - 1 \in Matches(f) /\ j - 1 < j
<1>1. i \in Nat /\ j \in Nat
  BY DEF DirInv, Types
<1>2. j \in Entries /\ Fold[dir[j].name] = f
  BY Found DEF DirInv
<1>3. i < j /\ dir[j] = dir[j - 1]
  <2>1. i = j /\ i \in Matches(Fold[job.name]) => f = Fold[job.name]
    BY <1>2, Found DEF DirInv
  <2>2. i = j => ~(i < j)
    BY <1>1
  <2> QED
    BY <2>1, <2>2 DEF DirInv, RemoveOK
<1>4. j - 1 \in Nat /\ j - 1 < header.count
  BY <1>1, <1>2, <1>3, EntryNumbers DEF DirInv
<1>5. j - 1 \in Entries
  BY <1>4, EntryNumbers DEF DirInv
<1> QED
  BY <1>1, <1>2, <1>3, <1>5, Found DEF DirInv

LEMMA ShiftKeeps ==
  ASSUME DirInv, Shift, NEW f, i < j \/ f # Fold[job.name]
  PROVE  Lookup(f)' = Lookup(f)
<1> DEFINE M == Matches(f)
           N == Matches(f)'
<1>1. /\ dir' = [dir EXCEPT ![j] = dir[j + 1]]
      /\ j \in Entries /\ j + 1 \in Entries
      /\ data' = data /\ Entries' = Entries /\ pc = "shift"
  BY ShiftCopies
<1>2. DirInv'
  BY ShiftInv
<1>3. j \in Slot /\ j \in Nat /\ dir \in [Slot -> DirEntry] /\ dir' \in [Slot -> DirEntry]
  BY <1>1, <1>2, EntryNumbers DEF DirInv, Types
<1>4. dir'[j] = dir[j + 1] /\ \A e \in Entries : e # j => dir'[e] = dir[e]
  BY <1>1, <1>3, EntryNumbers DEF DirInv
<1>5. \A e : e \in M <=> e \in Entries /\ Fold[dir[e].name] = f
  BY Found DEF DirInv
<1>6. \A e : e \in N <=> e \in Entries /\ Fold[dir'[e].name] = f
  BY <1>1, <1>2, FoundNext DEF DirInv
<1>7. (j \in N <=> j + 1 \in M) /\ \A e : e # j => (e \in N <=> e \in M)
  BY <1>1, <1>4, <1>5, <1>6
<1>8. j \in M => j - 1 \in M /\ j - 1 < j
  BY <1>1, CopyBefore
<1>9. M \in SUBSET Nat /\ N \in SUBSET Nat
  BY <1>5, <1>6, EntryNumbers DEF DirInv
<1>10. CASE M = {}
  <2>1. N = {}
    BY <1>7, <1>10
  <2> QED
    BY <1>10, <2>1, LookupIs, LookupIsNext
<1>11. CASE M # {}
  <2>1. PICK e \in M : \A o \in M : e <= o
    <3> HIDE DEF M
    <3> QED
      BY <1>9, <1>11, LeastNumber
  <2>2. Lookup(f) = FileAt(e) /\ e \in Nat
    <3>1. First(M) = e
      BY <1>9, <2>1, FirstIs
    <3> QED
      BY <1>9, <1>11, <3>1, LookupIs
  <2>0. PICK k : k = j
    OBVIOUS
  <2> HIDE DEF M, N
  <2>3. e # j
    BY <1>3, <1>8, <2>1, <2>2
  <2>4. CASE e = j + 1
    <3>1. j \in N
      BY <1>7, <2>1, <2>4
    <3>2. ASSUME NEW o \in N PROVE j <= o
      BY <1>3, <1>7, <1>9, <2>1, <2>2, <2>4
    <3>3. First(N) = k
      BY <1>9, <2>0, <3>1, <3>2, FirstIs
    <3>4. FileAt(k)' = FileAt(e)
      BY <1>1, <1>4, <2>0, <2>4, SameFile
    <3> QED
      BY <2>2, <3>1, <3>3, <3>4, LookupIsNext DEF N
  <2>5. CASE e # j + 1
    <3>1. e \in N
      BY <1>7, <2>1, <2>3
    <3>2. ASSUME NEW o \in N PROVE e <= o
      <4>1. CASE o # j
        BY <4>1, <1>7, <2>1
      <4>2. CASE o = j
        <5>1. e <= j + 1
          BY <4>2, <1>7, <2>1
        <5> QED
          BY <4>2, <5>1, <1>3, <2>1, <2>2, <2>3, <2>5
      <4> QED
        BY <4>1, <4>2
    <3>3. First(N) = e
      BY <1>9, <3>1, <3>2, FirstIs
    <3>4. FileAt(e)' = FileAt(e)
      BY <1>1, <1>4, <1>5, <2>1, <2>3, SameFile
    <3> QED
      BY <2>2, <3>1, <3>3, <3>4, LookupIsNext DEF N
  <2> QED
    BY <2>4, <2>5
<1> QED
  BY <1>10, <1>11

LEMMA CountDownKeeps ==
  ASSUME DirInv, CountDown, NEW f, i < j \/ f # Fold[job.name]
  PROVE  Lookup(f)' = Lookup(f)
<1> DEFINE M == Matches(f)
           N == Matches(f)'
<1>1. dir' = dir /\ data' = data /\ j \in Nat /\ N = M \ {j} /\ pc = "count"
  BY CountDownDrops DEF CountDown
<1>2. j \in M => j - 1 \in M /\ j - 1 < j
  BY <1>1, CopyBefore
<1>3. M \in SUBSET Nat /\ N \in SUBSET Nat
  BY <1>1, MatchesAreEntries DEF DirInv
<1>4. CASE M = {}
  BY <1>1, <1>4, LookupIs, LookupIsNext
<1>5. CASE M # {}
  <2>1. PICK e \in M : \A o \in M : e <= o
    <3> HIDE DEF M
    <3> QED
      BY <1>3, <1>5, LeastNumber
  <2>2. Lookup(f) = FileAt(e) /\ e \in Nat
    <3>1. First(M) = e
      BY <1>3, <2>1, FirstIs
    <3> QED
      BY <1>3, <1>5, <3>1, LookupIs
  <2>3. FileAt(e)' = FileAt(e)
    BY <1>1, SameFile
  <2> HIDE DEF M, N
  <2>4. e # j
    BY <1>1, <1>2, <2>1, <2>2
  <2>5. e \in N /\ \A o \in N : e <= o
    BY <1>1, <2>1, <2>4
  <2>6. First(N) = e
    BY <1>3, <2>5, FirstIs
  <2> QED
    BY <2>2, <2>3, <2>5, <2>6, LookupIsNext DEF N
<1> QED
  BY <1>4, <1>5

LEMMA WriteDataKeeps ==
  ASSUME DirInv, WriteData, NEW f
  PROVE  Lookup(f)' = Lookup(f)
<1>1. /\ UNCHANGED <<header, dir>> /\ pc = "data" /\ start + j \in DataSector
      /\ data' = [data EXCEPT ![start + j] = job.body.parts[j + 1]]
  BY DEF WriteData
<1>2. start \in Nat /\ j \in Nat /\ data \in [DataSector -> Part]
  BY DEF DirInv, Types
<1>3. ASSUME NEW e \in Matches(f)
      PROVE  FileAt(e)' = FileAt(e)
  <2>1. e \in Entries /\ e \in Slot
    BY MatchesAreEntries, EntryNumbers DEF DirInv
  <2>2. /\ dir[e].start \in Nat /\ Sectors(dir[e].size) \in Nat
        /\ dir[e].start + Sectors(dir[e].size) <= start
    BY <1>1, <2>1, EntryTyped DEF DirInv, SaveOK, EndOf
  <2>3. \A s \in 1 .. Sectors(dir[e].size) :
          data'[dir[e].start + (s - 1)] = data[dir[e].start + (s - 1)]
    <3> TAKE s \in 1 .. Sectors(dir[e].size)
    <3>1. dir[e].start + (s - 1) < start + j \/ dir[e].start + (s - 1) < start
      BY <1>2, <2>2
    <3>2. dir[e].start + (s - 1) # start + j
      BY <1>2, <2>2, <3>1
    <3> QED
      BY <1>1, <1>2, <3>2
  <2> QED
    BY <1>1, <2>3 DEF FileAt
<1>4. Matches(f)' = Matches(f)
  BY <1>1 DEF Matches, Entries
<1> QED
  BY <1>3, <1>4, LookupKept

LEMMA WriteEntryKeeps ==
  ASSUME DirInv, WriteEntry, NEW f
  PROVE  /\ Matches(f)' = Matches(f) /\ Lookup(f)' = Lookup(f)
         /\ Entries' = Entries /\ \A e \in Entries : dir'[e] = dir[e]
<1>1. /\ UNCHANGED <<header, data>>
      /\ dir' = [dir EXCEPT ![header.count] = Entry(Stored[job.name], start, job.body.size)]
  BY DEF WriteEntry
<1>2. \A e \in Entries : e \in Slot /\ e # header.count
  BY EntryNumbers DEF DirInv
<1>3. \A e \in Entries : dir'[e] = dir[e]
  BY <1>1, <1>2 DEF DirInv, Types
<1>4. Entries' = Entries
  BY <1>1 DEF Entries
<1>5. Matches(f)' = Matches(f)
  BY <1>3, <1>4 DEF Matches
<1>6. \A e \in Matches(f) : FileAt(e)' = FileAt(e)
  BY <1>1, <1>3, SameFile, MatchesAreEntries DEF DirInv
<1> QED
  BY <1>3, <1>4, <1>5, <1>6, LookupKept

(* The new entry is found by the name of the file saved, and no other.     *)
LEMMA CountUpFinds ==
  ASSUME ShortNames, DirInv, CountUp, NEW f
  PROVE  /\ f # Fold[job.name] => Matches(f)' = Matches(f)
         /\ f = Fold[job.name] => Matches(f)' = Matches(f) \cup {header.count}
<1>1. /\ pc = "header" /\ dir' = dir
      /\ Entries' = Entries \cup {header.count} /\ header.count \notin Entries
      /\ dir[header.count] = Entry(Stored[job.name], start, job.body.size)
  BY CountUpAdds
<1>2. DirInv'
  BY CountUpInv
<1>3. Fold[dir[header.count].name] = Fold[job.name]
  BY <1>1, SaveJob DEF Entry, ShortNames
<1>4. \A e : e \in Matches(f) <=> e \in Entries /\ Fold[dir[e].name] = f
  BY Found DEF DirInv
<1>5. \A e : e \in Matches(f)' <=> e \in Entries' /\ Fold[dir[e].name] = f
  BY <1>1, <1>2, FoundNext DEF DirInv
<1>6. \A e : e \in Matches(f)' <=> e \in Matches(f) \/ (e = header.count /\ Fold[job.name] = f)
  BY <1>1, <1>3, <1>4, <1>5
<1> QED
  BY <1>6

LEMMA CountUpKeeps ==
  ASSUME ShortNames, DirInv, CountUp, NEW f, f # Fold[job.name]
  PROVE  Lookup(f)' = Lookup(f)
<1>1. Matches(f)' = Matches(f)
  BY CountUpFinds
<1>2. \A e : FileAt(e)' = FileAt(e)
  BY SameFile, CountUpAdds
<1> QED
  BY <1>1, <1>2, LookupKept

(* A call on one file leaves what a load of any other file returns as it   *)
(* was, at each of its steps, and wherever the disk fails in it.           *)
THEOREM LeavesOthersAlone ==
  ASSUME ShortNames
  PROVE  Spec => OthersUntouched
<1> DEFINE A == \A f \in File :
     (IF pc = "idle" THEN TRUE
      ELSE job.op # "format" /\ Fold[job.name] # f) => Lookup(f)' = Lookup(f)
<1>1. DirInv /\ [Next]_vars => [A]_vars
  <2> SUFFICES ASSUME DirInv, Next PROVE A
    OBVIOUS
  <2>1. CASE UNCHANGED disk
    BY <2>1, LookupSameDisk
  <2>2. ASSUME NEW n \in Name, NEW max \in Buffer, fs_load(n, max)
        PROVE  UNCHANGED disk
    BY <2>2 DEF fs_load
  <2>3. ASSUME NEW n \in Name, NEW body \in Body, fs_save(n, body)
        PROVE  UNCHANGED disk
    BY <2>3 DEF fs_save, Call
  <2>4. ASSUME NEW n \in Name, fs_delete(n)
        PROVE  UNCHANGED disk
    BY <2>4 DEF fs_delete, Call
  <2>5. CASE fs_format \/ NotFormatted \/ Search \/ Place \/ DiskFull \/ Fault
    <3>1. UNCHANGED disk
      BY <2>5 DEF fs_format, Call, NotFormatted, Search, Place, DiskFull, Fault
    <3> QED
      BY <2>1, <3>1
  <2>6. CASE Shift
    BY <2>6, ShiftKeeps DEF Shift
  <2>7. CASE CountDown
    BY <2>7, CountDownKeeps DEF CountDown
  <2>8. CASE WriteData
    BY <2>8, WriteDataKeeps
  <2>9. CASE WriteEntry
    BY <2>9, WriteEntryKeeps
  <2>10. CASE CountUp
    BY <2>10, CountUpKeeps DEF CountUp
  <2>11. CASE FormatHeader \/ FormatEntry
    <3>1. job.op = "format" /\ pc # "idle"
      BY <2>11 DEF DirInv, CallOK, FormatHeader, FormatEntry
    <3> QED
      BY <3>1
  <2> QED
    BY <2>1, <2>2, <2>3, <2>4, <2>5, <2>6, <2>7, <2>8, <2>9, <2>10, <2>11 DEF Next
<1>2. Spec => [][A]_vars
  <2> HIDE DEF A
  <2> QED
    BY Invariance, <1>1, PTL DEF Spec
<1> QED
  BY <1>2 DEF OthersUntouched

----------------------------------------------------------------------------
(* While the disk does not fail.                                           *)

(* The names of two entries that count differ, but for a copy.             *)
LEMMA OneEntry ==
  ASSUME DirInv, Unique, NEW d, NEW e, NEW f,
         d \in Matches(f), e \in Matches(f), d # e,
         ~(pc \in {"shift", "count"} /\ i < j)
  PROVE  FALSE
<1>1. /\ d \in Entries /\ e \in Entries /\ d \in Nat /\ e \in Nat
      /\ Fold[dir[d].name] = Fold[dir[e].name]
  BY Found, EntryNumbers DEF DirInv
<1> QED
  BY <1>1 DEF Unique

LEMMA UniqueSameDisk ==
  ASSUME DirInv, Unique, pc \notin {"shift", "count"}, UNCHANGED disk
  PROVE  Unique'
<1>1. \A d, e \in Entries : ~(d < e /\ Fold[dir[d].name] = Fold[dir[e].name])
  BY DEF Unique
<1> QED
  BY <1>1 DEF Unique, disk, Entries

LEMMA ShiftUnique ==
  ASSUME DirInv, Unique, Removed, Shift
  PROVE  Unique' /\ Matches(Fold[job.name])' = {}
<1> DEFINE F == Fold[job.name]
<1>1. /\ dir' = [dir EXCEPT ![j] = dir[j + 1]]
      /\ j \in Entries /\ j + 1 \in Entries /\ i <= j
      /\ j' = j + 1 /\ i' = i /\ job' = job /\ Entries' = Entries
      /\ pc = "shift" /\ pc' \in {"shift", "count"}
  BY ShiftCopies
<1>2. DirInv'
  BY ShiftInv
<1>3. j \in Nat /\ i \in Nat /\ \A e \in Entries : e \in Nat
  BY EntryNumbers DEF DirInv, Types
<1>4. dir'[j] = dir[j + 1] /\ \A e \in Entries : e # j => dir'[e] = dir[e]
  BY <1>1, EntryNumbers DEF DirInv, Types
<1>5. \A d, e \in Entries :
        d < e /\ Fold[dir[d].name] = Fold[dir[e].name] => i < j /\ e = j
  BY DEF Unique
<1>6. ASSUME NEW d \in Entries, NEW e \in Entries, d < e,
             Fold[dir'[d].name] = Fold[dir'[e].name]
      PROVE  e = j + 1
  <2>1. CASE d = j
    BY <2>1, <1>1, <1>3, <1>4, <1>5, <1>6
  <2>2. CASE e = j
    BY <2>2, <1>1, <1>3, <1>4, <1>5, <1>6
  <2>3. CASE d # j /\ e # j
    BY <2>3, <1>3, <1>4, <1>5, <1>6
  <2> QED
    BY <2>1, <2>2, <2>3
<1>7. Unique'
  <2>1. i' < j' /\ j' = j + 1
    BY <1>1, <1>3
  <2> QED
    BY <1>1, <1>6, <2>1 DEF Unique
<1>8. \A e : e \in Matches(F) <=> e \in Entries /\ Fold[dir[e].name] = F
  BY Found DEF DirInv
<1>9. \A e : e \in Matches(F)' => e \in Entries /\ Fold[dir'[e].name] = F
  BY <1>1, <1>2, FoundNext DEF DirInv
<1>10. \A e \in Entries : e # j => e \notin Matches(F)
  <2>1. CASE i < j
    BY <1>1, <2>1 DEF Removed
  <2>2. CASE i = j
    <3>1. i \in Matches(F)
      BY <1>1, <1>3, <2>2 DEF DirInv, RemoveOK
    <3> QED
      BY <1>1, <1>3, <2>2, <3>1, OneEntry
  <2> QED
    BY <1>1, <1>3, <2>1, <2>2
<1>11. \A e : e \notin Matches(F)'
  BY <1>1, <1>3, <1>4, <1>8, <1>9, <1>10
<1> QED
  BY <1>1, <1>7, <1>11

LEMMA CountDownUnique ==
  ASSUME DirInv, Unique, Removed, CountDown
  PROVE  Unique' /\ Matches(Fold[job.name]) \ {j} = {}
<1>1. /\ dir' = dir /\ Entries' = Entries \ {j} /\ pc = "count"
  BY CountDownDrops DEF CountDown
<1>2. j \in Nat /\ i \in Nat
  BY DEF DirInv, Types
<1>3. Unique'
  BY <1>1 DEF Unique
<1>4. Matches(Fold[job.name]) \ {j} = {}
  <2>1. CASE i < j
    BY <1>1, <2>1 DEF Removed
  <2>2. CASE ~(i < j)
    <3>1. j \in Matches(Fold[job.name])
      BY <1>1, <2>2 DEF DirInv, RemoveOK
    <3> QED
      BY <1>1, <2>2, <3>1, OneEntry
  <2> QED
    BY <2>1, <2>2
<1> QED
  BY <1>3, <1>4

LEMMA CountUpUnique ==
  ASSUME ShortNames, DirInv, Unique, Removed, CountUp
  PROVE  Unique'
<1>1. /\ pc = "header" /\ dir' = dir
      /\ Entries' = Entries \cup {header.count} /\ header.count \notin Entries
      /\ dir[header.count] = Entry(Stored[job.name], start, job.body.size)
  BY CountUpAdds
<1>2. Fold[dir[header.count].name] = Fold[job.name]
  BY <1>1, SaveJob DEF Entry, ShortNames
<1>3. \A e \in Entries : Fold[dir[e].name] # Fold[job.name]
  BY <1>1, Found DEF Removed, DirInv
<1>4. \A d, e \in Entries : ~(d < e /\ Fold[dir[d].name] = Fold[dir[e].name])
  BY <1>1 DEF Unique
<1>5. \A e \in Entries : ~(header.count < header.count)
  BY DEF DirInv, Types
<1>6. header.count \in Nat
  BY DEF DirInv, Types
<1>7. ASSUME NEW d \in Entries', NEW e \in Entries', d < e
      PROVE  Fold[dir[d].name] # Fold[dir[e].name]
  <2>1. d # e
    BY <1>7, <1>1, <1>6, EntryNumbers DEF DirInv
  <2> QED
    BY <1>1, <1>2, <1>3, <1>4, <1>7, <2>1
<1> QED
  BY <1>1, <1>7 DEF Unique

LEMMA WriteDataWritten ==
  ASSUME DirInv, Written, WriteData
  PROVE  Written'
<1>1. /\ pc = "data" /\ start + j \in DataSector
      /\ data' = [data EXCEPT ![start + j] = job.body.parts[j + 1]]
      /\ j' = j + 1
      /\ pc' = IF j + 1 < Sectors(job.body.size) THEN "data" ELSE "entry"
      /\ UNCHANGED <<start, job>>
  BY DEF WriteData, Goto
<1>2. j \in Nat /\ start \in Nat /\ data \in [DataSector -> Part]
  BY DEF DirInv, Types
<1>3. Sectors(job.body.size) \in Nat /\ j < Sectors(job.body.size)
  BY <1>1, SaveJob DEF DirInv, SaveOK
<1>4. ASSUME NEW s \in Nat, s < j + 1
      PROVE  data'[start + s] = job.body.parts[s + 1]
  <2>1. CASE s = j
    BY <2>1, <1>1, <1>2
  <2>2. CASE s # j
    <3>1. s < j /\ start + s # start + j
      BY <2>2, <1>2, <1>4
    <3>2. data[start + s] = job.body.parts[s + 1]
      BY <3>1, <1>1 DEF Written
    <3> QED
      BY <3>1, <3>2, <1>1, <1>2
  <2> QED
    BY <2>1, <2>2
<1>5. pc' # "data" => Sectors(job.body.size) = j + 1
  BY <1>1, <1>2, <1>3
<1> QED
  BY <1>1, <1>4, <1>5 DEF Written

LEMMA InitStoreInv == Init => StoreInv
<1> SUFFICES ASSUME Init PROVE StoreInv
  OBVIOUS
<1>1. Entries = {}
  BY DEF Init, Entries
<1> QED
  BY <1>1 DEF Init, StoreInv, Unique, Removed, Written

(* A step that leaves the disk alone, but for one that moves entries.      *)
LEMMA QuietStoreInv ==
  ASSUME DirInv, DirInv', StoreInv, UNCHANGED disk, pc \notin {"shift", "count"},
         \/ pc' \in {"idle", "search", "format"}
         \/ pc' \in {"shift", "count"} /\ i' = j'
         \/ pc' = "place" /\ Matches(Fold[job'.name]) = {}
  PROVE  StoreInv'
<1>1. Unique'
  BY UniqueSameDisk DEF StoreInv
<1>2. \A f : Matches(f)' = Matches(f)
  BY SameDisk
<1>3. Removed'
  <2>1. pc' = "place" => Matches(Fold[job.name])' = {}
    BY DEF Matches, disk, Entries
  <2>2. j' \in Nat /\ ~(j' < j')
    BY DEF DirInv, Types
  <2>3. pc' \in {"shift", "count"} => ~(i < j)'
    <3> SUFFICES ASSUME pc' \in {"shift", "count"} PROVE ~(i' < j')
      OBVIOUS
    <3>1. i' = j'
      OBVIOUS
    <3> QED
      BY <3>1, <2>2
  <2> QED
    BY <2>1, <2>3 DEF Removed
<1>4. Written'
  BY DEF Written
<1> QED
  BY <1>1, <1>3, <1>4 DEF StoreInv

LEMMA NextStoreInv ==
  ASSUME ShortNames, ~Faults, DirInv, StoreInv, [Next]_vars
  PROVE  StoreInv'
<1>0. DirInv'
  BY NextInv
<1>1. ASSUME NEW n \in Name, NEW max \in Buffer, fs_load(n, max)
      PROVE  StoreInv'
  BY <1>0, <1>1, QuietStoreInv DEF fs_load
<1>2. ASSUME NEW n \in Name, NEW body \in Body, fs_save(n, body)
      PROVE  StoreInv'
  BY <1>0, <1>2, QuietStoreInv DEF fs_save, Call
<1>3. ASSUME NEW n \in Name, fs_delete(n)
      PROVE  StoreInv'
  BY <1>0, <1>3, QuietStoreInv DEF fs_delete, Call
<1>4. CASE fs_format \/ NotFormatted
  BY <1>0, <1>4, QuietStoreInv DEF fs_format, Call, NotFormatted
<1>5. CASE Search
  <2>1. pc = "search" /\ UNCHANGED disk
    BY <1>5 DEF Search
  <2>2. \/ pc' \in {"shift", "count"} /\ i' = j'
        \/ pc' = "place" /\ job' = job /\ Matches(Fold[job.name]) = {}
        \/ pc' = "idle"
    BY <1>5 DEF Search, Goto, Return
  <2> QED
    BY <1>0, <2>1, <2>2, QuietStoreInv
<1>6. CASE Shift
  <2>1. Unique' /\ Matches(Fold[job.name])' = {}
    BY <1>6, ShiftUnique DEF StoreInv
  <2>2. pc' \in {"shift", "count"} /\ job' = job
    BY <1>6, ShiftCopies
  <2>3. Removed'
    BY <2>1, <2>2 DEF Removed, Matches
  <2> QED
    BY <2>1, <2>2, <2>3 DEF StoreInv, Written
<1>7. CASE CountDown
  <2>1. Unique' /\ Matches(Fold[job.name]) \ {j} = {}
    BY <1>7, CountDownUnique DEF StoreInv
  <2>2. job' = job => Matches(Fold[job.name])' = {}
    <3>1. \A f : Matches(f)' = Matches(f) \ {j}
      BY <1>7, CountDownDrops
    <3> QED
      BY <2>1, <3>1
  <2>3. pc' = "idle" \/ (pc' = "place" /\ job' = job)
    BY <1>7 DEF CountDown, Return, Goto
  <2> QED
    BY <2>1, <2>2, <2>3 DEF StoreInv, Removed, Written
<1>8. CASE Place
  <2>1. pc = "place" /\ UNCHANGED disk
    BY <1>8 DEF Place
  <2>2. Unique'
    BY <2>1, UniqueSameDisk DEF StoreInv
  <2>3. CASE Return("DIRECTORY FULL")
    BY <2>2, <2>3 DEF StoreInv, Removed, Written, Return
  <2>4. CASE Goto(IF Sectors(job.body.size) > 0 THEN "data" ELSE "entry") /\ j' = 0
    <3>1. Matches(Fold[job.name]) = {}
      BY <2>1 DEF StoreInv, Removed
    <3>2. Removed'
      BY <2>1, <2>4, <3>1 DEF Removed, Goto, Matches, Entries, disk
    <3>3. Sectors(job.body.size) \in Nat
      BY <2>1, SaveJob
    <3>4. Written'
      BY <2>4, <3>3 DEF Written, Goto
    <3> QED
      BY <2>2, <3>2, <3>4 DEF StoreInv
  <2> QED
    BY <1>8, <2>3, <2>4 DEF Place
<1>9. CASE WriteData
  <2>1. Written'
    BY <1>9, WriteDataWritten DEF StoreInv
  <2>2. UNCHANGED <<header, dir, job>> /\ pc = "data" /\ pc' \in {"data", "entry"}
    BY <1>9 DEF WriteData, Goto
  <2>3. Unique' /\ Removed'
    BY <2>2 DEF StoreInv, Unique, Removed, Matches, Entries
  <2> QED
    BY <2>1, <2>3 DEF StoreInv
<1>10. CASE DiskFull
  BY <1>0, <1>10, QuietStoreInv DEF DiskFull, Return
<1>11. CASE WriteEntry
  <2>1. UNCHANGED <<header, data, job, start>> /\ pc = "entry" /\ pc' = "header"
    BY <1>11 DEF WriteEntry, Goto, Locals
  <2>2. /\ Entries' = Entries
        /\ \A e \in Entries : dir'[e] = dir[e]
        /\ \A f : Matches(f)' = Matches(f)
    BY <1>11, WriteEntryKeeps
  <2>3. Unique'
    BY <2>1, <2>2 DEF StoreInv, Unique
  <2>4. Matches(Fold[job.name])' = {}
    <3>1. Matches(Fold[job.name]) = {}
      BY <2>1 DEF StoreInv, Removed
    <3> QED
      BY <2>1, <2>2, <3>1
  <2>5. Removed'
    BY <2>1, <2>4 DEF Removed
  <2>6. Written'
    BY <2>1 DEF StoreInv, Written
  <2> QED
    BY <2>3, <2>5, <2>6 DEF StoreInv
<1>12. CASE CountUp
  <2>1. Unique'
    BY <1>12, CountUpUnique DEF StoreInv
  <2> QED
    BY <1>12, <2>1 DEF StoreInv, CountUp, Return, Removed, Written
<1>13. CASE FormatHeader \/ FormatEntry
  <2>1. pc' \in {"blank", "idle"}
    BY <1>13 DEF FormatHeader, FormatEntry, Goto, Return
  <2>2. header'.count = 0
    BY <1>13 DEF FormatHeader, FormatEntry, DirInv, CallOK
  <2>3. Entries' = {}
    BY <2>2 DEF Entries
  <2> QED
    BY <2>1, <2>3 DEF StoreInv, Unique, Removed, Written
<1>14. CASE UNCHANGED vars
  BY <1>14 DEF StoreInv, Unique, Removed, Written, Matches, Entries, vars
<1> QED
  BY <1>1, <1>2, <1>3, <1>4, <1>5, <1>6, <1>7, <1>8, <1>9, <1>10, <1>11, <1>12, <1>13, <1>14
  DEF Next, Fault

----------------------------------------------------------------------------
(* The sectors as a map from names to contents.                            *)

LEMMA FileIsContents ==
  ASSUME DirInv, NEW e \in Entries
  PROVE  FileAt(e) # NoFile
<1>1. e \in Slot
  BY EntryNumbers DEF DirInv
<1>2. /\ dir[e].start \in Nat /\ dir[e].size \in Nat /\ Sectors(dir[e].size) \in Nat
      /\ FS_DATA_START <= dir[e].start
      /\ dir[e].start + Sectors(dir[e].size) <= TotalSectors
  BY <1>1, EntryTyped DEF DirInv, EntriesOK, EndOf
<1>3. \A s \in 1 .. Sectors(dir[e].size) : dir[e].start + (s - 1) \in DataSector
  BY <1>2, Bounds DEF DataSector
<1>4. \A s \in 1 .. Sectors(dir[e].size) : data[dir[e].start + (s - 1)] \in Part
  BY <1>3 DEF DirInv, Types
<1>5. FileAt(e).parts \in Seq(Part)
  BY <1>2, <1>4 DEF FileAt
<1>6. FileAt(e) \in [size : Nat, parts : Seq(Part)]
  BY <1>2, <1>5 DEF FileAt
<1> QED
  BY <1>6, DistinctValues DEF Part

(* A file does not exist if it has no entry.                               *)
LEMMA Absent ==
  ASSUME DirInv, NEW f
  PROVE  Lookup(f) = NoFile <=> Matches(f) = {}
<1>1. ASSUME Matches(f) # {} PROVE Lookup(f) # NoFile
  <2>1. First(Matches(f)) \in Entries
    BY <1>1, MatchesAreEntries, FirstLeast DEF DirInv
  <2> QED
    BY <1>1, <2>1, FileIsContents, LookupIs
<1> QED
  BY <1>1, LookupIs

(* FileStore counts as this module does.                                   *)
LEMMA CardinalityThere ==
  ASSUME NEW S
  PROVE  Store!Cardinality(S) = Cardinality(S)
BY DEF Store!Cardinality, Cardinality

(* There are as many files as entries that count.                          *)
LEMMA PresentCount ==
  ASSUME DirInv, Unique, pc \notin {"shift", "count"}
  PROVE  Store!Cardinality(Store!Present) = header.count
<1> DEFINE P == Store!Present
           g == [e \in Entries |-> Fold[dir[e].name]]
<1>1. P = {f \in File : Matches(f) # {}}
  BY Absent DEF Files, Store!Present
<1>2. \A e \in Entries : g[e] \in File /\ e \in Matches(g[e])
  <2> TAKE e \in Entries
  <2>1. dir[e].name \in Name
    BY FileSystemAssumption DEF DirInv, EntriesOK
  <2> QED
    BY <2>1, Found DEF File, DirInv
<1>3. g \in [Entries -> P]
  BY <1>1, <1>2
<1>4. \A d, e \in Entries : g[d] = g[e] => d = e
  BY <1>2, OneEntry
<1>5. \A f \in P : \E e \in Entries : g[e] = f
  <2> TAKE f \in P
  <2>1. PICK e : e \in Matches(f)
    BY <1>1
  <2>2. e \in Entries /\ Fold[dir[e].name] = f
    BY <2>1, Found DEF DirInv
  <2> QED
    BY <2>2
<1>6. g \in Bijection(Entries, P)
  <2> HIDE DEF P
  <2>1. g \in Injection(Entries, P)
    BY <1>3, <1>4 DEF Injection, IsInjective
  <2>2. g \in Surjection(Entries, P)
    BY <1>3, <1>5 DEF Surjection
  <2> QED
    BY <2>1, <2>2 DEF Bijection
<1>7. IsFiniteSet(Entries) /\ Cardinality(Entries) = header.count
  <2>1. header.count \in Nat /\ 0 \in Int /\ header.count - 1 \in Int
    BY DEF DirInv, Types
  <2>2. IsFiniteSet(0 .. header.count - 1)
        /\ Cardinality(0 .. header.count - 1) = IF 0 > header.count - 1 THEN 0 ELSE header.count - 1 - 0 + 1
    BY <2>1, FS_Interval
  <2> QED
    BY <2>1, <2>2 DEF Entries
<1> QED
  <2> HIDE DEF P, g
  <2>1. ExistsBijection(Entries, P)
    BY <1>6 DEF ExistsBijection
  <2>2. Cardinality(P) = Cardinality(Entries)
    BY <1>7, <2>1, FS_Bijection
  <2> QED
    BY <1>7, <2>2, CardinalityThere DEF P

LEMMA NonePresent ==
  ASSUME DirInv, header.count = 0
  PROVE  Store!Present = {}
<1>1. \A f : Matches(f) = {}
  BY DEF Matches, Entries
<1> QED
  BY <1>1, Absent DEF Files, Store!Present

(* The abstract call in progress.                                          *)
LEMMA TheCall ==
  ASSUME DirInv, pc # "idle"
  PROVE  /\ job \in Job /\ CallOn # NoJob
         /\ job.op = "save" => CallOn = [op |-> "save", file |-> Fold[job.name], body |-> job.body]
         /\ job.op = "delete" => CallOn = [op |-> "delete", file |-> Fold[job.name]]
         /\ job.op = "format" => CallOn = [op |-> "format"]
         /\ job.op \in {"save", "delete"} => job.name \in Name /\ Fold[job.name] \in File
<1>1. job \in Job /\ job # NoJob
  BY DEF DirInv, Types
<1>2. job.op \in {"save", "delete"} => job.name \in Name
  BY <1>1 DEF Job
<1>3. job.op = "save" => job.body \in Body
  BY <1>1 DEF Job
<1>4. job.op \in {"save", "delete"} => Fold[job.name] \in File
  BY <1>2 DEF File
<1>5. job.op \in {"save", "delete", "format"}
  BY <1>1 DEF Job
<1>6. CASE job.op = "save"
  <2>1. CallOn = [op |-> "save", file |-> Fold[job.name], body |-> job.body]
    BY <1>1, <1>6 DEF CallOn
  <2>2. CallOn \in [op : {"save"}, file : File, body : Body]
    BY <2>1, <1>3, <1>4, <1>6
  <2> QED
    BY <1>1, <1>2, <1>4, <1>6, <2>1, <2>2, DistinctValues
<1>7. CASE job.op = "delete"
  <2>1. CallOn = [op |-> "delete", file |-> Fold[job.name]]
    BY <1>1, <1>7 DEF CallOn
  <2>2. CallOn \in [op : {"delete"}, file : File]
    BY <2>1, <1>4, <1>7
  <2> QED
    BY <1>1, <1>2, <1>4, <1>7, <2>1, <2>2, DistinctValues
<1>8. CASE job.op = "format"
  <2>1. CallOn = [op |-> "format"]
    BY <1>1, <1>8 DEF CallOn
  <2>2. CallOn \in [op : {"format"}]
    BY <2>1
  <2> QED
    BY <1>1, <1>8, <2>1, <2>2, DistinctValues
<1> QED
  BY <1>5, <1>6, <1>7, <1>8

LEMMA NoCall ==
  ASSUME DirInv, pc = "idle"
  PROVE  CallOn = NoJob /\ Erased = FALSE
BY DEF DirInv, Types, CallOn, Erased

(* After a step that returns, there is no call.                            *)
LEMMA Returned ==
  ASSUME NEW r, Return(r)
  PROVE  CallOn' = NoJob /\ Erased' = FALSE /\ result' = Store!Says(r)
BY DEF Return, CallOn, Erased, Says, Store!Says

LEMMA SameFiles ==
  ASSUME \A f \in File : Lookup(f)' = Lookup(f)
  PROVE  Files' = Files
BY DEF Files

LEMMA SameCall ==
  ASSUME job' = job
  PROVE  CallOn' = CallOn
BY DEF CallOn

----------------------------------------------------------------------------
(* Each step of a call is a step of FileStore, or changes nothing there.   *)

LEMMA InitMaps == Init => Store!Init
<1> SUFFICES ASSUME Init PROVE Store!Init
  OBVIOUS
<1>1. \A f : Matches(f) = {}
  BY DEF Init, Matches, Entries
<1>2. Files = [f \in File |-> NoFile]
  BY <1>1, LookupIs DEF Files
<1> QED
  BY <1>2, NoCall, InitInv DEF Init, Store!Init, Says, Store!Says

LEMMA LoadMaps ==
  ASSUME DirInv, NEW n \in Name, NEW max \in Buffer, fs_load(n, max)
  PROVE  Store!Next
<1> DEFINE f == Fold[n]
<1>1. f \in File
  BY DEF File
<1>2. pc = "idle" /\ UNCHANGED <<disk, pc, job, i, j>>
  BY DEF fs_load, Locals
<1>3. CallOn = NoJob /\ CallOn' = CallOn /\ Erased' = Erased
  BY <1>2, NoCall, SameCall DEF Erased
<1>4. Files' = Files
  BY <1>2, LookupSameDisk, SameFiles
<1>5. Files[f] = Lookup(f)
  BY <1>1 DEF Files
<1>6. result' = IF Files[f] = NoFile THEN Store!Says("FILE NOT FOUND")
                ELSE [said |-> "ok", body |-> Cut(Files[f], max)]
  BY <1>5, Absent DEF fs_load, Says, Store!Says
<1>7. Store!Load(f, max)
  BY <1>3, <1>4, <1>6 DEF Store!Load
<1> QED
  BY <1>1, <1>7 DEF Store!Next

LEMMA CallMaps ==
  ASSUME DirInv, DirInv', NEW label, NEW o \in Job, Call(label, o), label \in {"search", "format"}
  PROVE  Store!Next
<1>1. /\ pc = "idle" /\ pc' = label /\ pc' # "idle" /\ job' = o /\ result' = Says("none")
      /\ UNCHANGED disk
  BY DEF Call
<1>2. CallOn = NoJob /\ Erased = FALSE /\ Erased' = FALSE
  BY <1>1, NoCall DEF Erased
<1>3. Files' = Files
  BY <1>1, LookupSameDisk, SameFiles
<1>4. CallOn' \in Store!Jobs
  <2>1. o # NoJob
    BY DistinctValues DEF Job
  <2>2. CASE o.op = "save"
    <3>1. o.name \in Name /\ o.body \in Body
      BY <2>2 DEF Job
    <3>2. CallOn' = [op |-> "save", file |-> Fold[o.name], body |-> o.body]
      BY <1>1, <2>1, <2>2 DEF CallOn
    <3> QED
      BY <3>1, <3>2 DEF Store!Jobs, File
  <2>3. CASE o.op = "delete"
    <3>1. o.name \in Name
      BY <2>3 DEF Job
    <3>2. CallOn' = [op |-> "delete", file |-> Fold[o.name]]
      BY <1>1, <2>1, <2>3 DEF CallOn
    <3> QED
      BY <3>1, <3>2 DEF Store!Jobs, File
  <2>4. CASE o.op = "format"
    <3>1. CallOn' = [op |-> "format"]
      BY <1>1, <2>1, <2>4 DEF CallOn
    <3> QED
      BY <3>1 DEF Store!Jobs
  <2> QED
    BY <2>2, <2>3, <2>4 DEF Job
<1>5. Store!Begin(CallOn')
  BY <1>1, <1>2, <1>3 DEF Store!Begin, Says, Store!Says
<1>6. \E c \in Store!Jobs : Store!Begin(c)
  <2>1. PICK c : c = CallOn'
    OBVIOUS
  <2>2. Store!Begin(c)
    BY <1>1, <1>2, <1>3, <2>1 DEF Store!Begin, Says, Store!Says
  <2> QED
    BY <1>4, <2>1, <2>2
<1> QED
  BY <1>6 DEF Store!Next

LEMMA NotFormattedMaps ==
  ASSUME DirInv, NotFormatted
  PROVE  Store!Next
<1>1. pc = "idle" /\ ~header.magic /\ UNCHANGED <<disk, pc, job, i, j>>
  BY DEF NotFormatted, Locals
<1>2. CallOn = NoJob /\ CallOn' = CallOn /\ Erased' = Erased
  BY <1>1, NoCall, SameCall DEF Erased
<1>3. Files' = Files
  BY <1>1, LookupSameDisk, SameFiles
<1>4. Store!Present = {}
  BY <1>1, NonePresent DEF DirInv, CallOK
<1>5. Store!NotFormatted
  BY <1>2, <1>3, <1>4 DEF NotFormatted, Store!NotFormatted, Says, Store!Says
<1> QED
  BY <1>5 DEF Store!Next

LEMMA SearchMaps ==
  ASSUME DirInv, Search
  PROVE  [Store!Next]_(Store!vars)
<1> DEFINE f == Fold[job.name]
<1>1. pc = "search" /\ UNCHANGED disk
  BY DEF Search
<1>2. Files' = Files /\ Erased = FALSE
  BY <1>1, LookupSameDisk, SameFiles DEF Erased
<1>3. CASE Matches(f) = {} /\ job.op = "delete" /\ Return("FILE NOT FOUND")
  <2>1. CallOn = [op |-> "delete", file |-> f] /\ CallOn # NoJob /\ f \in File
    BY <1>1, <1>3, TheCall
  <2>2. Files[f] = NoFile
    BY <1>3, <2>1, Absent DEF Files
  <2>3. CallOn' = NoJob /\ Erased' = FALSE /\ result' = Store!Says("FILE NOT FOUND")
    BY <1>3, Returned
  <2>4. Store!NotFound
    BY <1>2, <2>1, <2>2, <2>3 DEF Store!NotFound, Store!Return
  <2> QED
    BY <2>4 DEF Store!Next
<1>4. CASE \/ Goto("place")
           \/ i' = j' /\ Goto(IF First(Matches(f)) < header.count - 1 THEN "shift" ELSE "count")
  <2>1. job' = job /\ result' = result
    BY <1>4 DEF Goto
  <2>2. Erased' = FALSE
    <3>1. pc' = "place" \/ i' = j'
      BY <1>4 DEF Goto
    <3>2. j' \in Nat => ~(j' > j')
      OBVIOUS
    <3>3. j' \in Nat
      BY SearchInv DEF DirInv, Types
    <3>4. i' = j' => ~(j' > i')
      BY <3>2, <3>3
    <3> QED
      BY <3>1, <3>4 DEF Erased
  <2> QED
    BY <1>2, <2>1, <2>2, SameCall DEF Store!vars
<1> QED
  BY <1>3, <1>4 DEF Search

(* What is left of the files when the file of the call is gone.            *)
LEMMA FilesLeft ==
  ASSUME NEW g \in File, Lookup(g)' = NoFile,
         \A f \in File : f # g => Lookup(f)' = Lookup(f)
  PROVE  Files' = [Files EXCEPT ![g] = NoFile]
BY DEF Files

LEMMA ShiftMaps ==
  ASSUME DirInv, Unique, Removed, Shift
  PROVE  [Store!Next]_(Store!vars)
<1>1. /\ i <= j /\ j' = j + 1 /\ i' = i /\ job' = job /\ result' = result
      /\ pc = "shift" /\ pc' \in {"shift", "count"}
      /\ i \in Nat /\ j \in Nat
  BY ShiftCopies DEF DirInv, Types, Shift, Goto
<1>2. CallOn' = CallOn
  BY <1>1, SameCall
<1>3. Erased' = (job.op = "delete") /\ (Erased <=> job.op = "delete" /\ i < j)
  BY <1>1 DEF Erased
<1>4. CASE i < j
  <2>1. Files' = Files
    BY <1>4, ShiftKeeps, SameFiles
  <2>2. Erased' = Erased
    BY <1>3, <1>4 DEF Erased
  <2> QED
    BY <1>1, <1>2, <2>1, <2>2 DEF Store!vars
<1>5. CASE i = j
  <2>0. PICK g : g = Fold[job.name]
    OBVIOUS
  <2>1. job.op \in {"save", "delete"}
    BY <1>1 DEF DirInv, CallOK
  <2>2. CallOn # NoJob /\ CallOn.op = job.op /\ CallOn.file = g /\ g \in File
    BY <1>1, <2>0, <2>1, TheCall
  <2>3. Matches(g) # {}
    BY <1>1, <1>5, <2>0 DEF DirInv, RemoveOK
  <2>4. Files[g] # NoFile
    BY <2>2, <2>3, Absent DEF Files
  <2>5. Matches(g)' = {}
    BY <1>1, <2>0, ShiftUnique DEF Matches
  <2>6. Lookup(g)' = NoFile
    BY <2>5, LookupIsNext
  <2>7. \A f \in File : f # g => Lookup(f)' = Lookup(f)
    BY <2>0, ShiftKeeps
  <2>8. Files' = [Files EXCEPT ![g] = NoFile]
    BY <2>2, <2>6, <2>7, FilesLeft
  <2>9. Store!Erase
    BY <1>1, <1>2, <1>3, <2>1, <2>2, <2>4, <2>8 DEF Store!Erase
  <2> QED
    BY <2>9 DEF Store!Next
<1> QED
  BY <1>1, <1>4, <1>5

LEMMA CountDownMaps ==
  ASSUME DirInv, Unique, Removed, CountDown
  PROVE  [Store!Next]_(Store!vars)
<1>0. PICK g : g = Fold[job.name]
  OBVIOUS
<1>1. pc = "count" /\ i \in Nat /\ j \in Nat /\ job.op \in {"save", "delete"}
  BY DEF DirInv, Types, CallOK, CountDown
<1>2. CallOn # NoJob /\ CallOn.op = job.op /\ CallOn.file = g /\ g \in File
  BY <1>0, <1>1, TheCall
<1>3. Matches(g)' = {}
  BY <1>0, CountDownUnique, CountDownDrops
<1>4. Lookup(g)' = NoFile
  BY <1>3, LookupIsNext
<1>5. \A f \in File : f # g => Lookup(f)' = Lookup(f)
  BY <1>0, CountDownKeeps
<1>6. Files' = [Files EXCEPT ![g] = NoFile]
  BY <1>2, <1>4, <1>5, FilesLeft
<1>7. ~(i < j) => Files[g] # NoFile
  <2> SUFFICES ASSUME ~(i < j) PROVE Files[g] # NoFile
    OBVIOUS
  <2>1. Matches(g) # {}
    BY <1>0, <1>1 DEF DirInv, RemoveOK
  <2> QED
    BY <1>2, <2>1, Absent DEF Files
<1>8. CASE job.op = "delete" /\ Return("ok")
  <2>1. CallOn' = NoJob /\ Erased' = FALSE /\ result' = Store!Says("ok")
    BY <1>8, Returned
  <2>2. Erased <=> i < j
    BY <1>1, <1>8 DEF Erased
  <2>3. Store!Delete
    BY <1>2, <1>6, <1>7, <1>8, <2>1, <2>2 DEF Store!Delete, Store!Return
  <2> QED
    BY <2>3 DEF Store!Next
<1>9. CASE job.op = "save" /\ Goto("place")
  <2>1. CallOn' = CallOn /\ result' = result /\ Erased = FALSE /\ Erased' = FALSE
    BY <1>9, SameCall DEF Goto, Erased
  <2>2. CASE i < j
    <3>1. Files' = Files
      BY <2>2, CountDownKeeps, SameFiles
    <3> QED
      BY <2>1, <3>1 DEF Store!vars
  <2>3. CASE ~(i < j)
    <3>1. Store!Erase
      BY <1>2, <1>6, <1>7, <1>9, <2>1, <2>3 DEF Store!Erase
    <3> QED
      BY <3>1 DEF Store!Next
  <2> QED
    BY <2>2, <2>3
<1> QED
  BY <1>8, <1>9 DEF CountDown

LEMMA PlaceMaps ==
  ASSUME DirInv, StoreInv, Place
  PROVE  [Store!Next]_(Store!vars)
<1> DEFINE g == Fold[job.name]
<1>1. pc = "place" /\ UNCHANGED disk /\ Matches(g) = {} /\ job.op = "save"
  BY DEF Place, StoreInv, Removed, DirInv, CallOK
<1>2. Files' = Files /\ Erased = FALSE
  BY <1>1, LookupSameDisk, SameFiles DEF Erased
<1>3. CASE header.count >= FS_MAX_FILES /\ Return("DIRECTORY FULL")
  <2>1. CallOn = [op |-> "save", file |-> g, body |-> job.body] /\ CallOn # NoJob /\ g \in File
    BY <1>1, TheCall
  <2>2. Files[g] = NoFile
    BY <1>1, <2>1, Absent DEF Files
  <2>3. Store!Cardinality(Store!Present) >= FS_MAX_FILES
    BY <1>1, <1>3, PresentCount DEF StoreInv
  <2>4. CallOn' = NoJob /\ Erased' = FALSE /\ result' = Store!Says("DIRECTORY FULL")
    BY <1>3, Returned
  <2>5. Store!DirectoryFull
    BY <1>2, <2>1, <2>2, <2>3, <2>4 DEF Store!DirectoryFull, Store!Return
  <2> QED
    BY <2>5 DEF Store!Next
<1>4. CASE Goto(IF Sectors(job.body.size) > 0 THEN "data" ELSE "entry")
  <2>1. CallOn' = CallOn /\ result' = result /\ Erased' = FALSE
    BY <1>4, SameCall DEF Goto, Erased
  <2> QED
    BY <1>2, <2>1 DEF Store!vars
<1> QED
  BY <1>3, <1>4 DEF Place

LEMMA WriteMaps ==
  ASSUME DirInv, WriteData \/ WriteEntry
  PROVE  UNCHANGED Store!vars
<1>1. Files' = Files
  BY WriteDataKeeps, WriteEntryKeeps, SameFiles
<1>2. job' = job /\ result' = result /\ Erased = FALSE /\ Erased' = FALSE
  BY DEF WriteData, WriteEntry, Goto, Erased
<1> QED
  BY <1>1, <1>2, SameCall DEF Store!vars

LEMMA DiskFullMaps ==
  ASSUME DirInv, StoreInv, DiskFull
  PROVE  Store!Next
<1> DEFINE g == Fold[job.name]
<1>1. pc = "data" /\ UNCHANGED disk /\ Matches(g) = {} /\ job.op = "save"
  BY DEF DiskFull, StoreInv, Removed, DirInv, CallOK
<1>2. Files' = Files
  BY <1>1, LookupSameDisk, SameFiles
<1>3. CallOn = [op |-> "save", file |-> g, body |-> job.body] /\ CallOn # NoJob /\ g \in File
  BY <1>1, TheCall
<1>4. Files[g] = NoFile
  BY <1>1, <1>3, Absent DEF Files
<1>5. CallOn' = NoJob /\ Erased' = FALSE /\ result' = Store!Says("WRITE ERROR")
  BY Returned DEF DiskFull
<1>6. Store!DiskFull
  BY <1>2, <1>3, <1>4, <1>5 DEF Store!DiskFull, Store!Return
<1> QED
  BY <1>6 DEF Store!Next

(* The file that counts from now on has the contents of the call.          *)
LEMMA CountUpStores ==
  ASSUME ShortNames, DirInv, StoreInv, CountUp, NEW g, g = Fold[job.name]
  PROVE  Lookup(g)' = job.body
<1>0. PICK c : c = header.count
  OBVIOUS
<1>1. /\ pc = "header" /\ UNCHANGED <<dir, data>>
      /\ dir[c] = Entry(Stored[job.name], start, job.body.size)
      /\ c \in Nat
  BY <1>0, CountUpAdds
<1>2. Matches(g)' = {c}
  <2>1. Matches(g) = {}
    BY <1>1 DEF StoreInv, Removed
  <2> QED
    BY <1>0, <2>1, CountUpFinds
<1>3. First(Matches(g)') = c
  BY <1>1, <1>2, FirstIs
<1>4. Lookup(g)' = FileAt(c)'
  BY <1>2, <1>3, LookupIsNext
<1>5. /\ job.body.size \in Nat /\ job.body = [size |-> job.body.size, parts |-> job.body.parts]
      /\ job.body.parts \in [1 .. Sectors(job.body.size) -> Part]
  BY <1>1, SaveJob, BodyShape
<1>6. \A s \in 1 .. Sectors(job.body.size) : data[start + (s - 1)] = job.body.parts[s]
  <2> TAKE s \in 1 .. Sectors(job.body.size)
  <2>0. Sectors(job.body.size) \in Nat
    BY <1>5, SectorsNat
  <2>1. s - 1 \in Nat /\ s - 1 < Sectors(job.body.size) /\ (s - 1) + 1 = s
    BY <2>0
  <2>2. data[start + (s - 1)] = job.body.parts[(s - 1) + 1]
    BY <1>1, <2>1 DEF StoreInv, Written
  <2> QED
    BY <2>1, <2>2
<1>7. [s \in 1 .. Sectors(job.body.size) |-> data[start + (s - 1)]] = job.body.parts
  BY <1>5, <1>6
<1>8. FileAt(c)' = [size |-> job.body.size,
                    parts |-> [s \in 1 .. Sectors(job.body.size) |-> data[start + (s - 1)]]]
  <2>1. dir'[c].size = job.body.size /\ dir'[c].start = start /\ data' = data
    BY <1>1 DEF Entry
  <2> QED
    BY <2>1 DEF FileAt
<1> QED
  BY <1>4, <1>5, <1>7, <1>8

LEMMA CountUpMaps ==
  ASSUME ShortNames, DirInv, StoreInv, CountUp
  PROVE  Store!Next
<1>0. PICK g : g = Fold[job.name]
  OBVIOUS
<1>1. pc = "header" /\ job.op = "save" /\ header.count < FS_MAX_FILES
  BY SaveJob, CountUpAdds
<1>2. CallOn = [op |-> "save", file |-> g, body |-> job.body] /\ CallOn # NoJob /\ g \in File
  BY <1>0, <1>1, TheCall
<1>3. Matches(g) = {}
  BY <1>0, <1>1 DEF StoreInv, Removed
<1>4. Files[g] = NoFile
  BY <1>2, <1>3, Absent DEF Files
<1>5. Store!Cardinality(Store!Present) < FS_MAX_FILES
  BY <1>1, PresentCount DEF StoreInv
<1>6. Files' = [Files EXCEPT ![g] = job.body]
  <2>1. Lookup(g)' = job.body
    BY <1>0, CountUpStores
  <2>2. \A f \in File : f # g => Lookup(f)' = Lookup(f)
    BY <1>0, CountUpKeeps
  <2> QED
    BY <1>2, <2>1, <2>2 DEF Files
<1>7. CallOn' = NoJob /\ Erased' = FALSE /\ result' = Store!Says("ok")
  BY Returned DEF CountUp
<1>8. Store!Store
  BY <1>2, <1>4, <1>5, <1>6, <1>7 DEF Store!Store, Store!Return
<1> QED
  BY <1>8 DEF Store!Next

LEMMA FormatHeaderMaps ==
  ASSUME DirInv, FormatHeader
  PROVE  Store!Next
<1>1. /\ pc = "format" /\ pc' = "blank" /\ job' = job /\ result' = result
      /\ header' = [magic |-> TRUE, count |-> 0] /\ job.op = "format"
  BY DEF FormatHeader, Goto, DirInv, CallOK
<1>2. CallOn = [op |-> "format"] /\ CallOn # NoJob
  BY <1>1, TheCall
<1>3. \A f : Matches(f)' = {}
  BY <1>1 DEF Matches, Entries
<1>4. Files' = [f \in File |-> NoFile]
  BY <1>3, LookupIsNext DEF Files
<1>5. Erased = FALSE /\ Erased' = FALSE
  BY <1>1 DEF Erased
<1>6. Store!Clear
  BY <1>1, <1>2, <1>4, <1>5, SameCall DEF Store!Clear
<1> QED
  BY <1>6 DEF Store!Next

LEMMA FormatEntryMaps ==
  ASSUME DirInv, FormatEntry
  PROVE  [Store!Next]_(Store!vars)
<1>1. pc = "blank" /\ job.op = "format" /\ header.count = 0 /\ header' = header
  BY DEF FormatEntry, DirInv, CallOK
<1>2. \A f : Matches(f) = {} /\ Matches(f)' = {}
  BY <1>1 DEF Matches, Entries
<1>3. Files' = Files
  BY <1>2, LookupIs, LookupIsNext, SameFiles
<1>4. CASE Goto("blank")
  <2>1. CallOn' = CallOn /\ result' = result /\ Erased = FALSE /\ Erased' = FALSE
    BY <1>1, <1>4, SameCall DEF Goto, Erased
  <2> QED
    BY <1>3, <2>1 DEF Store!vars
<1>5. CASE Return("ok")
  <2>1. CallOn = [op |-> "format"] /\ CallOn # NoJob
    BY <1>1, TheCall
  <2>2. Store!Present = {}
    BY <1>1, NonePresent
  <2>3. CallOn' = NoJob /\ Erased' = FALSE /\ result' = Store!Says("ok")
    BY <1>5, Returned
  <2>4. Store!Formatted
    BY <1>3, <2>1, <2>2, <2>3 DEF Store!Formatted, Store!Return
  <2> QED
    BY <2>4 DEF Store!Next
<1> QED
  BY <1>4, <1>5 DEF FormatEntry

LEMMA NextMaps ==
  ASSUME ShortNames, ~Faults, DirInv, StoreInv, [Next]_vars
  PROVE  [Store!Next]_(Store!vars)
<1>0. Unique /\ Removed /\ DirInv'
  BY NextInv DEF StoreInv
<1>1. ASSUME NEW n \in Name, NEW max \in Buffer, fs_load(n, max)
      PROVE  Store!Next
  BY <1>1, LoadMaps
<1>2. ASSUME NEW n \in Name, NEW body \in Body, fs_save(n, body)
      PROVE  Store!Next
  <2> DEFINE o == [op |-> "save", name |-> n, body |-> body]
  <2>1. o \in Job /\ Call("search", o)
    BY <1>2 DEF Job, fs_save
  <2> HIDE DEF o
  <2> QED
    BY <1>0, <2>1, CallMaps
<1>3. ASSUME NEW n \in Name, fs_delete(n)
      PROVE  Store!Next
  <2> DEFINE o == [op |-> "delete", name |-> n]
  <2>1. o \in Job /\ Call("search", o)
    BY <1>3 DEF Job, fs_delete
  <2> HIDE DEF o
  <2> QED
    BY <1>0, <2>1, CallMaps
<1>4. CASE fs_format
  <2> DEFINE o == [op |-> "format"]
  <2>1. o \in Job /\ Call("format", o)
    BY <1>4 DEF Job, fs_format
  <2> HIDE DEF o
  <2> QED
    BY <1>0, <2>1, CallMaps
<1>5. CASE UNCHANGED vars
  <2>1. Files' = Files
    BY <1>5, LookupSameDisk, SameFiles DEF vars, disk
  <2> QED
    BY <1>5, <2>1, SameCall DEF vars, Store!vars, Erased
<1>6. ~Fault
  BY DEF Fault
<1> QED
  BY <1>0, <1>1, <1>2, <1>3, <1>4, <1>5, <1>6, NotFormattedMaps, SearchMaps, ShiftMaps,
     CountDownMaps, PlaceMaps, WriteMaps, DiskFullMaps, CountUpMaps, FormatHeaderMaps,
     FormatEntryMaps
  DEF Next

(* While the disk does not fail, the sectors keep the promise of module    *)
(* FileStore: a file loads as it was last saved, whatever was saved or     *)
(* deleted since, and whatever the case of the name it is loaded by.       *)
THEOREM KeepsPromise ==
  ASSUME ShortNames, ~Faults
  PROVE  Spec => StoreSpec
<1>1. Init => DirInv /\ StoreInv
  BY InitInv, InitStoreInv
<1>2. DirInv /\ StoreInv /\ [Next]_vars => (DirInv /\ StoreInv)'
  BY NextInv, NextStoreInv
<1>3. DirInv /\ StoreInv /\ [Next]_vars => [Store!Next]_(Store!vars)
  BY NextMaps
<1>4. Spec => Store!Init /\ [][Store!Next]_(Store!vars)
  BY <1>1, <1>2, <1>3, InitMaps, PTL DEF Spec
<1> QED
  BY <1>4 DEF StoreSpec, Store!Spec

(* While the disk does not fail, what a save reports as saved is what a    *)
(* load then returns.  It is not so once the disk has failed: an entry     *)
(* left there twice hides the one saved after them.                        *)
THEOREM SavesLoad ==
  ASSUME ShortNames, ~Faults
  PROVE  Spec => SavedIsLoaded
<1> DEFINE A == \A f \in File :
     pc = "header" /\ result'.said = "ok" /\ f = Fold[job.name] => Lookup(f)' = job.body
<1>1. Init => DirInv /\ StoreInv
  BY InitInv, InitStoreInv
<1>2. DirInv /\ StoreInv /\ [Next]_vars => (DirInv /\ StoreInv)'
  BY NextInv, NextStoreInv
<1>3. DirInv /\ StoreInv /\ [Next]_vars => [A]_vars
  <2> SUFFICES ASSUME DirInv, StoreInv, Next PROVE A
    OBVIOUS
  <2>1. CASE pc # "header"
    BY <2>1
  <2>2. CASE pc = "header"
    <3>1. CountUp
      BY <2>2 DEF Next, Fault, fs_load, fs_save, fs_delete, fs_format, Call, NotFormatted,
         Search, Shift, CountDown, Place, WriteData, DiskFull, WriteEntry, FormatHeader, FormatEntry
    <3> QED
      BY <3>1, CountUpStores
  <2> QED
    BY <2>1, <2>2
<1>4. Spec => [][A]_vars
  <2> HIDE DEF A
  <2> QED
    BY <1>1, <1>2, <1>3, PTL DEF Spec
<1> QED
  BY <1>4 DEF SavedIsLoaded

=============================================================================
