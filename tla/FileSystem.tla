----------------------------- MODULE FileSystem -----------------------------
(***************************************************************************)
(* The file system of os/fs.rs: sector 0 holds a magic number and the      *)
(* number of files, the next FS_MAX_FILES sectors one directory entry      *)
(* each, and each file's data lies in consecutive sectors after them.      *)
(* Removing a file moves the later entries down by one; saving one places  *)
(* it after the last sector in use.                                        *)
(*                                                                         *)
(* Reads change nothing and only one call runs at a time, so the reads     *)
(* before a write belong to the step of that write.  Each write of a       *)
(* sector is a step: a call can end between any two of them, on a disk     *)
(* error or a loss of power.                                               *)
(***************************************************************************)
EXTENDS Naturals, Sequences, FiniteSets

CONSTANTS
  FS_MAX_FILES, SECTOR_SIZE,
  TotalSectors,    \* sectors of the disk
  Name,            \* file names callers pass
  Fold,            \* Fold[n]: the name as names_match compares it, case aside
  Stored,          \* Stored[n]: the name write_entry stores, 31 characters
  Version, Length, \* what callers save: contents told apart by a version
  Buffer,          \* the sizes of the buffers callers load into
  NoName, NoData, NoFile, NoJob,
  Faults           \* whether the disk or the power may fail

FS_DATA_START == FS_MAX_FILES + 1

ASSUME FileSystemAssumption ==
  /\ FS_MAX_FILES \in Nat \ {0} /\ SECTOR_SIZE \in Nat \ {0}
  /\ TotalSectors \in Nat /\ TotalSectors >= FS_DATA_START
  /\ NoName \notin Name
  /\ \A n \in Name :
       /\ n \in DOMAIN Fold /\ n \in DOMAIN Stored
       /\ Stored[n] \in Name /\ Stored[Stored[n]] = Stored[n]
  /\ Length \subseteq Nat /\ Buffer \subseteq Nat
  /\ Faults \in BOOLEAN

VARIABLES
  header,   \* sector 0: [magic, count]
  dir,      \* the directory sectors: [name, start, size]
  data,     \* the data sectors
  pc,       \* the next write of the call in progress
  job,      \* the call in progress and its arguments
  i, j,     \* the entry remove_entry_by_name found, and a loop's counter
  start,    \* the first sector of the file being saved
  result    \* what the last call returned: a message, and a load's contents

disk == <<header, dir, data>>
vars == <<header, dir, data, pc, job, i, j, start, result>>

File == {Fold[n] : n \in Name}

Sectors(size) == (size + SECTOR_SIZE - 1) \div SECTOR_SIZE

(* Contents: a size in bytes and what is in each sector.                   *)
Contents(v, size) == [size |-> size, parts |-> [s \in 1 .. Sectors(size) |-> <<v, s>>]]
Body == {Contents(v, size) : v \in Version, size \in Length}

(* A call is no absent call, and contents are no absent file.              *)
ASSUME DistinctValues ==
  /\ NoJob \notin [op : {"save"}, name : Name, body : Body]
                  \cup [op : {"delete"}, name : Name] \cup [op : {"format"}]
  /\ NoJob \notin [op : {"save"}, file : File, body : Body]
                  \cup [op : {"delete"}, file : File]
  /\ NoFile \notin [size : Nat, parts : Seq((Version \X Nat) \cup {NoData})]

Entry(name, first, size) == [name |-> name, start |-> first, size |-> size]
Blank == Entry(NoName, 0, 0)

DataSector == FS_DATA_START .. TotalSectors - 1

Says(message) == [said |-> message, body |-> NoFile]

(* A new disk holds no file system.                                        *)
Init ==
  /\ header = [magic |-> FALSE, count |-> 0]
  /\ dir = [e \in 0 .. FS_MAX_FILES - 1 |-> Blank]
  /\ data = [s \in DataSector |-> NoData]
  /\ pc = "idle"
  /\ job = NoJob
  /\ i = 0
  /\ j = 0
  /\ start = 0
  /\ result = Says("none")

----------------------------------------------------------------------------
(* What the calls read.                                                    *)

Entries == 0 .. header.count - 1

(* Mutant: the comparison of names is sensitive to case.                   *)
MatchesExactly(f) == {e \in Entries : dir[e].name = f}

Matches(f) == {e \in Entries : dir[e].name # NoName /\ Fold[dir[e].name] = f}
First(S) == CHOOSE e \in S : \A o \in S : e <= o

EndOf(e) == dir[e].start + Sectors(dir[e].size)

(* Mutant: a sector filled in part is not counted.                         *)
FreeSectorRoundedDown ==
  LET ends == {dir[e].start + dir[e].size \div SECTOR_SIZE : e \in Entries} \cup {FS_DATA_START}
  IN CHOOSE s \in ends : \A o \in ends : o <= s

find_free_sector ==
  LET ends == {EndOf(e) : e \in Entries} \cup {FS_DATA_START}
  IN CHOOSE s \in ends : \A o \in ends : o <= s

Least(a, b) == IF a <= b THEN a ELSE b

(* The first max bytes.                                                    *)
Cut(body, max) ==
  LET size == Least(body.size, max)
  IN [size |-> size, parts |-> SubSeq(body.parts, 1, Sectors(size))]

(* What a load with room enough returns.                                   *)
Lookup(f) ==
  IF Matches(f) = {} THEN NoFile
  ELSE LET e == dir[First(Matches(f))]
       IN [size |-> e.size, parts |-> [s \in 1 .. Sectors(e.size) |-> data[e.start + (s - 1)]]]

----------------------------------------------------------------------------
(* The calls.                                                              *)

Locals == <<i, j, start>>

Return(r) ==
  /\ pc' = "idle"
  /\ job' = NoJob
  /\ i' = 0
  /\ j' = 0
  /\ start' = 0
  /\ result' = Says(r)

Goto(label) == pc' = label /\ UNCHANGED <<job, result>>

fs_load(n, max) ==
  /\ pc = "idle"
  /\ header.magic
  /\ result' = IF Matches(Fold[n]) = {} THEN Says("FILE NOT FOUND")
               ELSE [said |-> "ok", body |-> Cut(Lookup(Fold[n]), max)]
  /\ UNCHANGED <<disk, pc, job, Locals>>

Call(label, o) ==
  /\ pc = "idle"
  /\ pc' = label
  /\ job' = o
  /\ result' = Says("none")
  /\ UNCHANGED <<disk, Locals>>

fs_save(n, body) == header.magic /\ Call("search", [op |-> "save", name |-> n, body |-> body])
fs_delete(n) == header.magic /\ Call("search", [op |-> "delete", name |-> n])
fs_format == Call("format", [op |-> "format"])

(* read_validated_header fails in every call but FORMAT.                   *)
NotFormatted ==
  /\ pc = "idle"
  /\ ~header.magic
  /\ result' = Says("DISK NOT FORMATTED")
  /\ UNCHANGED <<disk, pc, job, Locals>>

(* remove_entry_by_name, up to its first write.                            *)
Search ==
  /\ pc = "search"
  /\ LET found == Matches(Fold[job.name]) IN
     \/ /\ found # {}
        /\ i' = First(found)
        /\ j' = First(found)
        /\ Goto(IF First(found) < header.count - 1 THEN "shift" ELSE "count")
        /\ UNCHANGED start
     \/ /\ found = {}
        /\ job.op = "save"
        /\ Goto("place")
        /\ UNCHANGED Locals
     \/ /\ found = {}
        /\ job.op = "delete"
        /\ Return("FILE NOT FOUND")
  /\ UNCHANGED disk

(* Mutant: the loop ends one round early.                                  *)
ShiftShort ==
  /\ pc = "shift"
  /\ LET next == dir[j + 1]
     IN dir' = [dir EXCEPT ![j] = Entry(Stored[next.name], next.start, next.size)]
  /\ j' = j + 1
  /\ Goto(IF j + 2 < header.count - 1 THEN "shift" ELSE "count")
  /\ UNCHANGED <<header, data, i, start>>

(* One round of shift_entries_down.                                        *)
Shift ==
  /\ pc = "shift"
  /\ LET next == dir[j + 1]
     IN dir' = [dir EXCEPT ![j] = Entry(Stored[next.name], next.start, next.size)]
  /\ j' = j + 1
  /\ Goto(IF j + 1 < header.count - 1 THEN "shift" ELSE "count")
  /\ UNCHANGED <<header, data, i, start>>

(* The write_header of remove_entry_by_name.                               *)
CountDown ==
  /\ pc = "count"
  /\ header' = [header EXCEPT !.count = @ - 1]
  /\ \/ /\ job.op = "delete"
        /\ Return("ok")
     \/ /\ job.op = "save"
        /\ Goto("place")
        /\ UNCHANGED Locals
  /\ UNCHANGED <<dir, data>>

(* Mutant: a full directory is not noticed.                                *)
PlaceUnchecked ==
  /\ pc = "place"
  /\ start' = find_free_sector
  /\ j' = 0
  /\ Goto(IF Sectors(job.body.size) > 0 THEN "data" ELSE "entry")
  /\ UNCHANGED <<disk, i>>

(* The checks and the placing of fs_save, up to its first write.           *)
Place ==
  /\ pc = "place"
  /\ \/ /\ header.count >= FS_MAX_FILES
        /\ Return("DIRECTORY FULL")
     \/ /\ header.count < FS_MAX_FILES
        /\ start' = find_free_sector
        /\ j' = 0
        /\ Goto(IF Sectors(job.body.size) > 0 THEN "data" ELSE "entry")
        /\ UNCHANGED i
  /\ UNCHANGED disk

WriteData ==
  /\ pc = "data"
  /\ start + j \in DataSector
  /\ data' = [data EXCEPT ![start + j] = job.body.parts[j + 1]]
  /\ j' = j + 1
  /\ Goto(IF j + 1 < Sectors(job.body.size) THEN "data" ELSE "entry")
  /\ UNCHANGED <<header, dir, i, start>>

(* The disk refuses a sector it does not have.                             *)
DiskFull ==
  /\ pc = "data"
  /\ start + j \notin DataSector
  /\ Return("WRITE ERROR")
  /\ UNCHANGED disk

WriteEntry ==
  /\ pc = "entry"
  /\ dir' = [dir EXCEPT ![header.count] = Entry(Stored[job.name], start, job.body.size)]
  /\ Goto("header")
  /\ UNCHANGED <<header, data, Locals>>

CountUp ==
  /\ pc = "header"
  /\ header' = [header EXCEPT !.count = @ + 1]
  /\ Return("ok")
  /\ UNCHANGED <<dir, data>>

FormatHeader ==
  /\ pc = "format"
  /\ header' = [magic |-> TRUE, count |-> 0]
  /\ j' = 0
  /\ Goto("blank")
  /\ UNCHANGED <<dir, data, i, start>>

FormatEntry ==
  /\ pc = "blank"
  /\ dir' = [dir EXCEPT ![j] = Blank]
  /\ IF j + 1 < FS_MAX_FILES
     THEN j' = j + 1 /\ Goto("blank") /\ UNCHANGED <<i, start>>
     ELSE Return("ok")
  /\ UNCHANGED <<header, data>>

(* A disk error, or a loss of power, before or after any write: a write    *)
(* reported as failed may have reached the disk all the same.              *)
Fault ==
  /\ Faults
  /\ pc # "idle"
  /\ Return("DISK ERROR")
  /\ UNCHANGED disk

Next ==
  \/ \E n \in Name, max \in Buffer : fs_load(n, max)
  \/ \E n \in Name, body \in Body : fs_save(n, body)
  \/ \E n \in Name : fs_delete(n)
  \/ fs_format
  \/ NotFormatted
  \/ Search \/ Shift \/ CountDown
  \/ Place \/ WriteData \/ DiskFull \/ WriteEntry \/ CountUp
  \/ FormatHeader \/ FormatEntry
  \/ Fault

Spec == Init /\ [][Next]_vars

----------------------------------------------------------------------------
(* Properties.                                                             *)

Pc == {"idle", "search", "shift", "count", "place", "data", "entry", "header", "format", "blank"}

(* Types; the directory count stays within the directory.                  *)
TypeOK ==
  /\ header \in [magic : BOOLEAN, count : 0 .. FS_MAX_FILES]
  /\ \A e \in 0 .. FS_MAX_FILES - 1 :
       /\ dir[e].name \in Name \cup {NoName}
       /\ dir[e].start \in Nat
       /\ dir[e].size \in Length \cup {0}
  /\ DOMAIN data = DataSector
  /\ pc \in Pc
  /\ (pc = "idle") = (job = NoJob)
  /\ i \in 0 .. FS_MAX_FILES
  /\ j \in Nat
  /\ start \in Nat

(* The disk as a map from names to contents, and the call on it.           *)
Files == [f \in File |-> Lookup(f)]

CallOn ==
  IF job = NoJob THEN NoJob
  ELSE IF job.op = "save" THEN [op |-> "save", file |-> Fold[job.name], body |-> job.body]
  ELSE IF job.op = "delete" THEN [op |-> "delete", file |-> Fold[job.name]]
  ELSE [op |-> "format"]

Erased == pc \in {"shift", "count"} /\ job.op = "delete" /\ j > i

Store == INSTANCE FileStore WITH
  files <- Files, job <- CallOn, erased <- Erased, MaxFiles <- FS_MAX_FILES

(* While the disk does not fail, the sectors implement that map: a file    *)
(* loads as it was last saved, whatever was saved or deleted since, and    *)
(* whatever the case of the name.                                          *)
StoreSpec == Store!Spec

Extent(e) == dir[e].start .. EndOf(e) - 1

(* Two entries that count never share a sector, and none reaches beyond    *)
(* the data area; an entry moved down may for a moment be there twice.     *)
Extents ==
  /\ \A e \in Entries : Extent(e) \subseteq DataSector
  /\ \A d, e \in Entries : dir[d] # dir[e] => Extent(d) \cap Extent(e) = {}

(* A call on one file leaves every other file as it was, at every step,    *)
(* even if the call fails half way.                                        *)
OthersUntouched ==
  [][\A f \in File :
       (IF pc = "idle" THEN TRUE
        ELSE job.op # "format" /\ Fold[job.name] # f) => Lookup(f)' = Lookup(f)]_vars

(* A save that reports success is what a load then returns.                *)
SavedIsLoaded ==
  [][\A f \in File :
       pc = "header" /\ result'.said = "ok" /\ f = Fold[job.name]
         => Lookup(f)' = job.body]_vars
=============================================================================
