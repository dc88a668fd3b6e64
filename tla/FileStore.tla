----------------------------- MODULE FileStore -----------------------------
(***************************************************************************)
(* What os/fs.rs promises while the disk does not fail: a map from file    *)
(* names to contents, with one call at a time.  SAVE replaces a file in    *)
(* two steps, not one: the old contents go first, and a SAVE that then     *)
(* finds no room on the disk has lost them.                                *)
(***************************************************************************)
EXTENDS Naturals, FiniteSets

CONSTANTS
  File,         \* file names, as names_match tells them apart
  Body,         \* contents
  NoFile,       \* the contents of a file that does not exist
  NoJob,        \* no call in progress
  MaxFiles,     \* how many files there can be
  Buffer,       \* the sizes of the buffers a LOAD is given
  Cut(_, _)     \* what a LOAD with a buffer of that many bytes returns

VARIABLES
  files,        \* the contents of each file
  job,          \* the call in progress: NoJob or [op, file, body]
  erased,       \* whether a delete in progress has erased its file
  result        \* what the last call returned: a message, and a load's contents

vars == <<files, job, erased, result>>

Says(message) == [said |-> message, body |-> NoFile]

Present == {f \in File : files[f] # NoFile}

Init ==
  /\ files = [f \in File |-> NoFile]
  /\ job = NoJob
  /\ erased = FALSE
  /\ result = Says("none")

Begin(j) ==
  /\ job = NoJob
  /\ job' = j
  /\ result' = Says("none")
  /\ UNCHANGED <<files, erased>>

Return(r) ==
  /\ job' = NoJob
  /\ erased' = FALSE
  /\ result' = Says(r)

Erase ==
  /\ job # NoJob
  /\ job.op \in {"save", "delete"}
  /\ files[job.file] # NoFile
  /\ files' = [files EXCEPT ![job.file] = NoFile]
  /\ erased' = (job.op = "delete")
  /\ UNCHANGED <<job, result>>

Store ==
  /\ job # NoJob
  /\ job.op = "save"
  /\ files[job.file] = NoFile
  /\ Cardinality(Present) < MaxFiles
  /\ files' = [files EXCEPT ![job.file] = job.body]
  /\ Return("ok")

DirectoryFull ==
  /\ job # NoJob
  /\ job.op = "save"
  /\ files[job.file] = NoFile
  /\ Cardinality(Present) >= MaxFiles
  /\ UNCHANGED files
  /\ Return("DIRECTORY FULL")

DiskFull ==
  /\ job # NoJob
  /\ job.op = "save"
  /\ files[job.file] = NoFile
  /\ UNCHANGED files
  /\ Return("WRITE ERROR")

Delete ==
  /\ job # NoJob
  /\ job.op = "delete"
  /\ files[job.file] # NoFile \/ erased
  /\ files' = [files EXCEPT ![job.file] = NoFile]
  /\ Return("ok")

NotFound ==
  /\ job # NoJob
  /\ job.op = "delete"
  /\ files[job.file] = NoFile
  /\ ~erased
  /\ UNCHANGED files
  /\ Return("FILE NOT FOUND")

(* A load is a call on its own.                                            *)
Load(f, max) ==
  /\ job = NoJob
  /\ result' = IF files[f] = NoFile THEN Says("FILE NOT FOUND")
               ELSE [said |-> "ok", body |-> Cut(files[f], max)]
  /\ UNCHANGED <<files, job, erased>>

(* Every file is gone as soon as a format has begun.                       *)
Clear ==
  /\ job # NoJob
  /\ job.op = "format"
  /\ files' = [f \in File |-> NoFile]
  /\ UNCHANGED <<job, erased, result>>

Formatted ==
  /\ job # NoJob
  /\ job.op = "format"
  /\ Present = {}
  /\ UNCHANGED files
  /\ Return("ok")

NotFormatted ==
  /\ job = NoJob
  /\ Present = {}
  /\ result' = Says("DISK NOT FORMATTED")
  /\ UNCHANGED <<files, job, erased>>

Jobs ==
  [op : {"save"}, file : File, body : Body]
    \cup [op : {"delete"}, file : File] \cup [op : {"format"}]

Next ==
  \/ \E j \in Jobs : Begin(j)
  \/ \E f \in File, max \in Buffer : Load(f, max)
  \/ Erase \/ Store \/ DirectoryFull \/ DiskFull
  \/ Delete \/ NotFound
  \/ Clear \/ Formatted \/ NotFormatted

Spec == Init /\ [][Next]_vars
=============================================================================
