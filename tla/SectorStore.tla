----------------------------- MODULE SectorStore -----------------------------
(***************************************************************************)
(* What the disk driver promises the file system, one call at a time: a    *)
(* read or write that returns without an error was carried out.  A write   *)
(* that returns an error may have been carried out, may never be, or may   *)
(* be carried out late, but not after a later call has succeeded.          *)
(***************************************************************************)
CONSTANTS Sector, Data, NoJob, NoData

VARIABLES
  disk,      \* the contents of each sector
  job,       \* the call in progress: NoJob or [op, lba, data]
  applied,   \* whether the write in progress has been carried out
  late,      \* the write that failed and may still be carried out, or NoJob
  result     \* what the last call returned

vars == <<disk, job, applied, late, result>>

Job == [op : {"read"}, lba : Sector, data : {NoData}] \cup [op : {"write"}, lba : Sector, data : Data]

Init ==
  /\ disk \in [Sector -> Data]
  /\ job = NoJob
  /\ applied = FALSE
  /\ late = NoJob
  /\ result = [said |-> "none", data |-> NoData]

Begin(o) ==
  /\ job = NoJob
  /\ job' = o
  /\ result' = [said |-> "none", data |-> NoData]
  /\ UNCHANGED <<disk, applied, late>>

Apply ==
  /\ job # NoJob
  /\ job.op = "write"
  /\ late = NoJob
  /\ disk' = [disk EXCEPT ![job.lba] = job.data]
  /\ applied' = TRUE
  /\ UNCHANGED <<job, late, result>>

ReturnOk ==
  /\ job # NoJob
  /\ late = NoJob
  /\ job.op = "write" => applied
  /\ result' = [said |-> "ok", data |-> IF job.op = "read" THEN disk[job.lba] ELSE NoData]
  /\ job' = NoJob
  /\ applied' = FALSE
  /\ UNCHANGED <<disk, late>>

ReturnError ==
  /\ job # NoJob
  /\ result' = [said |-> "error", data |-> NoData]
  /\ job' = NoJob
  /\ applied' = FALSE
  /\ \/ UNCHANGED late
     \/ /\ job.op = "write" /\ ~applied /\ late = NoJob
        /\ late' = job
  /\ UNCHANGED disk

Late ==
  /\ late # NoJob
  /\ disk' = [disk EXCEPT ![late.lba] = late.data]
  /\ late' = NoJob
  /\ UNCHANGED <<job, applied, result>>

Drop ==
  /\ late' = NoJob
  /\ UNCHANGED <<disk, job, applied, result>>

Next == (\E o \in Job : Begin(o)) \/ Apply \/ ReturnOk \/ ReturnError \/ Late \/ Drop

Spec == Init /\ [][Next]_vars
=============================================================================
