-------------------------------- MODULE Disk --------------------------------
(***************************************************************************)
(* The disk driver: os/ata.rs, which sends each call to the AHCI driver    *)
(* (os/ahci.rs) if one was found at boot and to its own PIO driver if not. *)
(* Both issue one command for one sector and poll the device a bounded     *)
(* number of times.  A command the driver has given up on is still with    *)
(* the device, which may carry it out while later calls run.               *)
(*                                                                         *)
(* The AHCI driver has one buffer for every transfer, which the device     *)
(* reads and writes by itself.  A write fills it before it waits for the   *)
(* device, so it relies on the calls before it having ended: the file      *)
(* system's calls begin with a read, after an error too, except FORMAT.    *)
(*                                                                         *)
(* The device is external.  It is busy from the moment it is given a       *)
(* command, takes no other meanwhile, ends it by clearing CI and BSY       *)
(* together, and stops on an error, with CI still set, until it is         *)
(* restarted, which no code does.                                          *)
(* In PIO mode it ends a command by setting DRQ, or after a write's data   *)
(* by clearing BSY, and drops a command when it is given the next.         *)
(***************************************************************************)
EXTENDS Naturals

CONSTANTS
  Sector, Data, NoJob, NoData,
  WritesFirst      \* whether a write may follow a call that failed, as FORMAT's does

ASSUME DiskAssumption ==
  /\ NoData \notin Data
  /\ WritesFirst \in BOOLEAN
  /\ NoJob \notin [op : {"read", "write"}, lba : Sector, data : Data \cup {NoData}]

VARIABLES
  USE_AHCI,
  SECTOR_BUF,          \* the AHCI driver's buffer
  pc, job, result,     \* the call in progress, and what the last one returned
  CI, BSY, DRQ, ERR,   \* the bits the driver polls
  disk,                \* the sectors
  cmd,                 \* the device's command: NoJob or [op, lba, data]
  stage                \* how far the device is: "command", "data", "done"

device == <<CI, BSY, DRQ, ERR, disk, cmd, stage>>
vars == <<USE_AHCI, SECTOR_BUF, pc, job, result, device>>

Job == [op : {"read"}, lba : Sector, data : {NoData}] \cup [op : {"write"}, lba : Sector, data : Data]
Says(message, data) == [said |-> message, data |-> data]

Init ==
  /\ USE_AHCI \in BOOLEAN
  /\ SECTOR_BUF \in Data
  /\ pc = "idle"
  /\ job = NoJob
  /\ result = Says("none", NoData)
  /\ CI = FALSE /\ BSY = FALSE /\ DRQ = FALSE /\ ERR = FALSE
  /\ disk \in [Sector -> Data]
  /\ cmd = NoJob
  /\ stage = "done"

Return(r) ==
  /\ pc' = "idle"
  /\ job' = NoJob
  /\ result' = r

Fails == Return(Says("error", NoData))
Goto(label) == pc' = label /\ UNCHANGED <<job, result>>

(* ata_read_sector and ata_write_sector.                                   *)
Call(o) ==
  /\ pc = "idle"
  /\ o.op = "write" /\ result.said = "error" => WritesFirst
  /\ job' = o
  /\ result' = Says("none", NoData)
  /\ pc' = IF ~USE_AHCI THEN "wait_ready" ELSE IF o.op = "write" THEN "copy_in" ELSE "ready"
  /\ UNCHANGED <<USE_AHCI, SECTOR_BUF, device>>

----------------------------------------------------------------------------
(* The AHCI driver.                                                        *)

CopyIn ==
  /\ pc = "copy_in"
  /\ SECTOR_BUF' = job.data
  /\ Goto("ready")
  /\ UNCHANGED <<USE_AHCI, device>>

(* Mutant: the driver does not wait for the device.                        *)
ReadyAtOnce ==
  /\ pc = "ready"
  /\ Goto("issue")
  /\ UNCHANGED <<USE_AHCI, SECTOR_BUF, device>>

(* The last of the polls: the device is neither busy nor holds data.       *)
Ready ==
  /\ pc = "ready"
  /\ IF BSY \/ DRQ THEN Fails ELSE Goto("issue")
  /\ UNCHANGED <<USE_AHCI, SECTOR_BUF, device>>

Issue ==
  /\ pc = "issue"
  /\ CI' = TRUE
  /\ IF BSY THEN UNCHANGED <<BSY, cmd, stage>>
            ELSE BSY' = ~ERR /\ cmd' = job /\ stage' = "command"
  /\ Goto("port_wait")
  /\ UNCHANGED <<USE_AHCI, SECTOR_BUF, DRQ, ERR, disk>>

(* Mutant: the end of the polling is taken for the end of the command.     *)
PortWaitTrusting ==
  /\ pc = "port_wait"
  /\ IF job.op = "read" THEN Goto("copy_out") ELSE Return(Says("ok", NoData))
  /\ UNCHANGED <<USE_AHCI, SECTOR_BUF, device>>

(* The last poll, or one that sees the error bit: CI is still set.         *)
PortWait ==
  /\ pc = "port_wait"
  /\ IF CI THEN Fails
     ELSE IF job.op = "read" THEN Goto("copy_out") ELSE Return(Says("ok", NoData))
  /\ UNCHANGED <<USE_AHCI, SECTOR_BUF, device>>

CopyOut ==
  /\ pc = "copy_out"
  /\ Return(Says("ok", SECTOR_BUF))
  /\ UNCHANGED <<USE_AHCI, SECTOR_BUF, device>>

Dma ==
  /\ USE_AHCI
  /\ BSY
  /\ stage = "command"
  /\ stage' = "done"
  /\ IF cmd.op = "read"
     THEN SECTOR_BUF' = disk[cmd.lba] /\ UNCHANGED disk
     ELSE disk' = [disk EXCEPT ![cmd.lba] = SECTOR_BUF] /\ UNCHANGED SECTOR_BUF
  /\ UNCHANGED <<USE_AHCI, pc, job, result, CI, BSY, DRQ, ERR, cmd>>

Complete ==
  /\ USE_AHCI
  /\ BSY
  /\ stage = "done"
  /\ BSY' = FALSE
  /\ CI' = FALSE
  /\ UNCHANGED <<USE_AHCI, SECTOR_BUF, pc, job, result, DRQ, ERR, disk, cmd, stage>>

----------------------------------------------------------------------------
(* The PIO driver.                                                         *)

(* Before a command, and after the data of a write.                        *)
PioWaitReady ==
  /\ pc \in {"wait_ready", "wait_end"}
  /\ IF ERR \/ BSY THEN Fails
     ELSE IF pc = "wait_ready" THEN Goto("select") ELSE Return(Says("ok", NoData))
  /\ UNCHANGED <<USE_AHCI, SECTOR_BUF, device>>

(* Mutant: the sector is not selected.                                     *)
PioCommandUnselected ==
  /\ pc = "select"
  /\ BSY' = TRUE /\ DRQ' = FALSE /\ ERR' = FALSE
  /\ stage' = "command"
  /\ Goto("wait_drq")
  /\ UNCHANGED <<USE_AHCI, SECTOR_BUF, CI, disk, cmd>>

PioCommand ==
  /\ pc = "select"
  /\ BSY' = TRUE /\ DRQ' = FALSE /\ ERR' = FALSE
  /\ cmd' = [job EXCEPT !.data = NoData]
  /\ stage' = "command"
  /\ Goto("wait_drq")
  /\ UNCHANGED <<USE_AHCI, SECTOR_BUF, CI, disk>>

(* The last poll, or the first that sees the error bit, or DRQ.            *)
PioWaitDrq ==
  /\ pc = "wait_drq"
  /\ IF ERR \/ ~DRQ THEN Fails ELSE Goto("transfer")
  /\ UNCHANGED <<USE_AHCI, SECTOR_BUF, device>>

PioReadData ==
  /\ pc = "transfer"
  /\ job.op = "read"
  /\ DRQ' = FALSE
  /\ Return(Says("ok", disk[cmd.lba]))
  /\ UNCHANGED <<USE_AHCI, SECTOR_BUF, CI, BSY, ERR, disk, cmd, stage>>

PioWriteData ==
  /\ pc = "transfer"
  /\ job.op = "write"
  /\ DRQ' = FALSE /\ BSY' = TRUE
  /\ cmd' = [cmd EXCEPT !.data = job.data]
  /\ stage' = "data"
  /\ Goto("wait_end")
  /\ UNCHANGED <<USE_AHCI, SECTOR_BUF, CI, ERR, disk>>

Respond ==
  /\ ~USE_AHCI
  /\ BSY
  /\ stage = "command"
  /\ BSY' = FALSE /\ DRQ' = TRUE
  /\ stage' = "done"
  /\ UNCHANGED <<USE_AHCI, SECTOR_BUF, pc, job, result, CI, ERR, disk, cmd>>

Store ==
  /\ ~USE_AHCI
  /\ BSY
  /\ stage = "data"
  /\ BSY' = FALSE
  /\ stage' = "done"
  /\ disk' = [disk EXCEPT ![cmd.lba] = cmd.data]
  /\ UNCHANGED <<USE_AHCI, SECTOR_BUF, pc, job, result, CI, DRQ, ERR, cmd>>

(* The device finds an error.  It sets the error bit when it is done with  *)
(* the command; in PIO mode the next command clears the bit.               *)
DeviceError ==
  /\ BSY
  /\ BSY' = FALSE
  /\ ERR' = TRUE
  /\ UNCHANGED <<USE_AHCI, SECTOR_BUF, pc, job, result, CI, DRQ, disk, cmd, stage>>

Next ==
  \/ \E o \in Job : Call(o)
  \/ CopyIn \/ Ready \/ Issue \/ PortWait \/ CopyOut \/ Dma \/ Complete
  \/ PioWaitReady \/ PioCommand \/ PioWaitDrq \/ PioReadData \/ PioWriteData
  \/ Respond \/ Store
  \/ DeviceError

Spec == Init /\ [][Next]_vars

----------------------------------------------------------------------------
(* Properties.                                                             *)

Pc == {"idle", "copy_in", "ready", "issue", "port_wait", "copy_out",
       "wait_ready", "select", "wait_drq", "transfer", "wait_end"}

(* Types; and a device that is busy has a command.                         *)
TypeOK ==
  /\ {USE_AHCI, CI, BSY, DRQ, ERR} \subseteq BOOLEAN
  /\ SECTOR_BUF \in Data
  /\ pc \in Pc
  /\ job \in Job \cup {NoJob}
  /\ (pc = "idle") = (job = NoJob)
  /\ disk \in [Sector -> Data]
  /\ BSY => cmd # NoJob
  /\ stage \in {"command", "data", "done"}

(* Whether the device's command is that of the call in progress.           *)
Own == pc \in {"port_wait", "wait_drq", "transfer", "wait_end"}

(* The write in progress has been carried out.                             *)
Applied == job # NoJob /\ job.op = "write" /\ stage = "done" /\ pc \in {"port_wait", "wait_end"}

(* The write that was given up and is still with the device.               *)
LateWrite ==
  IF ~BSY \/ Own \/ cmd.op = "read" THEN NoJob
  ELSE IF USE_AHCI /\ stage = "command" THEN [cmd EXCEPT !.data = SECTOR_BUF]
  ELSE IF ~USE_AHCI /\ stage = "data" THEN cmd
  ELSE NoJob

Sectors == INSTANCE SectorStore WITH applied <- Applied, late <- LateWrite

(* A call that succeeds did what it was asked, with either backend, and no *)
(* write of a call that was given up lands after a later call's success,   *)
(* provided the first call after a failure is a read.                      *)
StoreSpec == Sectors!Spec

(* A device that has stopped on an error is never taken to have done what  *)
(* it was asked.  Since no code restarts it, every later call fails.       *)
FailStop == [][ERR => result'.said # "ok" \/ UNCHANGED result]_vars
=============================================================================
