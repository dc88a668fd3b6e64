----------------------------- MODULE DiskProofs -----------------------------
(***************************************************************************)
(* Proofs about the disk driver, for every set of sectors and contents and *)
(* with both backends: its types, that nothing is taken for done once the  *)
(* device has stopped on an error, and that it keeps the promise of module *)
(* SectorStore when no write follows a call that failed.                   *)
(***************************************************************************)
EXTENDS Disk, TLAPS

----------------------------------------------------------------------------
(* The invariant.                                                          *)

AhciPc == {"idle", "copy_in", "ready", "issue", "port_wait", "copy_out"}
PioPc == {"idle", "wait_ready", "select", "wait_drq", "transfer", "wait_end"}
Command == [op : {"read", "write"}, lba : Sector, data : Data \cup {NoData}]

Writing == job # NoJob /\ job.op = "write"
Reading == job # NoJob /\ job.op = "read"

Types ==
  /\ USE_AHCI \in BOOLEAN /\ CI \in BOOLEAN /\ BSY \in BOOLEAN /\ DRQ \in BOOLEAN /\ ERR \in BOOLEAN
  /\ SECTOR_BUF \in Data
  /\ pc \in Pc
  /\ job \in Job \cup {NoJob}
  /\ pc = "idle" <=> job = NoJob
  /\ disk \in [Sector -> Data]
  /\ cmd \in Command \cup {NoJob}
  /\ BSY => cmd # NoJob
  /\ stage \in {"command", "data", "done"}

(* The AHCI device is busy only with CI set, and never clears CI after an  *)
(* error; while the driver polls, the device has the driver's command, and *)
(* once it is done with a read the buffer holds the sector.                *)
AhciOK == USE_AHCI =>
  /\ pc \in AhciPc
  /\ stage # "data"
  /\ BSY => CI
  /\ ERR => CI /\ ~BSY
  /\ pc = "copy_in" => Writing
  /\ pc = "issue" => ~BSY
  /\ pc = "port_wait" => cmd = job /\ (stage = "command" => CI)
  /\ pc = "port_wait" /\ Reading /\ stage = "done" => SECTOR_BUF = disk[job.lba]
  /\ pc = "copy_out" => ~CI /\ Reading /\ SECTOR_BUF = disk[job.lba]

(* The PIO device has the driver's command from the moment it is given it, *)
(* without the data of a write until that is transferred; data has been    *)
(* stored once the device is neither busy nor in error.                    *)
PioOK == ~USE_AHCI =>
  /\ pc \in PioPc
  /\ DRQ => ~BSY
  /\ pc \in {"wait_drq", "transfer"} => cmd = [job EXCEPT !.data = NoData] /\ stage # "data"
  /\ pc = "transfer" => DRQ /\ ~ERR
  /\ pc = "wait_end" =>
       /\ Writing /\ cmd = job
       /\ stage # "command"
       /\ ~ERR /\ ~BSY => stage = "done"
  /\ stage = "data" => cmd \in Job /\ cmd.op = "write"

DriverInv == Types /\ AhciOK /\ PioOK

(* A write finds the AHCI device idle, since the call before it did not    *)
(* fail, and so nothing changes the buffer once the write has filled it.   *)
BufferOK == USE_AHCI =>
  /\ pc = "idle" /\ result.said # "error" => ~BSY
  /\ pc \in {"copy_in", "ready", "issue"} /\ Writing => ~BSY
  /\ pc \in {"ready", "issue", "port_wait"} /\ Writing => SECTOR_BUF = job.data

----------------------------------------------------------------------------
(* Commands.                                                               *)

LEMMA JobIs ==
  ASSUME NEW o \in Job
  PROVE  /\ o # NoJob /\ o \in Command /\ o.op \in {"read", "write"} /\ o.lba \in Sector
         /\ o.op = "write" => o.data \in Data
         /\ o.op = "read" => o.data = NoData
         /\ [o EXCEPT !.data = NoData] \in Command
         /\ [o EXCEPT !.data = NoData].op = o.op
         /\ [o EXCEPT !.data = NoData].lba = o.lba
<1>1. o \in Command /\ o.op \in {"read", "write"} /\ o.lba \in Sector
  BY DEF Job, Command
<1>2. o # NoJob
  BY <1>1, DiskAssumption DEF Command
<1>3. (o.op = "write" => o.data \in Data) /\ (o.op = "read" => o.data = NoData)
  BY DEF Job
<1>4. /\ [o EXCEPT !.data = NoData] \in Command
      /\ [o EXCEPT !.data = NoData].op = o.op
      /\ [o EXCEPT !.data = NoData].lba = o.lba
  BY <1>1 DEF Command
<1> QED
  BY <1>1, <1>2, <1>3, <1>4

LEMMA CommandIs ==
  ASSUME NEW c \in Command
  PROVE  c # NoJob /\ c.op \in {"read", "write"} /\ c.lba \in Sector
BY DiskAssumption DEF Command

(* A write command that is given its data is the write that was asked for. *)
LEMMA DataIn ==
  ASSUME NEW o \in Job, o.op = "write"
  PROVE  /\ [[o EXCEPT !.data = NoData] EXCEPT !.data = o.data] = o
         /\ [o EXCEPT !.data = o.data] = o
BY DEF Job

LEMMA WriteCommand ==
  ASSUME NEW c \in Command, c.op = "write", NEW d \in Data
  PROVE  /\ [c EXCEPT !.data = d] \in Job
         /\ [c EXCEPT !.data = d].op = "write"
         /\ [c EXCEPT !.data = d].lba = c.lba
         /\ [c EXCEPT !.data = d].data = d
BY DEF Job, Command

----------------------------------------------------------------------------
(* The invariant holds at first and is kept by every step.                 *)

LEMMA InitInv == Init => DriverInv /\ BufferOK
<1> SUFFICES ASSUME Init PROVE DriverInv /\ BufferOK
  OBVIOUS
<1>1. Types
  BY DEF Init, Types, Pc
<1>2. AhciOK
  BY DEF Init, AhciOK, AhciPc
<1>3. PioOK
  BY DEF Init, PioOK, PioPc
<1>4. BufferOK
  BY DEF Init, BufferOK, Writing
<1> QED
  BY <1>1, <1>2, <1>3, <1>4 DEF DriverInv

LEMMA CallInv ==
  ASSUME DriverInv, NEW o \in Job, Call(o)
  PROVE  DriverInv' /\ (BufferOK /\ ~WritesFirst => BufferOK')
<1>1. /\ pc = "idle" /\ job' = o /\ o # NoJob /\ o.op \in {"read", "write"}
      /\ pc' = IF ~USE_AHCI THEN "wait_ready" ELSE IF o.op = "write" THEN "copy_in" ELSE "ready"
      /\ o.op = "write" /\ result.said = "error" => WritesFirst
      /\ UNCHANGED <<USE_AHCI, SECTOR_BUF, CI, BSY, DRQ, ERR, disk, cmd, stage>>
  BY JobIs DEF Call, device
<1>2. Types'
  BY <1>1 DEF DriverInv, Types, Pc
<1>3. AhciOK'
  BY <1>1 DEF DriverInv, AhciOK, AhciPc, Writing, Reading
<1>4. PioOK'
  BY <1>1 DEF DriverInv, PioOK, PioPc, Writing
<1>5. BufferOK /\ ~WritesFirst => BufferOK'
  BY <1>1 DEF BufferOK, Writing
<1> QED
  BY <1>2, <1>3, <1>4, <1>5 DEF DriverInv

LEMMA DriverStepInv ==
  ASSUME DriverInv,
         CopyIn \/ Ready \/ Issue \/ PortWait \/ CopyOut
  PROVE  DriverInv' /\ (BufferOK => BufferOK')
<1> USE DEF DriverInv
<1>1. CASE CopyIn
  <2>1. USE_AHCI /\ Writing /\ job \in Job /\ job.data \in Data
    BY <1>1, JobIs DEF CopyIn, Types, PioOK, PioPc, AhciOK, Writing
  <2>2. Types'
    BY <1>1, <2>1 DEF CopyIn, Types, Pc, Goto, device
  <2>3. AhciOK'
    BY <1>1, <2>1 DEF CopyIn, Types, AhciOK, AhciPc, Goto, device, Writing, Reading
  <2>4. PioOK'
    BY <1>1, <2>1 DEF CopyIn, PioOK, Goto, device
  <2>5. BufferOK => BufferOK'
    BY <1>1, <2>1 DEF CopyIn, BufferOK, Goto, device, Writing
  <2> QED
    BY <2>2, <2>3, <2>4, <2>5
<1>2. CASE Ready
  <2>1. USE_AHCI
    BY <1>2 DEF Ready, PioOK, PioPc
  <2>2. Types'
    BY <1>2, <2>1 DEF Ready, Types, Pc, Goto, Fails, Return, device
  <2>3. AhciOK'
    BY <1>2, <2>1 DEF Ready, Types, AhciOK, AhciPc, Goto, Fails, Return, device, Writing, Reading
  <2>4. PioOK'
    BY <1>2, <2>1 DEF Ready, PioOK, device
  <2>5. BufferOK => BufferOK'
    BY <1>2, <2>1 DEF Ready, BufferOK, Goto, Fails, Return, Says, device, Writing
  <2> QED
    BY <2>2, <2>3, <2>4, <2>5
<1>3. CASE Issue
  <2>1. USE_AHCI /\ ~BSY /\ job \in Job /\ job \in Command /\ job # NoJob
    BY <1>3, JobIs DEF Issue, PioOK, PioPc, AhciOK, Types
  <2>2. Types'
    BY <1>3, <2>1 DEF Issue, Types, Pc, Goto
  <2>3. AhciOK'
    BY <1>3, <2>1 DEF Issue, Types, AhciOK, AhciPc, Goto, Writing, Reading
  <2>4. PioOK'
    BY <1>3, <2>1 DEF Issue, PioOK
  <2>5. BufferOK => BufferOK'
    BY <1>3, <2>1 DEF Issue, BufferOK, Goto, Writing
  <2> QED
    BY <2>2, <2>3, <2>4, <2>5
<1>4. CASE PortWait
  <2>1. USE_AHCI /\ job \in Job /\ job # NoJob /\ job.op \in {"read", "write"}
    BY <1>4, JobIs DEF PortWait, PioOK, PioPc, Types
  <2>2. Types'
    BY <1>4, <2>1 DEF PortWait, Types, Pc, Goto, Fails, Return, device
  <2>3. AhciOK'
    BY <1>4, <2>1 DEF PortWait, Types, AhciOK, AhciPc, Goto, Fails, Return, device, Writing, Reading
  <2>4. PioOK'
    BY <1>4, <2>1 DEF PortWait, PioOK, device
  <2>5. BufferOK => BufferOK'
    BY <1>4, <2>1 DEF PortWait, AhciOK, BufferOK, Goto, Fails, Return, Says, device, Writing
  <2> QED
    BY <2>2, <2>3, <2>4, <2>5
<1>5. CASE CopyOut
  <2>1. USE_AHCI
    BY <1>5 DEF CopyOut, PioOK, PioPc
  <2>2. Types'
    BY <1>5, <2>1 DEF CopyOut, Types, Pc, Return, device
  <2>3. AhciOK'
    BY <1>5, <2>1 DEF CopyOut, AhciOK, AhciPc, Return, device
  <2>4. PioOK'
    BY <1>5, <2>1 DEF CopyOut, PioOK, device
  <2>5. BufferOK => BufferOK'
    BY <1>5, <2>1 DEF CopyOut, AhciOK, BufferOK, Return, device, Writing
  <2> QED
    BY <2>2, <2>3, <2>4, <2>5
<1> QED
  BY <1>1, <1>2, <1>3, <1>4, <1>5

LEMMA AhciDeviceInv ==
  ASSUME DriverInv, Dma \/ Complete
  PROVE  DriverInv' /\ (BufferOK => BufferOK')
<1> USE DEF DriverInv
<1>1. CASE Dma
  <2>1. /\ USE_AHCI /\ BSY /\ stage = "command" /\ stage' = "done"
        /\ UNCHANGED <<USE_AHCI, pc, job, result, CI, BSY, DRQ, ERR, cmd>>
        /\ cmd \in Command /\ cmd.op \in {"read", "write"} /\ cmd.lba \in Sector
    BY <1>1, CommandIs DEF Dma, Types
  <2>2. CASE cmd.op = "read"
    <3>1. SECTOR_BUF' = disk[cmd.lba] /\ disk' = disk
      BY <1>1, <2>2 DEF Dma
    <3>2. Types'
      BY <2>1, <3>1 DEF Types
    <3>3. AhciOK'
      BY <2>1, <2>2, <3>1 DEF AhciOK, Writing, Reading
    <3>4. PioOK'
      BY <2>1 DEF PioOK
    <3>5. BufferOK => BufferOK'
      BY <2>1, <2>2, <3>1 DEF AhciOK, BufferOK, Writing
    <3> QED
      BY <3>2, <3>3, <3>4, <3>5
  <2>3. CASE cmd.op = "write"
    <3>1. disk' = [disk EXCEPT ![cmd.lba] = SECTOR_BUF] /\ SECTOR_BUF' = SECTOR_BUF
      BY <1>1, <2>3 DEF Dma
    <3>2. Types'
      BY <2>1, <3>1 DEF Types
    <3>3. AhciOK'
      BY <2>1, <2>3, <3>1 DEF AhciOK, Writing, Reading
    <3>4. PioOK'
      BY <2>1 DEF PioOK
    <3>5. BufferOK => BufferOK'
      BY <2>1, <3>1 DEF BufferOK, Writing
    <3> QED
      BY <3>2, <3>3, <3>4, <3>5
  <2> QED
    BY <2>1, <2>2, <2>3
<1>2. CASE Complete
  <2>1. Types'
    BY <1>2 DEF Complete, Types
  <2>2. AhciOK'
    BY <1>2 DEF Complete, AhciOK, Writing, Reading
  <2>3. PioOK'
    BY <1>2 DEF Complete, PioOK
  <2>4. BufferOK => BufferOK'
    BY <1>2 DEF Complete, BufferOK, Writing
  <2> QED
    BY <2>1, <2>2, <2>3, <2>4
<1> QED
  BY <1>1, <1>2

LEMMA PioStepInv ==
  ASSUME DriverInv,
         PioWaitReady \/ PioCommand \/ PioWaitDrq \/ PioReadData \/ PioWriteData
  PROVE  DriverInv' /\ (BufferOK => BufferOK')
<1> USE DEF DriverInv
<1>1. /\ ~USE_AHCI /\ ~USE_AHCI' /\ job \in Job /\ job # NoJob
      /\ job.op \in {"read", "write"}
      /\ [job EXCEPT !.data = NoData] \in Command
      /\ [job EXCEPT !.data = NoData] # NoJob
  <2>1. pc \in {"wait_ready", "wait_end", "select", "wait_drq", "transfer"} /\ USE_AHCI' = USE_AHCI
    BY DEF PioWaitReady, PioCommand, PioWaitDrq, PioReadData, PioWriteData
  <2>2. ~USE_AHCI /\ job \in Job
    BY <2>1 DEF AhciOK, AhciPc, Types
  <2> QED
    BY <2>1, <2>2, JobIs, CommandIs
<1>2. AhciOK' /\ BufferOK'
  BY <1>1 DEF AhciOK, BufferOK
<1>3. CASE PioWaitReady
  <2>1. Types'
    BY <1>1, <1>3 DEF PioWaitReady, Types, Pc, Goto, Fails, Return, device
  <2>2. PioOK'
    BY <1>1, <1>3 DEF PioWaitReady, PioOK, PioPc, Goto, Fails, Return, device
  <2> QED
    BY <1>2, <2>1, <2>2
<1>4. CASE PioCommand
  <2>1. Types'
    BY <1>1, <1>4 DEF PioCommand, Types, Pc, Goto
  <2>2. PioOK'
    BY <1>1, <1>4 DEF PioCommand, PioOK, PioPc, Goto
  <2> QED
    BY <1>2, <2>1, <2>2
<1>5. CASE PioWaitDrq
  <2>1. Types'
    BY <1>1, <1>5 DEF PioWaitDrq, Types, Pc, Goto, Fails, Return, device
  <2>2. PioOK'
    BY <1>1, <1>5 DEF PioWaitDrq, PioOK, PioPc, Goto, Fails, Return, device
  <2> QED
    BY <1>2, <2>1, <2>2
<1>6. CASE PioReadData
  <2>1. Types'
    BY <1>1, <1>6 DEF PioReadData, Types, Pc, Return
  <2>2. PioOK'
    BY <1>1, <1>6 DEF PioReadData, PioOK, PioPc, Return
  <2> QED
    BY <1>2, <2>1, <2>2
<1>7. CASE PioWriteData
  <2>1. cmd' = job /\ job \in Command /\ Writing
    BY <1>1, <1>7, JobIs, DataIn DEF PioWriteData, PioOK, Writing
  <2>2. Types'
    BY <1>1, <1>7, <2>1 DEF PioWriteData, Types, Pc, Goto
  <2>3. PioOK'
    BY <1>1, <1>7, <2>1 DEF PioWriteData, PioOK, PioPc, Goto, Writing
  <2> QED
    BY <1>2, <2>2, <2>3
<1> QED
  BY <1>3, <1>4, <1>5, <1>6, <1>7

LEMMA PioDeviceInv ==
  ASSUME DriverInv, Respond \/ Store
  PROVE  DriverInv' /\ (BufferOK => BufferOK')
<1> USE DEF DriverInv
<1>1. AhciOK' /\ BufferOK'
  BY DEF Respond, Store, AhciOK, BufferOK
<1>2. CASE Respond
  <2>1. Types'
    BY <1>2 DEF Respond, Types
  <2>2. PioOK'
    BY <1>2 DEF Respond, PioOK, Writing
  <2> QED
    BY <1>1, <2>1, <2>2
<1>3. CASE Store
  <2>1. cmd \in Job /\ cmd.op = "write" /\ cmd.lba \in Sector /\ cmd.data \in Data
    BY <1>3, JobIs DEF Store, PioOK
  <2>2. Types'
    BY <1>3, <2>1 DEF Store, Types
  <2>3. PioOK'
    BY <1>3 DEF Store, PioOK, Writing
  <2> QED
    BY <1>1, <2>2, <2>3
<1> QED
  BY <1>2, <1>3

LEMMA DeviceErrorInv ==
  ASSUME DriverInv, DeviceError
  PROVE  DriverInv' /\ (BufferOK => BufferOK')
<1>1. Types'
  BY DEF DriverInv, DeviceError, Types
<1>2. AhciOK'
  BY DEF DriverInv, DeviceError, AhciOK, Writing, Reading
<1>3. PioOK'
  BY DEF DriverInv, DeviceError, PioOK, Writing
<1>4. BufferOK => BufferOK'
  BY DEF DeviceError, BufferOK, Writing
<1> QED
  BY <1>1, <1>2, <1>3, <1>4 DEF DriverInv

LEMMA NothingInv ==
  ASSUME DriverInv, UNCHANGED vars
  PROVE  DriverInv' /\ (BufferOK => BufferOK')
BY DEF DriverInv, Types, AhciOK, PioOK, BufferOK, Writing, Reading, vars, device

(* The invariant of every run.                                             *)
THEOREM Invariance == Spec => []DriverInv
<1>1. DriverInv /\ [Next]_vars => DriverInv'
  BY CallInv, DriverStepInv, AhciDeviceInv, PioStepInv, PioDeviceInv, DeviceErrorInv, NothingInv DEF Next
<1> QED
  BY <1>1, InitInv, PTL DEF Spec

(* The bits and the buffer the driver and the device share keep their      *)
(* types, a call is in progress exactly when the driver is, and a busy     *)
(* device has a command (ata.rs and ahci.rs).                              *)
THEOREM TypeCorrect == Spec => []TypeOK
<1>1. DriverInv => TypeOK
  BY DEF DriverInv, Types, TypeOK
<1> QED
  BY <1>1, Invariance, PTL

----------------------------------------------------------------------------
(* An error stops everything.                                              *)

(* While the device is stopped on an error no call is told it succeeded:   *)
(* with AHCI the command bit stays set, with PIO every wait looks at the   *)
(* error bit before the call goes on.                                      *)
THEOREM StopsOnError == Spec => FailStop
<1>1. DriverInv /\ [Next]_vars => [ERR => result'.said # "ok" \/ UNCHANGED result]_vars
  <2> SUFFICES ASSUME DriverInv, [Next]_vars, ERR, ~UNCHANGED result
               PROVE  result'.said # "ok"
    OBVIOUS
  <2>1. ASSUME NEW o \in Job, Call(o) PROVE result'.said # "ok"
    BY <2>1 DEF Call, Says
  <2>2. CASE Ready
    BY <2>2 DEF Ready, Goto, Fails, Return, Says
  <2>3. CASE PortWait
    <3>1. USE_AHCI
      BY <2>3 DEF PortWait, DriverInv, PioOK, PioPc
    <3>2. CI
      BY <3>1 DEF DriverInv, AhciOK
    <3> QED
      BY <2>3, <3>2 DEF PortWait, Fails, Return, Says
  <2>4. CASE CopyOut
    <3>1. USE_AHCI
      BY <2>4 DEF CopyOut, DriverInv, PioOK, PioPc
    <3> QED
      BY <2>4, <3>1 DEF CopyOut, DriverInv, AhciOK
  <2>5. CASE PioWaitReady
    BY <2>5 DEF PioWaitReady, Fails, Return, Says
  <2>6. CASE PioWaitDrq
    BY <2>6 DEF PioWaitDrq, Fails, Return, Says
  <2>7. CASE PioReadData
    <3>1. ~USE_AHCI
      BY <2>7 DEF PioReadData, DriverInv, AhciOK, AhciPc
    <3> QED
      BY <2>7, <3>1 DEF PioReadData, DriverInv, PioOK
  <2>8. CASE CopyIn \/ Issue \/ Dma \/ Complete \/ PioCommand \/ PioWriteData \/ Respond \/ Store
             \/ DeviceError \/ UNCHANGED vars
    BY <2>8 DEF CopyIn, Issue, Dma, Complete, PioCommand, PioWriteData, Respond, Store,
                DeviceError, vars, Goto
  <2> QED
    BY <2>1, <2>2, <2>3, <2>4, <2>5, <2>6, <2>7, <2>8 DEF Next
<1> QED
  BY <1>1, Invariance, PTL DEF Spec, FailStop

----------------------------------------------------------------------------
(* The driver keeps the promise of SectorStore.                            *)

(* What the steps that change nothing the file system can see leave alone. *)
LEMMA Unseen ==
  ASSUME UNCHANGED <<disk, job, result>>, Applied' = Applied, LateWrite' = LateWrite
  PROVE  UNCHANGED Sectors!vars
BY DEF Sectors!vars

LEMMA InitRefines == Init => Sectors!Init
BY DEF Init, Sectors!Init, Applied, LateWrite, Says

LEMMA CallRefines ==
  ASSUME DriverInv, NEW o \in Job, Call(o)
  PROVE  Sectors!Next
<1>1. /\ pc = "idle" /\ job = NoJob /\ job' = o /\ result' = Says("none", NoData)
      /\ pc' \in {"wait_ready", "copy_in", "ready"}
      /\ UNCHANGED <<USE_AHCI, SECTOR_BUF, CI, BSY, DRQ, ERR, disk, cmd, stage>>
  BY DEF Call, DriverInv, Types, device
<1>2. ~Applied /\ ~Applied'
  BY <1>1 DEF Applied
<1>3. LateWrite' = LateWrite
  BY <1>1 DEF LateWrite, Own
<1>4. Sectors!Begin(o)
  BY <1>1, <1>2, <1>3 DEF Sectors!Begin, Says, Applied
<1>5. o \in Sectors!Job
  BY DEF Job, Sectors!Job
<1> QED
  BY <1>4, <1>5 DEF Sectors!Next

(* An error is an error, whether the write it was about has been carried   *)
(* out, is still with the device, or is lost.                              *)
LEMMA FailRefines ==
  ASSUME job # NoJob, Fails, disk' = disk,
         \/ LateWrite' = LateWrite
         \/ Writing /\ ~Applied /\ LateWrite = NoJob /\ LateWrite' = job
  PROVE  Sectors!Next
<1>1. ~Applied' /\ job' = NoJob /\ result' = Says("error", NoData)
  BY DEF Fails, Return, Applied
<1>2. Applied' = FALSE
  BY <1>1 DEF Applied
<1>3. Sectors!ReturnError
  BY <1>1, <1>2 DEF Sectors!ReturnError, Says, Writing
<1> QED
  BY <1>3 DEF Sectors!Next

LEMMA AhciRefines ==
  ASSUME DriverInv, BufferOK,
         CopyIn \/ Ready \/ Issue \/ PortWait \/ CopyOut
  PROVE  Sectors!Next \/ UNCHANGED Sectors!vars
<1>1. CASE CopyIn
  <2>1. USE_AHCI /\ Writing /\ ~BSY
    BY <1>1 DEF CopyIn, DriverInv, PioOK, PioPc, AhciOK, BufferOK
  <2>2. Applied' = Applied /\ LateWrite' = LateWrite /\ UNCHANGED <<disk, job, result>>
    BY <1>1, <2>1 DEF CopyIn, Goto, Applied, LateWrite, device
  <2> QED
    BY <2>2, Unseen
<1>2. CASE Ready
  <2>1. job # NoJob
    BY <1>2 DEF Ready, DriverInv, Types
  <2>2. CASE BSY \/ DRQ
    <3>1. LateWrite' = LateWrite /\ Fails /\ disk' = disk
      BY <1>2, <2>2 DEF Ready, Fails, Return, LateWrite, Own, device
    <3> QED
      BY <2>1, <3>1, FailRefines
  <2>3. CASE ~(BSY \/ DRQ)
    <3>1. Applied' = Applied /\ LateWrite' = LateWrite /\ UNCHANGED <<disk, job, result>>
      BY <1>2, <2>3 DEF Ready, Goto, Applied, LateWrite, Own, device
    <3> QED
      BY <3>1, Unseen
  <2> QED
    BY <2>2, <2>3
<1>3. CASE Issue
  <2>1. ~BSY
    BY <1>3 DEF Issue, DriverInv, AhciOK, PioOK, PioPc
  <2>2. Applied' = Applied /\ LateWrite' = LateWrite /\ UNCHANGED <<disk, job, result>>
    BY <1>3, <2>1 DEF Issue, Goto, Applied, LateWrite, Own
  <2> QED
    BY <2>2, Unseen
<1>4. CASE PortWait
  <2>1. /\ USE_AHCI /\ cmd = job /\ (stage = "command" => CI) /\ (BSY => CI)
        /\ job \in Job /\ job # NoJob /\ job.op \in {"read", "write"}
        /\ Writing => SECTOR_BUF = job.data
        /\ stage \in {"command", "done"}
        /\ Own /\ LateWrite = NoJob
    BY <1>4, JobIs DEF PortWait, DriverInv, PioOK, PioPc, AhciOK, BufferOK, Types, Own, LateWrite
  <2>2. CASE CI
    <3>1. Fails /\ disk' = disk /\ UNCHANGED <<USE_AHCI, SECTOR_BUF, BSY, cmd, stage>> /\ pc' = "idle"
      BY <1>4, <2>2 DEF PortWait, Fails, Return, device
    <3>2. CASE BSY /\ Writing /\ stage = "command"
      <4>1. [job EXCEPT !.data = SECTOR_BUF] = job
        BY <2>1, <3>2, DataIn DEF Writing
      <4>2. LateWrite' = job
        BY <2>1, <3>1, <3>2, <4>1 DEF LateWrite, Own, Writing
      <4>3. ~Applied
        BY <3>2 DEF Applied
      <4> QED
        BY <2>1, <3>1, <3>2, <4>2, <4>3, FailRefines
    <3>3. CASE ~(BSY /\ Writing /\ stage = "command")
      <4>1. LateWrite' = NoJob
        BY <2>1, <3>1, <3>3 DEF LateWrite, Own, Writing
      <4> QED
        BY <2>1, <3>1, <4>1, FailRefines
    <3> QED
      BY <3>2, <3>3
  <2>3. CASE ~CI /\ job.op = "read"
    <3>1. Applied' = Applied /\ LateWrite' = LateWrite /\ UNCHANGED <<disk, job, result>>
      BY <1>4, <2>1, <2>3 DEF PortWait, Goto, Applied, LateWrite, Own, device
    <3> QED
      BY <3>1, Unseen
  <2>4. CASE ~CI /\ job.op = "write"
    <3>1. Return(Says("ok", NoData)) /\ UNCHANGED device
      BY <1>4, <2>4 DEF PortWait
    <3>2. Applied /\ Applied' = FALSE
      BY <1>4, <2>1, <2>4, <3>1 DEF PortWait, Applied, Return
    <3>3. LateWrite' = NoJob
      BY <2>1, <2>4, <3>1 DEF LateWrite, device
    <3>4. Sectors!ReturnOk
      BY <2>1, <2>4, <3>1, <3>2, <3>3 DEF Sectors!ReturnOk, Return, Says, device
    <3> QED
      BY <3>4 DEF Sectors!Next
  <2> QED
    BY <2>1, <2>2, <2>3, <2>4
<1>5. CASE CopyOut
  <2>1. USE_AHCI /\ ~CI /\ ~BSY /\ Reading /\ SECTOR_BUF = disk[job.lba]
    BY <1>5 DEF CopyOut, DriverInv, PioOK, PioPc, AhciOK
  <2>2. LateWrite = NoJob /\ LateWrite' = NoJob /\ Applied' = FALSE
    BY <1>5, <2>1 DEF CopyOut, Return, LateWrite, Applied, device
  <2>3. Sectors!ReturnOk
    BY <1>5, <2>1, <2>2 DEF CopyOut, Sectors!ReturnOk, Return, Says, Reading, device
  <2> QED
    BY <2>3 DEF Sectors!Next
<1> QED
  BY <1>1, <1>2, <1>3, <1>4, <1>5

LEMMA AhciDeviceRefines ==
  ASSUME DriverInv, BufferOK, Dma \/ Complete
  PROVE  Sectors!Next \/ UNCHANGED Sectors!vars
<1>1. CASE Dma
  <2>1. /\ USE_AHCI /\ BSY /\ stage = "command" /\ stage' = "done"
        /\ UNCHANGED <<USE_AHCI, pc, job, result, CI, BSY, DRQ, ERR, cmd>>
        /\ cmd \in Command /\ cmd # NoJob /\ cmd.op \in {"read", "write"} /\ SECTOR_BUF \in Data
        /\ pc # "wait_end"
        /\ pc = "port_wait" <=> Own
        /\ Own => cmd = job /\ job \in Job /\ job # NoJob
        /\ Own /\ cmd.op = "write" => SECTOR_BUF = job.data
        /\ LateWrite' = NoJob /\ ~Applied
    BY <1>1, CommandIs DEF Dma, DriverInv, Types, AhciOK, AhciPc, Own, BufferOK, Writing, LateWrite, Applied
  <2>2. CASE cmd.op = "read"
    <3>1. LateWrite = NoJob
      BY <2>2 DEF LateWrite
    <3>2. Applied' = Applied
      BY <2>1, <2>2 DEF Applied, Own
    <3>3. disk' = disk
      BY <1>1, <2>2 DEF Dma
    <3> QED
      BY <2>1, <3>1, <3>2, <3>3, Unseen
  <2>3. CASE cmd.op = "write" /\ Own
    <3>1. disk' = [disk EXCEPT ![job.lba] = job.data]
      BY <1>1, <2>1, <2>3 DEF Dma
    <3>2. LateWrite = NoJob /\ Applied' = TRUE
      BY <2>1, <2>3 DEF LateWrite, Applied
    <3>3. Sectors!Apply
      BY <2>1, <2>3, <3>1, <3>2 DEF Sectors!Apply
    <3> QED
      BY <3>3 DEF Sectors!Next
  <2>4. CASE cmd.op = "write" /\ ~Own
    <3>1. LateWrite = [cmd EXCEPT !.data = SECTOR_BUF]
      BY <2>1, <2>4 DEF LateWrite
    <3>2. LateWrite \in Job /\ LateWrite.lba = cmd.lba /\ LateWrite.data = SECTOR_BUF
      BY <2>1, <2>4, <3>1, WriteCommand
    <3>3. LateWrite # NoJob
      BY <3>2, JobIs
    <3>4. disk' = [disk EXCEPT ![LateWrite.lba] = LateWrite.data]
      BY <1>1, <2>4, <3>2 DEF Dma
    <3>5. Applied' = Applied
      BY <2>1, <2>4 DEF Applied
    <3>6. Sectors!Late
      BY <2>1, <3>3, <3>4, <3>5 DEF Sectors!Late
    <3> QED
      BY <3>6 DEF Sectors!Next
  <2> QED
    BY <2>1, <2>2, <2>3, <2>4
<1>2. CASE Complete
  <2>1. LateWrite = NoJob /\ LateWrite' = NoJob
    BY <1>2 DEF Complete, LateWrite
  <2>2. Applied' = Applied /\ UNCHANGED <<disk, job, result>>
    BY <1>2 DEF Complete, Applied
  <2> QED
    BY <2>1, <2>2, Unseen
<1> QED
  BY <1>1, <1>2

LEMMA PioRefines ==
  ASSUME DriverInv,
         PioWaitReady \/ PioCommand \/ PioWaitDrq \/ PioReadData \/ PioWriteData
  PROVE  Sectors!Next \/ UNCHANGED Sectors!vars
<1>1. /\ ~USE_AHCI /\ ~USE_AHCI' /\ job \in Job /\ job # NoJob
      /\ job.op \in {"read", "write"}
      /\ [job EXCEPT !.data = NoData].lba = job.lba
  <2>1. pc \in {"wait_ready", "wait_end", "select", "wait_drq", "transfer"} /\ USE_AHCI' = USE_AHCI
    BY DEF PioWaitReady, PioCommand, PioWaitDrq, PioReadData, PioWriteData
  <2>2. ~USE_AHCI /\ job \in Job
    BY <2>1 DEF DriverInv, AhciOK, AhciPc, Types
  <2> QED
    BY <2>1, <2>2, JobIs
<1>2. CASE PioWaitReady /\ pc = "wait_ready"
  <2>1. CASE ERR \/ BSY
    <3>1. Fails /\ disk' = disk /\ LateWrite' = LateWrite
      BY <1>2, <2>1 DEF PioWaitReady, Fails, Return, LateWrite, Own, device
    <3> QED
      BY <1>1, <3>1, FailRefines
  <2>2. CASE ~(ERR \/ BSY)
    <3>1. UNCHANGED <<disk, job, result>> /\ Applied' = Applied /\ LateWrite' = LateWrite
      BY <1>2, <2>2 DEF PioWaitReady, Goto, Applied, LateWrite, Own, device
    <3> QED
      BY <3>1, Unseen
  <2> QED
    BY <2>1, <2>2
<1>3. CASE PioWaitReady /\ pc = "wait_end"
  <2>1. /\ Writing /\ cmd = job /\ stage # "command" /\ (~ERR /\ ~BSY => stage = "done")
        /\ LateWrite = NoJob /\ UNCHANGED <<USE_AHCI, BSY, cmd, stage, disk>>
        /\ stage \in {"data", "done"}
    BY <1>1, <1>3 DEF DriverInv, Types, PioOK, LateWrite, Own, PioWaitReady, device
  <2>2. CASE ERR \/ BSY
    <3>1. Fails /\ pc' = "idle"
      BY <1>3, <2>2 DEF PioWaitReady, Fails, Return
    <3>2. CASE BSY /\ stage = "data"
      <4>1. LateWrite' = job /\ ~Applied
        BY <1>1, <2>1, <3>1, <3>2 DEF LateWrite, Own, Writing, Applied
      <4> QED
        BY <1>1, <2>1, <3>1, <4>1, FailRefines
    <3>3. CASE ~(BSY /\ stage = "data")
      <4>1. LateWrite' = NoJob
        BY <1>1, <2>1, <3>1, <3>3 DEF LateWrite, Own
      <4> QED
        BY <1>1, <2>1, <3>1, <4>1, FailRefines
    <3> QED
      BY <3>2, <3>3
  <2>3. CASE ~(ERR \/ BSY)
    <3>1. Return(Says("ok", NoData))
      BY <1>3, <2>3 DEF PioWaitReady
    <3>2. Applied /\ Applied' = FALSE
      BY <1>3, <2>1, <2>3, <3>1 DEF Applied, Writing, Return
    <3>3. LateWrite' = NoJob
      BY <2>1, <2>3 DEF LateWrite
    <3>4. Sectors!ReturnOk
      BY <2>1, <3>1, <3>2, <3>3 DEF Sectors!ReturnOk, Return, Says, Writing
    <3> QED
      BY <3>4 DEF Sectors!Next
  <2> QED
    BY <2>2, <2>3
<1>4. CASE PioCommand
  <2>1. LateWrite' = NoJob /\ Applied' = Applied /\ UNCHANGED <<disk, job, result>>
    BY <1>1, <1>4 DEF PioCommand, Goto, LateWrite, Own, Applied
  <2>2. Sectors!Drop
    BY <2>1 DEF Sectors!Drop
  <2> QED
    BY <2>2 DEF Sectors!Next
<1>5. CASE PioWaitDrq
  <2>1. /\ stage # "data" /\ LateWrite = NoJob
        /\ UNCHANGED <<USE_AHCI, BSY, cmd, stage, disk>>
    BY <1>1, <1>5 DEF DriverInv, PioOK, LateWrite, Own, PioWaitDrq, device
  <2>2. LateWrite' = NoJob
    BY <1>1, <2>1 DEF LateWrite
  <2>3. CASE Fails
    BY <1>1, <2>1, <2>2, <2>3, FailRefines
  <2>4. CASE ~Fails
    <3>1. UNCHANGED <<job, result>> /\ Applied' = Applied
      BY <1>5, <2>4 DEF PioWaitDrq, Goto, Applied
    <3> QED
      BY <2>1, <2>2, <3>1, Unseen
  <2> QED
    BY <2>3, <2>4
<1>6. CASE PioReadData
  <2>1. cmd.lba = job.lba /\ job.op = "read" /\ ~BSY
    BY <1>1, <1>6 DEF DriverInv, PioOK, PioReadData
  <2>2. LateWrite = NoJob /\ LateWrite' = NoJob /\ Applied' = FALSE
    BY <1>6, <2>1 DEF PioReadData, Return, LateWrite, Applied
  <2>3. Sectors!ReturnOk
    BY <1>1, <1>6, <2>1, <2>2 DEF PioReadData, Sectors!ReturnOk, Return, Says
  <2> QED
    BY <2>3 DEF Sectors!Next
<1>7. CASE PioWriteData
  <2>1. LateWrite = NoJob /\ LateWrite' = NoJob
    BY <1>7 DEF PioWriteData, LateWrite, Own, Goto
  <2>2. Applied' = Applied /\ UNCHANGED <<disk, job, result>>
    BY <1>7 DEF PioWriteData, Applied, Goto
  <2> QED
    BY <2>1, <2>2, Unseen
<1> QED
  BY <1>2, <1>3, <1>4, <1>5, <1>6, <1>7 DEF PioWaitReady

LEMMA PioDeviceRefines ==
  ASSUME DriverInv, Respond \/ Store
  PROVE  Sectors!Next \/ UNCHANGED Sectors!vars
<1>1. ~USE_AHCI /\ pc \in PioPc /\ USE_AHCI' = USE_AHCI /\ pc' = pc /\ BSY
  BY DEF Respond, Store, DriverInv, PioOK
<1>2. CASE Respond
  <2>1. pc # "wait_end" /\ pc # "port_wait"
    BY <1>1, <1>2 DEF Respond, DriverInv, PioOK, PioPc
  <2>2. Applied' = Applied
    BY <1>1, <2>1 DEF Applied
  <2>3. LateWrite = NoJob /\ LateWrite' = NoJob /\ UNCHANGED <<disk, job, result>>
    BY <1>1, <1>2 DEF Respond, LateWrite
  <2> QED
    BY <2>2, <2>3, Unseen
<1>3. CASE Store
  <2>1. /\ stage = "data" /\ stage' = "done" /\ BSY' = FALSE
        /\ disk' = [disk EXCEPT ![cmd.lba] = cmd.data]
        /\ UNCHANGED <<job, result, cmd>>
        /\ cmd \in Job /\ cmd # NoJob /\ cmd.op = "write"
        /\ LateWrite' = NoJob
        /\ ~Applied
    BY <1>3, JobIs DEF Store, DriverInv, PioOK, LateWrite, Applied
  <2>2. CASE Own
    <3>1. pc = "wait_end" /\ Writing /\ cmd = job
      BY <1>1, <2>1, <2>2 DEF Own, PioPc, DriverInv, PioOK
    <3>2. LateWrite = NoJob /\ Applied' = TRUE
      BY <1>1, <2>1, <2>2, <3>1 DEF LateWrite, Applied, Writing
    <3>3. Sectors!Apply
      BY <2>1, <3>1, <3>2 DEF Sectors!Apply, Writing
    <3> QED
      BY <3>3 DEF Sectors!Next
  <2>3. CASE ~Own
    <3>1. LateWrite = cmd
      BY <1>1, <2>1, <2>3 DEF LateWrite
    <3>2. Applied' = Applied
      BY <1>1, <2>1, <2>3 DEF Applied, Own
    <3>3. Sectors!Late
      BY <2>1, <3>1, <3>2 DEF Sectors!Late
    <3> QED
      BY <3>3 DEF Sectors!Next
  <2> QED
    BY <2>2, <2>3
<1> QED
  BY <1>2, <1>3

(* A device in error carries out nothing any more.                         *)
LEMMA DeviceErrorRefines ==
  ASSUME DeviceError
  PROVE  Sectors!Next
<1>1. LateWrite' = NoJob
  BY DEF DeviceError, LateWrite
<1>2. Applied' = Applied /\ UNCHANGED <<disk, job, result>>
  BY DEF DeviceError, Applied
<1>3. Sectors!Drop
  BY <1>1, <1>2 DEF Sectors!Drop
<1> QED
  BY <1>3 DEF Sectors!Next

LEMMA NothingRefines ==
  ASSUME UNCHANGED vars
  PROVE  UNCHANGED Sectors!vars
<1>1. UNCHANGED <<disk, job, result>> /\ Applied' = Applied /\ LateWrite' = LateWrite
  BY DEF vars, device, Applied, LateWrite, Own
<1> QED
  BY <1>1, Unseen

(* With either backend, a call that returns without an error did what it   *)
(* was asked, and the write of a call that was given up lands before the   *)
(* next success or never, as long as the first call after a failure is a   *)
(* read: the file system's always is, FORMAT's is not.                     *)
THEOREM KeepsPromise == ASSUME ~WritesFirst PROVE Spec => StoreSpec
<1>1. DriverInv /\ BufferOK /\ [Next]_vars => DriverInv' /\ BufferOK'
  BY CallInv, DriverStepInv, AhciDeviceInv, PioStepInv, PioDeviceInv, DeviceErrorInv, NothingInv DEF Next
<1>2. DriverInv /\ BufferOK /\ [Next]_vars => [Sectors!Next]_(Sectors!vars)
  BY CallRefines, AhciRefines, AhciDeviceRefines, PioRefines, PioDeviceRefines, DeviceErrorRefines,
     NothingRefines DEF Next
<1> QED
  BY <1>1, <1>2, InitInv, InitRefines, PTL DEF Spec, StoreSpec, Sectors!Spec
=============================================================================
