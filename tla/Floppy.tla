------------------------------- MODULE Floppy -------------------------------
(***************************************************************************)
(* The driver of the 82077AA floppy disk controller (driver/fdc): start    *)
(* resets the controller, recalibrates and detects the drives; read spins  *)
(* the motor up and transfers sectors without DMA.  The driver waits by    *)
(* looking at the clock (sleepms.c); its interrupt service routine only    *)
(* sets irqRecv.  Between any two accesses to the controller time passes,  *)
(* and the controller goes on.                                             *)
(*                                                                         *)
(* The controller is modelled from how the driver uses it.  A command is   *)
(* written whole or refused (OPSTATUS_NOT_READY, once pushData has tried   *)
(* FDC_COMMAND_PHASE_RETRY_COUNT times).  A chunk is what fills the FIFO   *)
(* to the threshold the driver has set (8 of its 16 bytes), at which the   *)
(* controller interrupts; it is pulled as one.  CHUNKS make a sector.      *)
(***************************************************************************)
EXTENDS Timer, Sequences, FiniteSets

CONSTANTS
  FDC_FDD_SUPPORT_COUNT,  \* drives the driver supports
  CYLINDERS,              \* of a disk
  HEADS,                  \* of a drive
  TRACK,                  \* sectors of a track
  CHUNKS,                 \* chunks of a sector
  FDC_IRQDELAY_DEFAULT,   \* ms an interrupt is waited for
  SPIN_UP                 \* ms a motor needs

ASSUME FloppyAssumption ==
  {FDC_FDD_SUPPORT_COUNT, CYLINDERS, HEADS, TRACK, CHUNKS,
   FDC_IRQDELAY_DEFAULT, SPIN_UP} \subseteq Nat \ {0}

Drive == 0 .. FDC_FDD_SUPPORT_COUNT - 1
AWAKE == TIME  \* not sleeping

VARIABLES
  pc,          \* what the driver is about to do
  caller,      \* what it recalibrates for: "reset" or "detect"
  drive,       \* the drive it works on
  lba,         \* the first sector and the number of sectors to be read
  count,
  buffer,      \* the chunks read: whole sectors, then the sector in progress
  error,       \* error->code of the last read
  until,       \* when it stops sleeping, or AWAKE
  tries,       \* ms it has waited for an interrupt
  irqRecv,     \* whether the interrupt has come
  driveCount,  \* the drives that are present, a bit each
  motor,       \* the drives whose motor is on, in the digital output register
  phase,       \* of the controller
  command,     \* what the controller was told
  target,      \* and the sector it was told to read
  raised,      \* whether it has interrupted since
  fifo,        \* chunks in its FIFO
  sent,        \* chunks it has sent since the command
  outcome,     \* IC and ST1 of its result
  oops         \* the panic that halted the CPU, if any

client == <<drive, lba, count>>
wait == <<until, tries>>
controller == <<phase, command, target, raised, fifo, sent, outcome>>
floppy == <<pc, caller, client, buffer, error, wait, irqRecv, driveCount, motor,
            controller, oops>>

Phases == {"command", "execution", "result"}
Commands == {"none", "reset", "recalibrate", "read"}
Outcomes == {"normal", "EN", "abnormal"}

\* The address of a sector.
lba2chs(s) ==
  [c |-> s \div (HEADS * TRACK), h |-> (s % (HEADS * TRACK)) \div TRACK,
   s |-> ((s % (HEADS * TRACK)) % TRACK) + 1]
chs2lba(a) == (a.c * HEADS + a.h) * TRACK + a.s - 1

\* geometry.lba: more than a disk has.
SECTORS == chs2lba([c |-> CYLINDERS, h |-> HEADS, s |-> TRACK])

\* Chunk k of sector s, and all the chunks of the sectors from s to t - 1.
Chunk(s, k) == <<s + k \div CHUNKS, k % CHUNKS>>
Sectors(s, t) == [k \in 1 .. (t - s) * CHUNKS |-> Chunk(s, k - 1)]

\* The sector that is read next.
currentSector == Len(buffer) \div CHUNKS

FloppyInit ==
  /\ pc = "off" /\ caller = "reset" /\ drive = 0 /\ lba = 0 /\ count = 0
  /\ buffer = <<>> /\ error = "NONE" /\ until = AWAKE /\ tries = 0
  /\ irqRecv = FALSE /\ driveCount = {} /\ motor = {}
  /\ phase = "command" /\ command = "none" /\ target = lba2chs(0)
  /\ raised = FALSE /\ fifo = 0 /\ sent = 0 /\ outcome = "normal"
  /\ oops = "none"

-----------------------------------------------------------------------------
(* Time.                                                                   *)

\* fdc_sleepms(n), which lasts no time at all when the clock is to wrap.
Asleep(n) == LET end == (ms + n) % TIME IN IF ms < end THEN end ELSE AWAKE

\* An interrupt of the timer.  A driver that sleeps looks at the clock more
\* often than it advances.
Tick ==
  /\ oops = "none"
  /\ k_tmr_tick
  /\ until' = IF until # AWAKE /\ ms' >= until THEN AWAKE ELSE until
  /\ UNCHANGED <<pc, caller, client, buffer, error, tries, irqRecv, driveCount,
                 motor, controller, oops>>

-----------------------------------------------------------------------------
(* The controller.                                                         *)

Interrupts == irqRecv' = TRUE /\ raised' = TRUE

\* A reset or a recalibration is over, for good or ill.
Completes ==
  /\ oops = "none" /\ phase = "execution" /\ command \in {"reset", "recalibrate"}
  /\ ~raised
  /\ Interrupts
  /\ phase' = "command"
  /\ UNCHANGED <<pc, caller, client, buffer, error, wait, driveCount, motor,
                 command, target, fifo, sent, outcome, oops>>

FIFO_CHUNKS == 2
MAX_SENT == CHUNKS + 1  \* bound: of the sectors that follow one chunk at most

\* Another chunk is in the FIFO, if it has room.  The controller may go on with
\* the sectors that follow.
Sends ==
  /\ oops = "none" /\ phase = "execution" /\ command = "read"
  /\ fifo < FIFO_CHUNKS /\ sent < MAX_SENT /\ target.c < CYLINDERS
  /\ fifo' = fifo + 1
  /\ sent' = sent + 1
  /\ Interrupts
  /\ UNCHANGED <<pc, caller, client, buffer, error, wait, driveCount, motor,
                 phase, command, target, outcome, oops>>

\* The command is over, in the middle of a sector or behind it, once its last
\* chunk has been pulled: normally, at the end of the cylinder ("EN"), or with
\* another error.
Ends ==
  /\ oops = "none" /\ phase = "execution" /\ command = "read" /\ fifo = 0
  /\ phase' = "result"
  /\ outcome' \in Outcomes
  /\ Interrupts
  /\ UNCHANGED <<pc, caller, client, buffer, error, wait, driveCount, motor,
                 command, target, fifo, sent, oops>>

\* The driver writes command c, for sector s.
Written(c, s) ==
  /\ phase' = "execution" /\ command' = c /\ target' = lba2chs(s)
  /\ raised' = FALSE
  /\ fifo' = 0 /\ sent' = 0
  /\ UNCHANGED outcome

-----------------------------------------------------------------------------
(* The driver.                                                             *)

At(place) == oops = "none" /\ pc = place /\ until = AWAKE

Panics(reason) == oops' = reason /\ UNCHANGED <<pc, motor>>

\* start returns false, which loadDevice does not survive.
Fails == Panics("startupFailed")

KeepsInterrupt == irqRecv  \* variant: irqRecv is not cleared
NoInterrupt == FALSE

\* irqRecv is cleared, and then the command is written, from place to place.
Clear(from, to) == At(from) /\ pc' = to /\ irqRecv' = NoInterrupt

\* waitForInterrupt at pc: the interrupt has come.
Interrupted(place) == At(place) /\ irqRecv /\ tries < FDC_IRQDELAY_DEFAULT
                      /\ irqRecv' = FALSE

\* It has not, and the driver sleeps for a ms.
Poll ==
  /\ At(pc) /\ pc \in {"resetWait", "recalibrateWait", "readWait"}
  /\ ~irqRecv /\ tries < FDC_IRQDELAY_DEFAULT
  /\ tries' = tries + 1
  /\ until' = Asleep(1)
  /\ UNCHANGED <<pc, caller, client, buffer, error, irqRecv, driveCount, motor,
                 controller, oops>>

\* It has not in time, or it came in the last ms, at which nobody looks.
NeverExpires == FALSE  \* variant: the driver waits for ever
Expired == tries = FDC_IRQDELAY_DEFAULT
Expire ==
  /\ At(pc) /\ pc \in {"resetWait", "recalibrateWait", "readWait"}
  /\ Expired
  /\ IF pc = "resetWait" THEN Fails ELSE Panics("noInterrupt")
  /\ UNCHANGED <<caller, client, buffer, error, wait, irqRecv, driveCount,
                 controller>>

\* init: the controller is asked for its version.
Probe ==
  /\ At("off")
  /\ \/ pc' = "reset" /\ UNCHANGED <<motor, oops>>
     \/ Panics("controller")
  /\ UNCHANGED <<caller, client, buffer, error, wait, irqRecv, driveCount,
                 controller>>

\* start, proc_reset: the reset bit of the digital output register is pulsed.
Reset ==
  /\ At("resetCommand")
  /\ motor' = {}
  /\ Written("reset", 0)
  /\ pc' = "resetWait" /\ tries' = 0
  /\ UNCHANGED <<caller, client, buffer, error, until, irqRecv, driveCount, oops>>

\* The rest of proc_reset: the controller is polled and configured.
Configure ==
  /\ Interrupted("resetWait")
  /\ \/ /\ pc' = "recalibrate" /\ caller' = "reset" /\ drive' = 0
        /\ UNCHANGED <<motor, oops>>
     \/ Fails /\ UNCHANGED <<caller, drive>>
  /\ command' = "none"
  /\ UNCHANGED <<lba, count, buffer, error, wait, driveCount, phase, target,
                 raised, fifo, sent, outcome>>

\* proc_startMotor, which stops the other motors.
startMotor == motor' = {drive} /\ until' = Asleep(SPIN_UP)

Recalibrate ==
  /\ At("recalibrate")
  /\ startMotor
  /\ pc' = "recalibrateClear"
  /\ UNCHANGED <<caller, client, buffer, error, tries, irqRecv, driveCount,
                 controller, oops>>

\* proc_reset, and then start, go on with the next drive once
\* proc_recalibrate has returned status s.
NextDrive ==
  IF drive + 1 \in Drive
  THEN pc' = "recalibrate" /\ drive' = drive + 1 /\ UNCHANGED caller
  ELSE /\ pc' = IF caller = "reset" THEN "recalibrate" ELSE "idle"
       /\ drive' = 0 /\ caller' = "detect"

Recalibrated(s) ==
  \/ /\ caller = "detect" /\ s = "NOT_READY"
     /\ Fails
     /\ UNCHANGED <<caller, drive, driveCount>>
  \/ /\ ~(caller = "detect" /\ s = "NOT_READY")
     /\ motor' = motor \ {drive}
     /\ driveCount' = IF caller = "detect" /\ s = "OK"
                      THEN driveCount \cup {drive} ELSE driveCount
     /\ NextDrive
     /\ UNCHANGED oops

RecalibrateCommand ==
  /\ At("recalibrateCommand")
  /\ \/ /\ Written("recalibrate", 0)
        /\ pc' = "recalibrateWait" /\ tries' = 0
        /\ UNCHANGED <<caller, drive, driveCount, motor, oops>>
     \/ /\ Recalibrated("NOT_READY")
        /\ UNCHANGED <<controller, tries>>
  /\ UNCHANGED <<lba, count, buffer, error, until, irqRecv>>

\* The status the controller gives is that of the drive, or an error.
SenseInterrupt ==
  /\ Interrupted("recalibrateWait")
  /\ \E s \in {"OK", "INVDRIVE", "FAIL"} : Recalibrated(s)
  /\ command' = "none"
  /\ UNCHANGED <<lba, count, buffer, error, wait, phase, target, raised, fifo,
                 sent, outcome>>

\* uha_read of n sectors from s: the motor of drive d spins up.
Read(d, s, n) ==
  /\ At("idle")
  /\ drive' = d /\ lba' = s /\ count' = n
  /\ buffer' = <<>> /\ error' = "NONE"
  /\ motor' = {d} /\ until' = Asleep(SPIN_UP)
  /\ pc' = "prepare"
  /\ UNCHANGED <<caller, tries, irqRecv, driveCount, controller, oops>>

\* proc_prepare: the drive's timing is specified.
Prepare ==
  /\ At("prepare")
  /\ \/ pc' = "sector" /\ UNCHANGED <<motor, oops>>
     \/ Panics("prepareFailed")
  /\ UNCHANGED <<caller, client, buffer, error, wait, irqRecv, driveCount,
                 controller>>

\* proc_stopMotor.
MotorStops == motor \ {drive}

\* uha_read returns: all is read, or readSector has refused the sector (if the
\* sector was short, or the medium missing, it returns in Results).
Return ==
  /\ At("sector")
  /\ \/ currentSector = count /\ error' = "NONE" /\ motor' = MotorStops
     \/ /\ currentSector < count /\ lba + currentSector >= SECTORS
        /\ error' = "INVALID_ARGUMENT" /\ motor' = MotorStops
  /\ pc' = "idle"
  /\ UNCHANGED <<caller, client, buffer, wait, irqRecv, driveCount, controller,
                 oops>>

Sector == lba + currentSector

\* The first statement of proc_reset, of proc_recalibrate once the motor spins,
\* and of readSector for a sector the disk has.
ClearInterrupt ==
  /\ \/ Clear("reset", "resetCommand")
     \/ Clear("recalibrateClear", "recalibrateCommand")
     \/ /\ Clear("sector", "readCommand")
        /\ currentSector < count /\ lba + currentSector < SECTORS
  /\ UNCHANGED <<caller, client, buffer, error, wait, driveCount, motor,
                 controller, oops>>

\* readSector: the read command.
ReadCommand ==
  /\ At("readCommand")
  /\ \/ /\ Written("read", Sector)
        /\ pc' = "readWait" /\ tries' = 0
        /\ UNCHANGED <<motor, oops>>
     \/ /\ Panics("readFailed")
        /\ UNCHANGED <<controller, tries>>
  /\ UNCHANGED <<caller, client, buffer, error, until, irqRecv, driveCount>>

ReadInterrupted ==
  /\ Interrupted("readWait")
  /\ pc' = "drain"
  /\ UNCHANGED <<caller, client, buffer, error, wait, driveCount, motor,
                 controller, oops>>

\* A chunk is pulled: into the buffer, or dropped once the sector is whole.
currentBytes == sent - fifo
Wanted == currentBytes < CHUNKS
Drain ==
  /\ At("drain") /\ fifo > 0
  /\ fifo' = fifo - 1
  /\ IF Wanted
     THEN buffer' = Append(buffer, Chunk(chs2lba(target), currentBytes))
     ELSE UNCHANGED buffer
  /\ UNCHANGED <<pc, caller, client, error, wait, irqRecv, driveCount, motor,
                 phase, command, target, raised, sent, outcome, oops>>

Drained ==
  /\ At("drain") /\ fifo = 0
  /\ pc' = "more"
  /\ UNCHANGED <<caller, client, buffer, error, wait, irqRecv, driveCount,
                 motor, controller, oops>>

\* inNonDMAExecutionPhase: wait for more, or go on to the result.
More ==
  /\ At("more")
  /\ pc' = IF phase = "execution" THEN "readWait" ELSE "results"
  /\ tries' = 0
  /\ UNCHANGED <<caller, client, buffer, error, until, irqRecv, driveCount,
                 motor, controller, oops>>

\* readSector returns the number of bytes, and uha_read refuses a short sector.
AnyLength == TRUE  \* variant: it does not look
IsWhole == currentBytes >= CHUNKS

\* The result: the sector is read or short, the medium is missing, or it is a
\* panic.
Results ==
  /\ At("results")
  /\ phase' = "command" /\ command' = "none"
  /\ \/ /\ outcome = "normal" /\ IsWhole
        /\ pc' = "sector" /\ UNCHANGED <<error, motor, oops>>
     \/ /\ outcome = "normal" /\ ~IsWhole
        /\ error' = "COMMAND_FAILED" /\ motor' = MotorStops
        /\ pc' = "idle" /\ UNCHANGED oops
     \/ /\ outcome = "EN"
        /\ error' = "MEDIA_NOT_PRESENT" /\ motor' = MotorStops
        /\ pc' = "idle" /\ UNCHANGED oops
     \/ outcome = "abnormal" /\ Panics("ICFailed") /\ UNCHANGED error
     \/ Panics("noResult") /\ UNCHANGED error
  /\ UNCHANGED <<caller, client, buffer, wait, irqRecv, driveCount, target,
                 raised, fifo, sent, outcome>>
-----------------------------------------------------------------------------
Controller == Completes \/ Sends \/ Ends

Driver ==
  \/ Poll \/ Expire \/ Probe \/ ClearInterrupt \/ Reset \/ Configure \/ Recalibrate
  \/ RecalibrateCommand \/ SenseInterrupt \/ Prepare \/ Return \/ ReadCommand
  \/ ReadInterrupted \/ Drain \/ Drained \/ More \/ Results

-----------------------------------------------------------------------------
\* An interrupt the driver has not seen yet is that of the command in
\* progress.  One of an earlier command, the last of a read in particular,
\* which comes when the driver has already gone on to the result, is cleared
\* before the next command is written: it never ends the wait for it.
InterruptIsOurs == irqRecv => raised

\* A read that returns without an error has read the sectors it was asked
\* for, whole and in order, at whatever chunk of a sector the controller lets
\* the driver wait or ends the command, normally or not, and however far it
\* goes on with the sectors that follow (readSector, uha_read).
ReadIsWhole ==
  pc = "idle" /\ error = "NONE" => buffer = Sectors(lba, lba + count)
=============================================================================
