---------------------------- MODULE StorageProofs ----------------------------
(***************************************************************************)
(* What the storage relies on its driver for, for any disks and sizes and  *)
(* whatever the controller does: the clock the driver waits by is true, an *)
(* interrupt is never taken for that of a later command, and a read that   *)
(* returns without an error has read what it was asked for.  And what it   *)
(* promises, for any disks that are plain: a file that is loaded is the    *)
(* chain of clusters that the table of its disk defines.                   *)
(***************************************************************************)
EXTENDS Storage, FiniteSetTheorems, SequenceTheorems, WellFoundedInduction, TLAPS

-----------------------------------------------------------------------------
(* The clock.                                                              *)

\* The clock is ahead of the time by the drift, and by nothing else.
ClockInv ==
  /\ driftCurrent \in Nat /\ driftCurrent < k_pit_freq
  /\ lag = 0 - driftCurrent

\* What is left of a division.
LEMMA Division ==
  ASSUME NEW a \in Nat, NEW b \in Nat \ {0}
  PROVE  /\ a \div b \in Nat /\ a % b \in Nat
         /\ a % b < b
         /\ a = b * (a \div b) + (a % b)
OBVIOUS

LEMMA DivisionIsUnique ==
  ASSUME NEW b \in Nat \ {0}, NEW q \in Nat, NEW r \in Nat, r < b
  PROVE  (b * q + r) \div b = q /\ (b * q + r) % b = r
OBVIOUS

LEMMA ClockTicks ==
  ASSUME ClockInv, k_tmr_tick
  PROVE  ClockInv'
<1> DEFINE d == driftCurrent
           f == k_pit_freq
           p == pitDrift
           c == k_pit_evFreq * divider
<1>1. d \in Nat /\ d < f /\ lag = 0 - d /\ f \in Nat \ {0}
  BY TimerAssumption DEF ClockInv
<1>2. p \in Nat /\ c \in Nat /\ f = c + p /\ p < f
  <2>1. /\ k_pit_freq \div k_pit_evFreq \in Nat /\ k_pit_freq % k_pit_evFreq \in Nat
        /\ k_pit_freq % k_pit_evFreq < k_pit_evFreq
        /\ k_pit_freq = k_pit_evFreq * (k_pit_freq \div k_pit_evFreq)
                        + (k_pit_freq % k_pit_evFreq)
    BY TimerAssumption, Division
  <2>2. k_pit_evFreq * (k_pit_freq \div k_pit_evFreq) \in Nat
    BY <2>1, TimerAssumption
  <2> QED BY <2>1, <2>2, TimerAssumption DEF divider, pitDrift
<1>3. /\ driftCurrent' = (d + p) % f
      /\ lag' = lag + c - (IF d + p >= f THEN 0 ELSE f)
  BY DEF k_tmr_tick, Drift, RunsAhead
<1> HIDE DEF d, f, p, c
<1>4. CASE d + p >= f
  <2>1. (f * 1 + (d + p - f)) % f = d + p - f
    BY <1>1, <1>2, <1>4, DivisionIsUnique
  <2>2. (d + p) % f = d + p - f
    BY <2>1, <1>1, <1>2
  <2> QED BY <1>1, <1>2, <1>3, <1>4, <2>2 DEF ClockInv, f
<1>5. CASE d + p < f
  <2>1. (f * 0 + (d + p)) % f = d + p
    BY <1>1, <1>2, <1>5, DivisionIsUnique
  <2>2. (d + p) % f = d + p
    BY <2>1, <1>1, <1>2
  <2> QED BY <1>1, <1>2, <1>3, <1>5, <2>2 DEF ClockInv, f
<1> QED BY <1>1, <1>2, <1>4, <1>5
-----------------------------------------------------------------------------
(* What a step of the storage is to the driver.                            *)

\* What the driver reads with, and what it is interrupted by.
Reading == <<pc, client, buffer, error, phase, command, target, fifo, sent, outcome>>
Idles == UNCHANGED <<Reading, irqRecv, raised>> /\ (oops = "none" \/ oops' = oops)
Asks == \E d, s, n : Read(d, s, n)

\* Of all that the storage does, only its reads matter to the driver.
LEMMA StorageAsks ==
  ASSUME Next
  PROVE  \/ Tick
         \/ UNCHANGED timer /\ (Controller \/ Driver \/ Asks \/ Idles)
<1> DEFINE Left == UNCHANGED timer /\ (Asks \/ Idles)
<1>1. UNCHANGED floppy => Idles
  BY DEF floppy, Idles, Reading, client, controller
<1>2. \A d, range : ReadRange(d, range) => Asks
  BY Zenon DEF ReadRange, Asks
<1>3. \A d : ReadHeader(d) => Asks
  BY <1>2, Zenon DEF ReadHeader
<1>4. \A l, loaded : ReadRun(l, loaded) => Asks \/ Idles
  BY <1>1, Zenon DEF ReadRun, Asks
<1>5. \A e : Finish(e) => Idles
  BY <1>1, Zenon DEF Finish
<1>6. \A a, p : Ask(a, p) => Left
  BY <1>1, <1>3, Zenon DEF Ask
<1>7. detectDrives => Left
  BY <1>1, <1>3, Zenon DEF detectDrives
<1>8. detectVolume => Left
  BY <1>1, <1>3, Zenon DEF detectVolume, Idles, Reading, client, controller, At
<1>9. \A a : Back(a) => UNCHANGED timer
  BY Zenon DEF Back
<1>10. HeaderIsRead => Left
  BY <1>2, <1>5, <1>9, Zenon DEF HeaderIsRead
<1>11. DirectoryIsRead => Left
  BY <1>1, <1>2, <1>5, <1>9 DEF DirectoryIsRead
<1>12. TableIsRead => Left
  BY <1>4, <1>5, <1>9, Zenon DEF TableIsRead
<1>13. RunIsRead => Left
  BY <1>1, <1>4, <1>5, <1>9, Zenon DEF RunIsRead
<1>14. Start => Left
  BY <1>6, Zenon DEF Start
<1>15. Load => Left
  BY <1>6, Zenon DEF Load
<1> QED
  BY <1>7, <1>8, <1>10, <1>11, <1>12, <1>13, <1>14, <1>15, Zenon DEF Next

-----------------------------------------------------------------------------
(* The interrupt.                                                          *)

\* Where the driver waits for nothing, and where it is about to write a command.
Cleared == {"resetCommand", "recalibrateCommand", "readCommand"}
Quiet == Cleared \cup {"off", "reset", "recalibrate", "recalibrateClear", "idle", "prepare",
                       "sector"}

\* The interrupt is that of the command in progress; where the driver waits for
\* nothing no command is, so that none comes between the clear and the command.
InterruptInv ==
  /\ InterruptIsOurs
  /\ oops = "none" =>
       /\ pc \in Quiet => phase = "command"
       /\ pc \in Cleared => irqRecv = FALSE
       /\ pc \in {"resetWait", "recalibrateWait"} =>
            command \in {"reset", "recalibrate"} /\ (raised => phase = "command")

LEMMA ControllerInterrupts ==
  ASSUME InterruptInv, Controller
  PROVE  InterruptInv'
<1>1. /\ oops = "none" /\ phase = "execution" /\ pc' = pc /\ command' = command
      /\ raised' = TRUE
  BY Zenon DEF Controller, Completes, Sends, Ends, Interrupts
<1>2. pc \notin Quiet /\ pc \notin Cleared
  <2>1. pc \notin Quiet
    BY <1>1 DEF InterruptInv
  <2> QED BY <2>1 DEF Quiet
<1>3. pc \in {"resetWait", "recalibrateWait"} => command # "read"
  BY <1>1 DEF InterruptInv
<1>4. command # "read" => phase' = "command"
  BY Zenon DEF Controller, Completes, Sends, Ends
<1> QED BY <1>1, <1>2, <1>3, <1>4 DEF InterruptInv, InterruptIsOurs

\* A command that is written is new, and so is what is waited for.
LEMMA CommandInterrupts ==
  ASSUME InterruptInv, oops = "none", pc \in Cleared, irqRecv' = irqRecv,
         NEW c, NEW s, Written(c, s),
         pc' \in {"resetWait", "recalibrateWait", "readWait"},
         pc' \in {"resetWait", "recalibrateWait"} => c \in {"reset", "recalibrate"}
  PROVE  InterruptInv'
<1>1. irqRecv = FALSE
  BY DEF InterruptInv
<1>2. raised' = FALSE /\ command' = c
  BY DEF Written
<1>3. pc' \notin Quiet
  BY DEF Quiet, Cleared
<1>4. pc' \notin Cleared
  BY DEF Cleared
<1> QED BY <1>1, <1>2, <1>3, <1>4 DEF InterruptInv, InterruptIsOurs

\* From one quiet place the driver goes to another, or to a panic.
LEMMA QuietInterrupts ==
  ASSUME InterruptInv, phase' = phase, raised' = raised, irqRecv' = irqRecv \/ irqRecv' = FALSE,
         phase = "command",
         oops' = "none" => pc' \in Quiet /\ (pc' \in Cleared => irqRecv' = FALSE)
  PROVE  InterruptInv'
<1>1. pc' \in Quiet => pc' \notin {"resetWait", "recalibrateWait"}
  BY DEF Quiet, Cleared
<1> QED BY <1>1 DEF InterruptInv, InterruptIsOurs

\* An interrupt of a reset or a recalibration is its end.
LEMMA WaitIsOver ==
  ASSUME InterruptInv, Interrupted("resetWait") \/ Interrupted("recalibrateWait")
  PROVE  phase = "command" /\ irqRecv' = FALSE
BY DEF InterruptInv, InterruptIsOurs, Interrupted, At

LEMMA RecalibratedGoesOn ==
  ASSUME NEW s, Recalibrated(s)
  PROVE  oops' = "none" => pc' \in Quiet /\ pc' \notin Cleared
<1>1. NextDrive => pc' \in {"recalibrate", "idle"}
  BY DEF NextDrive
<1>2. pc' \in {"recalibrate", "idle"} => pc' \in Quiet /\ pc' \notin Cleared
  BY DEF Quiet, Cleared
<1> QED BY <1>1, <1>2 DEF Recalibrated, Fails, Panics

\* Whoever leaves both flags alone and stays, or panics, keeps the invariant.
LEMMA RestInterrupts ==
  ASSUME InterruptInv, UNCHANGED <<irqRecv, raised, phase, command>>,
         oops' = "none" => oops = "none" /\ pc' = pc
  PROVE  InterruptInv'
BY DEF InterruptInv, InterruptIsOurs

LEMMA StartUpInterrupts ==
  ASSUME InterruptInv,
         Probe \/ ClearInterrupt \/ Reset \/ Configure \/ Recalibrate \/ RecalibrateCommand
         \/ SenseInterrupt
  PROVE  InterruptInv'
<1>1. CASE Probe
  <2>1. phase = "command" /\ "reset" \in Quiet /\ "reset" \notin Cleared
    BY <1>1 DEF Probe, At, InterruptInv, Quiet, Cleared
  <2> QED BY <1>1, <2>1, QuietInterrupts DEF Probe, Panics, controller, At
<1>2. CASE ClearInterrupt
  <2>1. /\ pc \in {"reset", "recalibrateClear", "sector"} /\ oops = "none"
        /\ pc' \in Cleared /\ irqRecv' = FALSE /\ UNCHANGED controller
    BY <1>2 DEF ClearInterrupt, Clear, At, NoInterrupt, Cleared
  <2>2. phase = "command" /\ pc' \in Quiet
    BY <2>1 DEF InterruptInv, Quiet
  <2> QED BY <2>1, <2>2, QuietInterrupts DEF controller
<1>3. CASE Reset
  <2>1. /\ oops = "none" /\ pc \in Cleared /\ irqRecv' = irqRecv
        /\ Written("reset", 0) /\ pc' = "resetWait"
    BY <1>3 DEF Reset, At, Cleared
  <2> QED BY <2>1, CommandInterrupts
<1>4. CASE Configure
  <2>1. phase = "command" /\ irqRecv' = FALSE
    BY <1>4, WaitIsOver DEF Configure
  <2>2. phase' = phase /\ raised' = raised /\ (oops' = "none" => pc' = "recalibrate")
    BY <1>4 DEF Configure, Fails, Panics
  <2>3. "recalibrate" \in Quiet
    BY DEF Quiet
  <2> QED BY <2>1, <2>2, <2>3, QuietInterrupts
<1>5. CASE Recalibrate
  <2>1. phase = "command" /\ "recalibrateClear" \in Quiet /\ "recalibrateClear" \notin Cleared
    BY <1>5 DEF Recalibrate, At, InterruptInv, Quiet, Cleared
  <2> QED BY <1>5, <2>1, QuietInterrupts DEF Recalibrate, controller
<1>6. CASE RecalibrateCommand
  <2>1. oops = "none" /\ pc = "recalibrateCommand" /\ irqRecv' = irqRecv
    BY <1>6 DEF RecalibrateCommand, At
  <2>2. pc \in Cleared /\ pc \in Quiet
    BY <2>1 DEF Cleared, Quiet
  <2>3. CASE Written("recalibrate", 0) /\ pc' = "recalibrateWait"
    BY <2>1, <2>2, <2>3, CommandInterrupts
  <2>4. CASE Recalibrated("NOT_READY") /\ UNCHANGED controller
    <3>1. phase = "command"
      BY <2>1, <2>2 DEF InterruptInv
    <3> QED BY <2>1, <2>4, <3>1, RecalibratedGoesOn, QuietInterrupts DEF controller
  <2> QED BY <1>6, <2>3, <2>4, Zenon DEF RecalibrateCommand
<1>7. CASE SenseInterrupt
  <2>1. phase = "command" /\ irqRecv' = FALSE /\ phase' = phase /\ raised' = raised
    BY <1>7, WaitIsOver DEF SenseInterrupt
  <2>2. \E s \in {"OK", "INVDRIVE", "FAIL"} : Recalibrated(s)
    BY <1>7, Zenon DEF SenseInterrupt
  <2>3. oops' = "none" => pc' \in Quiet
    BY <2>2, RecalibratedGoesOn
  <2> QED BY <2>1, <2>3, QuietInterrupts
<1> QED BY <1>1, <1>2, <1>3, <1>4, <1>5, <1>6, <1>7

LEMMA ReadInterrupts ==
  ASSUME InterruptInv,
         Prepare \/ Return \/ ReadCommand \/ ReadInterrupted \/ Drain \/ Drained \/ More
         \/ Results \/ Asks
  PROVE  InterruptInv'
<1>1. CASE Prepare \/ Return \/ Asks
  <2>1. /\ pc \in Quiet /\ oops = "none" /\ UNCHANGED <<phase, raised, irqRecv>>
        /\ oops' = "none" => pc' \in {"sector", "idle", "prepare"}
    BY <1>1 DEF Prepare, Return, Asks, Read, At, Panics, controller, Quiet
  <2>2. pc' \in {"sector", "idle", "prepare"} => pc' \in Quiet /\ pc' \notin Cleared
    BY DEF Quiet, Cleared
  <2>3. phase = "command"
    BY <2>1 DEF InterruptInv
  <2> QED BY <2>1, <2>2, <2>3, QuietInterrupts
<1>2. CASE ReadCommand
  <2>1. oops = "none" /\ pc = "readCommand" /\ irqRecv' = irqRecv
    BY <1>2 DEF ReadCommand, At
  <2>2. pc \in Cleared
    BY <2>1 DEF Cleared
  <2>3. CASE Written("read", Sector) /\ pc' = "readWait"
    BY <2>1, <2>2, <2>3, CommandInterrupts
  <2>4. CASE Panics("readFailed") /\ UNCHANGED controller
    BY <2>1, <2>4, RestInterrupts DEF Panics, controller
  <2> QED BY <1>2, <2>3, <2>4, Zenon DEF ReadCommand
<1>3. CASE ReadInterrupted \/ Drain \/ Drained \/ More
  <2>1. /\ raised' = raised /\ (irqRecv' = irqRecv \/ irqRecv' = FALSE)
        /\ pc' \in {"readWait", "drain", "more", "results"}
    BY <1>3 DEF ReadInterrupted, Interrupted, Drain, Drained, More, At, controller
  <2>2. pc' \notin Quiet /\ pc' \notin Cleared
    BY <2>1 DEF Quiet, Cleared
  <2>3. pc' \notin {"resetWait", "recalibrateWait"}
    BY <2>1
  <2> QED BY <2>1, <2>2, <2>3 DEF InterruptInv, InterruptIsOurs
<1>4. CASE Results
  <2>1. /\ UNCHANGED <<irqRecv, raised>> /\ phase' = "command"
        /\ oops' = "none" => pc' \in {"sector", "idle"}
    BY <1>4 DEF Results, Panics, At
  <2>2. /\ pc' \in {"sector", "idle"} =>
             pc' \notin Cleared /\ pc' \notin {"resetWait", "recalibrateWait"}
    BY DEF Cleared
  <2> QED BY <2>1, <2>2 DEF InterruptInv, InterruptIsOurs
<1> QED BY <1>1, <1>2, <1>3, <1>4

LEMMA EveryStepInterrupts ==
  ASSUME InterruptInv, Tick \/ Controller \/ Driver \/ Asks \/ Idles
  PROVE  InterruptInv'
<1>1. CASE Tick
  BY <1>1, RestInterrupts DEF Tick, controller
<1>2. CASE Idles
  BY <1>2, RestInterrupts DEF Idles, Reading
<1>3. CASE Poll \/ Expire
  <2>1. /\ UNCHANGED <<irqRecv, raised, phase, command>>
        /\ oops' = "none" => oops = "none" /\ pc' = pc
    BY <1>3 DEF Poll, Expire, At, Fails, Panics, controller
  <2> QED BY <2>1, RestInterrupts
<1>4. CASE Driver
  BY <1>3, <1>4, StartUpInterrupts, ReadInterrupts, Zenon DEF Driver
<1> QED BY <1>1, <1>2, <1>4, ControllerInterrupts, ReadInterrupts
-----------------------------------------------------------------------------
(* A read.                                                                 *)

Before == {"off", "reset", "resetCommand", "resetWait", "recalibrate", "recalibrateClear",
           "recalibrateCommand", "recalibrateWait"}
InRead == {"readWait", "drain", "more", "results"}

\* The buffer holds the first n chunks from sector lba on.
Holds(n) == n \in Nat /\ buffer = [k \in 1 .. n |-> Chunk(lba, k - 1)]

\* The chunks of the sector that is being read which the driver has kept.
Kept == IF sent - fifo < CHUNKS THEN sent - fifo ELSE CHUNKS

\* Between two sectors the buffer is whole; in a sector it has what was kept of the
\* one the controller was told to read, which may be any part of it.
ReadGoesWell ==
  /\ pc \in Before \cup InRead \cup {"idle", "prepare", "sector", "readCommand"}
  /\ pc \in Before => buffer = <<>> /\ lba = 0 /\ count = 0
  /\ pc = "prepare" => Holds(0)
  /\ pc \in {"sector", "readCommand"} => \E b \in Nat : Holds(b * CHUNKS)
  /\ pc \in InRead /\ oops = "none" =>
       /\ command = "read"
       /\ fifo <= sent
       /\ phase \in {"execution", "result"}
       /\ phase = "result" => fifo = 0
       /\ \E b \in Nat : target = lba2chs(lba + b) /\ Holds(b * CHUNKS + Kept)
  /\ pc = "results" /\ oops = "none" => phase = "result"
  /\ ReadIsWhole

ReadInv == /\ sent \in Nat /\ fifo \in Nat
           /\ lba \in Nat => ReadGoesWell

\* Sectors have one address each.
LEMMA AddressOfSector ==
  ASSUME NEW s \in Nat
  PROVE  chs2lba(lba2chs(s)) = s
<1> DEFINE q == s \div (HEADS * TRACK)
           r == s % (HEADS * TRACK)
           u == r \div TRACK
           v == r % TRACK
<1>1. HEADS \in Nat \ {0} /\ TRACK \in Nat \ {0} /\ HEADS * TRACK \in Nat \ {0}
  BY FloppyAssumption
<1>2. q \in Nat /\ r \in Nat /\ s = (HEADS * TRACK) * q + r
  BY <1>1, Division
<1> HIDE DEF q, r
<1>3. u \in Nat /\ v \in Nat /\ r = TRACK * u + v
  BY <1>1, <1>2, Division
<1>4. chs2lba(lba2chs(s)) = (q * HEADS + u) * TRACK + (v + 1) - 1
  BY DEF chs2lba, lba2chs, q, r
<1> HIDE DEF u, v
<1>5. (q * HEADS + u) * TRACK = (HEADS * TRACK) * q + TRACK * u
  BY <1>1, <1>2, <1>3
<1>6. (HEADS * TRACK) * q \in Nat /\ TRACK * u \in Nat
  BY <1>1, <1>2, <1>3
<1> DEFINE A == (HEADS * TRACK) * q
           B == TRACK * u
<1>7. chs2lba(lba2chs(s)) = A + B + (v + 1) - 1 /\ s = A + (B + v) /\ A \in Nat /\ B \in Nat
  BY <1>2, <1>3, <1>4, <1>5, <1>6
<1> HIDE DEF A, B
<1> QED BY <1>3, <1>7

\* The chunk that is pulled is the one after those the buffer holds.
LEMMA ChunkFollows ==
  ASSUME NEW l \in Nat, NEW b \in Nat, NEW r \in Nat, r < CHUNKS
  PROVE  /\ b * CHUNKS + r \in Nat
         /\ Chunk(l + b, r) = Chunk(l, b * CHUNKS + r)
<1>1. CHUNKS \in Nat \ {0} /\ b * CHUNKS = CHUNKS * b /\ CHUNKS * b \in Nat
  BY FloppyAssumption
<1>2. (CHUNKS * b + r) \div CHUNKS = b /\ (CHUNKS * b + r) % CHUNKS = r
  BY <1>1, DivisionIsUnique
<1>3. (CHUNKS * 0 + r) \div CHUNKS = 0 /\ (CHUNKS * 0 + r) % CHUNKS = r
  BY <1>1, DivisionIsUnique
<1>4. CHUNKS * 0 + r = r
  BY <1>1
<1>5. r \div CHUNKS = 0 /\ r % CHUNKS = r
  BY <1>3, <1>4
<1>6. Chunk(l + b, r) = <<l + b, r>>
  BY <1>5 DEF Chunk
<1>7. Chunk(l, b * CHUNKS + r) = <<l + b, r>>
  BY <1>1, <1>2 DEF Chunk
<1> QED BY <1>1, <1>6, <1>7

\* What the driver does not see happen changes nothing.
LEMMA NothingIsRead ==
  ASSUME ReadInv, UNCHANGED Reading, oops = "none" \/ oops' = oops
  PROVE  ReadInv'
BY DEF ReadInv, ReadGoesWell, Reading, client, Holds, Kept, ReadIsWhole

\* The number of whole sectors in the buffer.
LEMMA SectorsHeld ==
  ASSUME NEW b \in Nat, Holds(b * CHUNKS)
  PROVE  currentSector = b
<1>1. CHUNKS \in Nat \ {0} /\ b * CHUNKS = CHUNKS * b + 0 /\ b * CHUNKS \in Nat
  BY FloppyAssumption
<1>2. (CHUNKS * b + 0) \div CHUNKS = b
  BY <1>1, DivisionIsUnique
<1>3. Len(buffer) = b * CHUNKS
  BY <1>1 DEF Holds
<1> QED BY <1>1, <1>2, <1>3 DEF currentSector
-----------------------------------------------------------------------------
(* Every step keeps the read whole.                                        *)

\* The controller interferes with a read by its result and by the chunks it sends.
LEMMA ControllerReads ==
  ASSUME ReadInv, Controller
  PROVE  ReadInv'
<1>0. CHUNKS \in Nat \ {0} /\ sent \in Nat /\ fifo \in Nat
  BY FloppyAssumption DEF ReadInv
<1>1. CASE Completes
  <2>1. /\ UNCHANGED <<pc, client, buffer, error, command, target, fifo, sent, outcome, oops>>
        /\ command # "read"
    BY <1>1 DEF Completes
  <2> QED
    BY <2>1 DEF ReadInv, ReadGoesWell, client, Holds, Kept, ReadIsWhole, InRead
<1>2. CASE Sends
  <2>1. /\ UNCHANGED <<pc, client, buffer, error, phase, command, target, outcome, oops>>
        /\ fifo' = fifo + 1 /\ sent' = sent + 1 /\ phase = "execution"
    BY <1>2 DEF Sends
  <2>2. sent' \in Nat /\ fifo' \in Nat /\ (fifo <= sent => fifo' <= sent')
    BY <1>0, <2>1
  <2>3. Kept' = Kept
    <3>1. sent' - fifo' = sent - fifo
      BY <1>0, <2>1
    <3> QED BY <3>1 DEF Kept
  <2> QED
    BY <2>1, <2>2, <2>3 DEF ReadInv, ReadGoesWell, client, Holds, ReadIsWhole
<1>3. CASE Ends
  <2>1. /\ UNCHANGED <<pc, client, buffer, error, command, target, fifo, sent, oops>>
        /\ oops = "none"
        /\ fifo = 0 /\ phase' = "result"
    BY <1>3 DEF Ends
  <2> QED
    BY <2>1 DEF ReadInv, ReadGoesWell, client, Holds, Kept, ReadIsWhole, InRead
<1> QED BY <1>1, <1>2, <1>3 DEF Controller

\* Before the storage asks for anything nothing is read.
LEMMA NothingReadBefore ==
  ASSUME ReadInv, pc \in Before, pc' \in Before \cup {"idle"},
         buffer' = buffer, lba' = lba, count' = count,
         sent' \in Nat, fifo' \in Nat
  PROVE  ReadInv'
<1> SUFFICES ASSUME lba \in Nat PROVE ReadGoesWell'
  BY DEF ReadInv
<1>1. ReadGoesWell
  BY DEF ReadInv
<1>2. buffer' = <<>> /\ lba' = 0 /\ count' = 0
  BY <1>1 DEF ReadGoesWell
<1>3. ReadIsWhole'
  <2>1. Sectors(0, 0 + 0) = <<>>
    <3>1. (0 + 0 - 0) * CHUNKS = 0
      BY FloppyAssumption
    <3> QED BY <3>1 DEF Sectors
  <2> QED BY <1>2, <2>1 DEF ReadIsWhole
<1> QED BY <1>2, <1>3 DEF ReadGoesWell, Before, InRead

LEMMA StartUpReads ==
  ASSUME ReadInv,
         Probe \/ Reset \/ Configure \/ Recalibrate \/ RecalibrateCommand \/ SenseInterrupt
  PROVE  ReadInv'
<1>0. sent \in Nat /\ fifo \in Nat
  BY DEF ReadInv
<1>1. \A c, s : Written(c, s) => sent' \in Nat /\ fifo' \in Nat
  BY DEF Written
<1>2. CASE Probe
  BY <1>0, <1>2, NothingReadBefore DEF Probe, At, Panics, Before, client, controller
<1>3. CASE Reset
  BY <1>1, <1>3, NothingReadBefore DEF Reset, At, Before, client
<1>4. CASE Configure
  BY <1>0, <1>4, NothingReadBefore DEF Configure, Interrupted, At, Fails, Panics, Before
<1>5. CASE Recalibrate
  BY <1>0, <1>5, NothingReadBefore DEF Recalibrate, At, Before, client, controller
<1>6. NextDrive => pc' \in Before \cup {"idle"}
  BY DEF NextDrive, Before
<1>7. ASSUME NEW s, Recalibrated(s), pc \in Before
      PROVE  pc' \in Before \cup {"idle"}
  BY <1>6, <1>7, Zenon DEF Recalibrated, Fails, Panics
<1>8. CASE RecalibrateCommand
  <2>1. pc \in Before /\ buffer' = buffer /\ lba' = lba /\ count' = count
    BY <1>8 DEF RecalibrateCommand, At, Before
  <2>2. pc' \in Before \cup {"idle"}
    <3>1. "recalibrateWait" \in Before
      BY DEF Before
    <3> QED BY <1>7, <1>8, <2>1, <3>1, Zenon DEF RecalibrateCommand
  <2>3. sent' \in Nat /\ fifo' \in Nat
    BY <1>0, <1>1, <1>8, Zenon DEF RecalibrateCommand, controller
  <2> QED BY <2>1, <2>2, <2>3, NothingReadBefore
<1>9. CASE SenseInterrupt
  <2>1. /\ pc \in Before /\ buffer' = buffer /\ lba' = lba /\ count' = count
        /\ sent' = sent /\ fifo' = fifo
    BY <1>9 DEF SenseInterrupt, Interrupted, At, Before
  <2>2. pc' \in Before \cup {"idle"}
    BY <1>7, <1>9, <2>1, Zenon DEF SenseInterrupt
  <2> QED BY <1>0, <2>1, <2>2, NothingReadBefore
<1> QED BY <1>2, <1>3, <1>4, <1>5, <1>8, <1>9

LEMMA AsksReads ==
  ASSUME ReadInv, Asks
  PROVE  ReadInv'
<1>1. /\ pc' = "prepare" /\ buffer' = <<>> /\ sent' = sent /\ fifo' = fifo
  BY DEF Asks, Read, controller
<1>2. Holds(0)'
  BY <1>1 DEF Holds
<1> QED BY <1>1, <1>2 DEF ReadInv, ReadGoesWell, Before, InRead, ReadIsWhole

\* A chunk is kept until the sector is whole, and dropped after that.
LEMMA DrainReads ==
  ASSUME ReadInv, Drain
  PROVE  ReadInv'
<1>0. CHUNKS \in Nat \ {0} /\ sent \in Nat /\ fifo \in Nat
  BY FloppyAssumption DEF ReadInv
<1>1. /\ pc = "drain" /\ pc' = "drain" /\ fifo > 0 /\ fifo' = fifo - 1 /\ sent' = sent
      /\ lba' = lba /\ count' = count /\ error' = error
      /\ phase' = phase /\ command' = command /\ target' = target /\ outcome' = outcome
      /\ oops = "none"
  BY DEF Drain, At, client
<1> SUFFICES ASSUME lba \in Nat PROVE ReadGoesWell'
  BY <1>0, <1>1 DEF ReadInv
<1>2. ReadGoesWell /\ pc \in InRead /\ oops = "none"
  BY <1>1 DEF ReadInv, InRead
<1>3. /\ command = "read" /\ fifo <= sent
      /\ phase = "execution"
  BY <1>0, <1>1, <1>2 DEF ReadGoesWell
<1>4. PICK b \in Nat : target = lba2chs(lba + b) /\ Holds(b * CHUNKS + Kept)
  BY <1>2 DEF ReadGoesWell
<1>5. Holds(b * CHUNKS + Kept)'
  <2> DEFINE r == sent - fifo
  <2>0. r \in Nat /\ sent' - fifo' = r + 1
    BY <1>0, <1>1, <1>3
  <2>1. CASE r < CHUNKS
    <3>1. Kept = r /\ Kept' = r + 1
      BY <1>0, <2>0, <2>1 DEF Kept
    <3>2. b * CHUNKS + r \in Nat /\ Chunk(lba + b, r) = Chunk(lba, b * CHUNKS + r)
      BY <2>0, <2>1, ChunkFollows
    <3>3. chs2lba(target) = lba + b
      <4>1. lba + b \in Nat
        OBVIOUS
      <4> QED BY <1>4, <4>1, AddressOfSector
    <3>4. buffer' = Append(buffer, Chunk(chs2lba(target), r))
      BY <2>1 DEF Drain, Wanted, currentBytes
    <3> DEFINE n == b * CHUNKS + r
               S == {Chunk(lba, k - 1) : k \in 1 .. n + 1}
    <3>5. n \in Nat /\ buffer = [k \in 1 .. n |-> Chunk(lba, k - 1)]
          /\ buffer' = Append(buffer, Chunk(lba, n))
      BY <1>4, <3>1, <3>2, <3>3, <3>4 DEF Holds
    <3>6. b * CHUNKS + (r + 1) = n + 1
      BY <3>2, <2>0, <1>0
    <3> HIDE DEF n, r
    <3>7. buffer' = [k \in 1 .. n + 1 |-> Chunk(lba, k - 1)]
      BY <3>5
    <3>8. n + 1 \in Nat
      BY <3>5
    <3> QED BY <1>1, <3>1, <3>6, <3>7, <3>8 DEF Holds
  <2>2. CASE ~ (r < CHUNKS)
    <3>1. Kept = CHUNKS /\ Kept' = CHUNKS
      BY <1>0, <2>0, <2>2 DEF Kept
    <3>2. buffer' = buffer
      BY <2>2 DEF Drain, Wanted, currentBytes
    <3> QED BY <1>1, <1>4, <3>1, <3>2 DEF Holds
  <2> QED BY <2>1, <2>2
<1>6. fifo' <= sent'
  BY <1>0, <1>1, <1>3
<1> QED BY <1>1, <1>3, <1>4, <1>5, <1>6 DEF ReadGoesWell, Before, InRead, ReadIsWhole

LEMMA TransferReads ==
  ASSUME ReadInv, ReadInterrupted \/ Drained \/ More
  PROVE  ReadInv'
<1>1. /\ pc \in {"readWait", "drain", "more"} /\ pc' \in InRead
      /\ pc' = "results" => phase # "execution"
      /\ oops = "none"
      /\ UNCHANGED <<client, buffer, error, phase, command, target, fifo, sent, outcome>>
  BY DEF ReadInterrupted, Interrupted, Drained, More, At, controller, InRead
<1> QED
  BY <1>1 DEF ReadInv, ReadGoesWell, client, Holds, Kept, ReadIsWhole, InRead, Before

LEMMA ResultsReads ==
  ASSUME ReadInv, Results
  PROVE  ReadInv'
<1>0. CHUNKS \in Nat \ {0} /\ sent \in Nat /\ fifo \in Nat
  BY FloppyAssumption DEF ReadInv
<1>1. /\ pc = "results" /\ lba' = lba /\ count' = count /\ buffer' = buffer
      /\ target' = target /\ fifo' = fifo /\ sent' = sent /\ outcome' = outcome
      /\ oops = "none"
  BY DEF Results, At, client
<1> SUFFICES ASSUME lba \in Nat PROVE ReadGoesWell'
  BY <1>0, <1>1 DEF ReadInv
<1>2. ReadGoesWell /\ pc \in InRead /\ oops = "none" /\ phase = "result"
  BY <1>1 DEF ReadInv, ReadGoesWell, InRead
<1>3. fifo = 0
  BY <1>2 DEF ReadGoesWell
<1>4. CASE IsWhole /\ pc' = "sector" /\ error' = error
  <2>1. PICK b \in Nat : Holds(b * CHUNKS + Kept)
    BY <1>2 DEF ReadGoesWell
  <2>2. Kept = CHUNKS
    BY <1>0, <1>3, <1>4 DEF Kept, IsWhole, currentBytes
  <2>3. b * CHUNKS + CHUNKS = (b + 1) * CHUNKS /\ b + 1 \in Nat
    BY <1>0
  <2>4. Holds((b + 1) * CHUNKS)'
    BY <1>1, <2>1, <2>2, <2>3 DEF Holds
  <2> QED BY <1>4, <2>3, <2>4 DEF ReadGoesWell, Before, InRead, ReadIsWhole
<1>5. CASE pc' = "idle" /\ error' # "NONE"
  BY <1>5 DEF ReadGoesWell, Before, InRead, ReadIsWhole
<1>6. CASE pc' = pc /\ oops' # "none"
  BY <1>1, <1>6 DEF ReadGoesWell, Before, InRead, ReadIsWhole
<1>7. \/ IsWhole /\ pc' = "sector" /\ error' = error
      \/ pc' = "idle" /\ error' # "NONE"
      \/ pc' = pc /\ oops' # "none"
  BY Zenon DEF Results, Panics
<1> QED BY <1>4, <1>5, <1>6, <1>7

LEMMA SectorReads ==
  ASSUME ReadInv, Prepare \/ Return \/ ReadCommand \/ ClearInterrupt
  PROVE  ReadInv'
<1>0. CHUNKS \in Nat \ {0} /\ sent \in Nat /\ fifo \in Nat
  BY FloppyAssumption DEF ReadInv
<1>1. CASE Prepare
  <2>1. /\ pc = "prepare" /\ oops = "none" /\ pc' \in {"prepare", "sector"}
        /\ UNCHANGED <<client, buffer, error, phase, command, target, fifo, sent, outcome>>
    BY <1>1 DEF Prepare, At, Panics, controller
  <2>2. 0 \in Nat /\ 0 * CHUNKS = 0
    BY <1>0
  <2>3. lba \in Nat => ReadGoesWell /\ Holds(0 * CHUNKS) /\ Holds(0)
    BY <2>1, <2>2 DEF ReadInv, ReadGoesWell
  <2>4. lba \in Nat => Holds(0 * CHUNKS)' /\ Holds(0)'
    BY <2>1, <2>3 DEF Holds, client
  <2> QED
    BY <1>0, <2>1, <2>2, <2>4 DEF ReadInv, ReadGoesWell, client, ReadIsWhole, InRead, Before
<1>2. CASE Return
  <2>1. /\ pc = "sector" /\ pc' = "idle"
        /\ lba' = lba /\ count' = count /\ buffer' = buffer /\ fifo' = fifo /\ sent' = sent
    BY <1>2 DEF Return, At, client, controller
  <2> SUFFICES ASSUME lba \in Nat PROVE ReadGoesWell'
    BY <1>0, <2>1 DEF ReadInv
  <2>2. PICK b \in Nat : Holds(b * CHUNKS)
    BY <2>1 DEF ReadInv, ReadGoesWell
  <2>3. (currentSector = count /\ error' = "NONE") \/ error' # "NONE"
    BY <1>2, Zenon DEF Return
  <2>4. CASE currentSector = count
    <3>1. count = b
      BY <2>2, <2>4, SectorsHeld
    <3>2. (lba + b - lba) * CHUNKS = b * CHUNKS
      BY <1>0
    <3>3. buffer = Sectors(lba, lba + count)
      BY <2>2, <3>1, <3>2 DEF Holds, Sectors
    <3>4. ReadIsWhole'
      BY <2>1, <3>3 DEF ReadIsWhole
    <3> QED BY <2>1, <3>4 DEF ReadGoesWell, Before, InRead
  <2>5. CASE error' # "NONE"
    BY <2>1, <2>5 DEF ReadGoesWell, Before, InRead, ReadIsWhole
  <2> QED BY <2>3, <2>4, <2>5
<1>3. CASE ReadCommand
  <2>1. /\ pc = "readCommand" /\ oops = "none" /\ drive' = drive
        /\ lba' = lba /\ count' = count /\ buffer' = buffer /\ error' = error
    BY <1>3 DEF ReadCommand, At, client
  <2>2. CASE Written("read", Sector) /\ pc' = "readWait"
    <3>1. /\ phase' = "execution" /\ command' = "read" /\ target' = lba2chs(lba + currentSector)
          /\ fifo' = 0 /\ sent' = 0
      BY <2>2 DEF Written, Sector
    <3> SUFFICES ASSUME lba \in Nat PROVE ReadGoesWell'
      BY <3>1, <2>1 DEF ReadInv
    <3>2. PICK b \in Nat : Holds(b * CHUNKS)
      BY <2>1 DEF ReadInv, ReadGoesWell
    <3>3. currentSector = b
      BY <3>2, SectorsHeld
    <3>4. Kept' = 0 /\ b * CHUNKS + 0 = b * CHUNKS
      BY <1>0, <3>1 DEF Kept
    <3>5. Holds(b * CHUNKS + Kept)'
      BY <2>1, <3>2, <3>4 DEF Holds
    <3>6. target' = lba2chs(lba' + b)
      BY <2>1, <3>1, <3>3
    <3> QED BY <2>2, <3>1, <3>5, <3>6 DEF ReadGoesWell, Before, InRead, ReadIsWhole
  <2>3. CASE pc' = pc /\ UNCHANGED controller
    <3>1. UNCHANGED Reading
      BY <2>1, <2>3 DEF Reading, client, controller
    <3> QED BY <2>1, <3>1, NothingIsRead
  <2> QED BY <1>3, <2>2, <2>3, Zenon DEF ReadCommand, Panics
<1>4. CASE ClearInterrupt
  <2>1. UNCHANGED <<client, buffer, error, phase, command, target, fifo, sent, outcome, oops>>
    BY <1>4 DEF ClearInterrupt, controller
  <2>2. \/ pc = "reset" /\ pc' = "resetCommand"
        \/ pc = "recalibrateClear" /\ pc' = "recalibrateCommand"
        \/ pc = "sector" /\ pc' = "readCommand"
    BY <1>4 DEF ClearInterrupt, Clear, At
  <2> QED
    BY <2>1, <2>2 DEF ReadInv, ReadGoesWell, client, Holds, Kept, ReadIsWhole, InRead, Before
<1> QED BY <1>1, <1>2, <1>3, <1>4

LEMMA EveryStepReads ==
  ASSUME ReadInv, Tick \/ Controller \/ Driver \/ Asks \/ Idles
  PROVE  ReadInv'
<1>1. CASE Tick
  <2>1. UNCHANGED Reading /\ oops' = oops
    BY <1>1, Zenon DEF Tick, Reading, controller
  <2> QED BY <2>1, NothingIsRead
<1>2. CASE Idles
  BY <1>2, NothingIsRead DEF Idles
<1>3. CASE Poll \/ Expire
  <2>1. UNCHANGED Reading /\ oops = "none"
    BY <1>3, Zenon DEF Poll, Expire, Reading, controller, At, Fails, Panics
  <2> QED BY <2>1, NothingIsRead
<1>4. CASE Driver
  BY <1>3, <1>4, StartUpReads, SectorReads, TransferReads, DrainReads, ResultsReads DEF Driver
<1> QED BY <1>1, <1>2, <1>4, ControllerReads, AsksReads

-----------------------------------------------------------------------------
(* The chain of clusters: a recursive definition, and what it computes.    *)

\* A set of natural numbers with a member has a least one.
LEMMA LeastNumber ==
  ASSUME NEW S, S \subseteq Nat, S # {}
  PROVE  \E x \in S : \A y \in S : x <= y
<1> DEFINE R == OpToRel(<, Nat)
<1>1. \A x, y \in Nat : y < x => <<y, x>> \in R
  BY Zenon DEF OpToRel
<1>2. \E x \in S : \A y \in S : ~ (<<y, x>> \in R)
  BY NatLessThanWellFounded, WFMin
<1> HIDE DEF R
<1>3. PICK x \in S : \A y \in S : ~ (<<y, x>> \in R)
  BY <1>2
<1>4. \A y \in S : ~ (y < x)
  BY <1>1, <1>3
<1> QED BY <1>4

\* The first n steps of g from c.
Steps(V, g, c, n) ==
  {f \in [0 .. n -> V] : f[0] = c /\ \A i \in 0 .. n - 1 : f[i + 1] = g[f[i]]}

LEMMA StepsAgree ==
  ASSUME NEW V, NEW g \in [V -> V], NEW c \in V, NEW m \in Nat, NEW n \in Nat,
         NEW f \in Steps(V, g, c, m), NEW h \in Steps(V, g, c, n)
  PROVE  \A i \in Nat : i <= m /\ i <= n => f[i] = h[i]
<1> DEFINE S == {i \in Nat : i <= m /\ i <= n /\ f[i] # h[i]}
<1> SUFFICES ASSUME S # {} PROVE FALSE
  OBVIOUS
<1>1. PICK i \in S : \A y \in S : i <= y
  BY LeastNumber
<1>2. i # 0
  BY DEF Steps
<1>3. i - 1 \in Nat /\ i - 1 \in 0 .. m - 1 /\ i - 1 \in 0 .. n - 1 /\ i - 1 + 1 = i
  BY <1>2
<1>4. f[i] = g[f[i - 1]] /\ h[i] = g[h[i - 1]]
  <2>1. f[i - 1 + 1] = g[f[i - 1]] /\ h[i - 1 + 1] = g[h[i - 1]]
    BY <1>3 DEF Steps
  <2> QED BY <1>3, <2>1
<1>5. f[i - 1] = h[i - 1]
  <2>1. i - 1 \notin S
    BY <1>1, <1>3
  <2> QED BY <1>3, <2>1
<1> QED BY <1>1, <1>4, <1>5

LEMMA StepsExist ==
  ASSUME NEW V, NEW g \in [V -> V], NEW c \in V
  PROVE  \A n \in Nat : Steps(V, g, c, n) # {}
<1> DEFINE S == {n \in Nat : Steps(V, g, c, n) = {}}
<1> SUFFICES ASSUME S # {} PROVE FALSE
  OBVIOUS
<1>1. PICK n \in S : \A y \in S : n <= y
  BY LeastNumber
<1>2. n # 0
  <2> DEFINE k == [i \in 0 .. 0 |-> c]
  <2>1. k \in [0 .. 0 -> V] /\ k[0] = c /\ \A i \in 0 .. 0 - 1 : k[i + 1] = g[k[i]]
    OBVIOUS
  <2> HIDE DEF k
  <2>2. k \in Steps(V, g, c, 0)
    BY <2>1 DEF Steps
  <2> QED BY <2>2
<1>3. n - 1 \in Nat /\ n - 1 \notin S
  BY <1>1, <1>2
<1>4. PICK f : f \in Steps(V, g, c, n - 1)
  BY <1>3
<1> DEFINE h == [i \in 0 .. n |-> IF i = n THEN g[f[n - 1]] ELSE f[i]]
<1>5. f \in [0 .. n - 1 -> V] /\ f[0] = c /\ \A i \in 0 .. n - 1 - 1 : f[i + 1] = g[f[i]]
  BY <1>4 DEF Steps
<1>6. h \in [0 .. n -> V] /\ h[0] = c
  BY <1>2, <1>5
<1>7. ASSUME NEW i \in 0 .. n - 1 PROVE h[i + 1] = g[h[i]]
  <2>1. CASE i = n - 1
    BY <2>1, <1>5
  <2>2. CASE i # n - 1
    <3>1. i \in 0 .. n - 1 - 1 /\ i + 1 \in 0 .. n /\ i + 1 # n /\ i # n /\ i \in 0 .. n
      BY <2>2
    <3> QED BY <3>1, <1>5
  <2> QED BY <2>1, <2>2
<1>8. h \in Steps(V, g, c, n)
  BY <1>6, <1>7 DEF Steps
<1> QED BY <1>8

IsIterated(V, g, c) ==
  \E f \in [Nat -> V] : f[0] = c /\ \A i \in Nat : f[i + 1] = g[f[i]]

LEMMA Iteration ==
  ASSUME NEW V, NEW g \in [V -> V], NEW c \in V
  PROVE  IsIterated(V, g, c)
<1> DEFINE F == [n \in Nat |-> CHOOSE f : f \in Steps(V, g, c, n)]
           f == [n \in Nat |-> F[n][n]]
<1>1. ASSUME NEW n \in Nat PROVE F[n] \in Steps(V, g, c, n)
  BY StepsExist
<1> HIDE DEF F
<1>2. ASSUME NEW n \in Nat PROVE F[n][n] \in V
  BY <1>1 DEF Steps
<1>3. f[0] = c
  BY <1>1 DEF Steps
<1>4. ASSUME NEW n \in Nat PROVE F[n + 1][n + 1] = g[F[n][n]]
  <2>1. F[n + 1] \in Steps(V, g, c, n + 1) /\ F[n] \in Steps(V, g, c, n)
    BY <1>1
  <2>2. F[n + 1][n + 1] = g[F[n + 1][n]]
    BY <2>1 DEF Steps
  <2>3. n + 1 \in Nat /\ n <= n /\ n <= n + 1
    OBVIOUS
  <2>4. F[n + 1][n] = F[n][n]
    BY <2>1, <2>3, StepsAgree
  <2> QED BY <2>2, <2>4
<1>5. f \in [Nat -> V]
  BY <1>2
<1>6. ASSUME NEW i \in Nat PROVE f[i + 1] = g[f[i]]
  <2>1. i + 1 \in Nat /\ f[i + 1] = F[i + 1][i + 1] /\ f[i] = F[i][i]
    OBVIOUS
  <2> QED BY <1>4, <2>1
<1> HIDE DEF f
<1> QED BY <1>3, <1>5, <1>6 DEF IsIterated

\* What the recursive definition of Chain computes: one entry of the table after
\* the other.
Follows(t, c) == IF c \in DOMAIN t THEN t[c] ELSE 0

\* The clusters w of a chain in table t.
IsChain(w, t) ==
  w \in [Nat -> Cluster] /\ \A i \in Nat : w[i + 1] = Follows(t, w[i])

LEMMA FollowsStays ==
  ASSUME NEW L \in Nat, NEW t \in [0 .. L -> Cluster], NEW x
  PROVE  Follows(t, x) \in Cluster
<1>1. 0 \in Cluster
  BY DEF Cluster
<1> HIDE DEF Cluster
<1> QED BY <1>1 DEF Follows

LEMMA ChainFollows ==
  ASSUME NEW d, NEW L \in Nat, d.table \in [0 .. L -> Cluster], NEW c \in Cluster
  PROVE  IsChain(Chain(d, c), d.table) /\ Chain(d, c)[0] = c
<1> DEFINE g == [x \in Cluster |-> Follows(d.table, x)]
           Step(f) == [i \in Nat |-> IF i = 0 THEN c
                                     ELSE IF f[i - 1] \in DOMAIN d.table THEN d.table[f[i - 1]]
                                          ELSE 0]
<1>0. \A x : Follows(d.table, x) \in Cluster
  BY FollowsStays
<1>1. g \in [Cluster -> Cluster] /\ \A x \in Cluster : g[x] = Follows(d.table, x)
  BY <1>0
<1> HIDE DEF g
<1>2. PICK f \in [Nat -> Cluster] : f[0] = c /\ \A i \in Nat : f[i + 1] = g[f[i]]
  <2>1. IsIterated(Cluster, g, c)
    BY <1>1, Iteration
  <2> QED BY <2>1 DEF IsIterated
<1>3. f = Step(f)
  <2> SUFFICES \A i \in Nat : f[i] = IF i = 0 THEN c ELSE Follows(d.table, f[i - 1])
    BY <1>2 DEF Follows
  <2> TAKE i \in Nat
  <2>1. CASE i = 0
    BY <1>2, <2>1
  <2>2. CASE i # 0
    <3>1. i - 1 \in Nat /\ i - 1 + 1 = i
      BY <2>2
    <3>2. f[i] = Follows(d.table, f[i - 1]) /\ f[i - 1] \in Cluster
      BY <1>1, <1>2, <3>1
    <3> QED BY <2>2, <3>2
  <2> QED BY <2>1, <2>2
<1>4. Chain(d, c) = CHOOSE h : h = Step(h)
  BY Zenon DEF Chain
<1>5. Chain(d, c) = Step(Chain(d, c))
  <2> HIDE DEF Step
  <2> QED BY <1>3, <1>4, Zenon
<1> DEFINE w == Chain(d, c)
<1>6. \A i \in Nat : w[i] = IF i = 0 THEN c ELSE Follows(d.table, w[i - 1])
  BY <1>5 DEF Follows
<1>7. DOMAIN w = Nat /\ w = [i \in Nat |-> w[i]]
  <2> DEFINE W == w
  <2>1. \A h : DOMAIN Step(h) = Nat /\ Step(h) = [i \in Nat |-> Step(h)[i]]
    OBVIOUS
  <2> HIDE DEF Step, w
  <2> QED BY <1>5, <2>1 DEF w
<1> HIDE DEF w
<1>8. w[0] = c /\ \A i \in Nat : w[i + 1] = Follows(d.table, w[i])
  <2>1. \A i \in Nat : i + 1 \in Nat /\ i + 1 # 0 /\ i + 1 - 1 = i
    OBVIOUS
  <2> QED BY <1>6, <2>1
<1>9. \A i \in Nat : w[i] \in Cluster
  BY <1>0, <1>6
<1>10. w \in [Nat -> Cluster]
  BY <1>7, <1>9
<1> QED BY <1>8, <1>10 DEF IsChain, w

-----------------------------------------------------------------------------
(* The table, as the file system reads it.                                 *)

\* Two entries of 12 bits in three bytes.
LEMMA TwoEntries ==
  ASSUME NEW L \in Nat, NEW t \in [0 .. L -> Cluster], NEW k \in Nat, 2 * k <= L
  PROVE  LET odd == IF 2 * k + 1 <= L THEN t[2 * k + 1] ELSE 0
         IN /\ {3 * k, 3 * k + 1, 3 * k + 2} \subseteq DOMAIN Bytes(t)
            /\ Bytes(t)[3 * k] = t[2 * k] % 256
            /\ Bytes(t)[3 * k + 1] = ((odd % 16) * 16) + (t[2 * k] \div 256)
            /\ Bytes(t)[3 * k + 2] = odd \div 16
<1> DEFINE E(c) == IF c \in DOMAIN t THEN t[c] ELSE 0
           last == 3 * ((Cardinality(DOMAIN t) + 1) \div 2) - 1
           B(i) == CASE i % 3 = 0 -> E(2 * (i \div 3)) % 256
                     [] i % 3 = 1 -> ((E(2 * (i \div 3) + 1) % 16) * 16)
                                       + (E(2 * (i \div 3)) \div 256)
                     [] OTHER -> E(2 * (i \div 3) + 1) \div 16
<1>1. Bytes(t) = [i \in 0 .. last |-> B(i)]
  BY DEF Bytes
<1>2. Cardinality(DOMAIN t) = L + 1
  <2>1. Cardinality(0 .. L) = L - 0 + 1
    BY FS_Interval
  <2> QED BY <2>1
<1>3. 3 * k + 2 <= last
  BY <1>2
<1>4. /\ (3 * k) \div 3 = k /\ (3 * k) % 3 = 0
      /\ (3 * k + 1) \div 3 = k /\ (3 * k + 1) % 3 = 1
      /\ (3 * k + 2) \div 3 = k /\ (3 * k + 2) % 3 = 2
  OBVIOUS
<1>5. E(2 * k) = t[2 * k] /\ E(2 * k + 1) = IF 2 * k + 1 <= L THEN t[2 * k + 1] ELSE 0
  OBVIOUS
<1>6. last \in Int
  BY <1>2
<1> HIDE DEF last
<1>7. {3 * k, 3 * k + 1, 3 * k + 2} \subseteq 0 .. last
  BY <1>3, <1>6
<1>8. /\ B(3 * k) = E(2 * k) % 256
      /\ B(3 * k + 1) = ((E(2 * k + 1) % 16) * 16) + (E(2 * k) \div 256)
      /\ B(3 * k + 2) = E(2 * k + 1) \div 16
  <2> DEFINE C(i, q, m) == CASE m = 0 -> E(2 * q) % 256
                             [] m = 1 -> ((E(2 * q + 1) % 16) * 16) + (E(2 * q) \div 256)
                             [] OTHER -> E(2 * q + 1) \div 16
  <2>1. \A i : B(i) = C(i, i \div 3, i % 3)
    OBVIOUS
  <2> HIDE DEF B, E
  <2>2. /\ C(3 * k, k, 0) = E(2 * k) % 256
        /\ C(3 * k + 1, k, 1) = ((E(2 * k + 1) % 16) * 16) + (E(2 * k) \div 256)
        /\ C(3 * k + 2, k, 2) = E(2 * k + 1) \div 16
    OBVIOUS
  <2> HIDE DEF C
  <2> QED BY <1>4, <2>1, <2>2
<1> HIDE DEF B
<1>9. /\ Bytes(t)[3 * k] = B(3 * k) /\ Bytes(t)[3 * k + 1] = B(3 * k + 1)
      /\ Bytes(t)[3 * k + 2] = B(3 * k + 2)
      /\ DOMAIN Bytes(t) = 0 .. last
  BY <1>1, <1>7
<1> HIDE DEF E
<1> QED BY <1>5, <1>7, <1>8, <1>9

LEMMA EvenEntry ==
  ASSUME NEW even \in Cluster, NEW odd \in Cluster
  PROVE  (((((odd % 16) * 16) + (even \div 256)) % 16) * 256) + (even % 256) = even
BY DEF Cluster

LEMMA OddEntry ==
  ASSUME NEW even \in Cluster, NEW odd \in Cluster
  PROVE  ((odd \div 16) * 16) + ((((odd % 16) * 16) + (even \div 256)) \div 16) = odd
BY DEF Cluster

\* A disk with a file system the code takes for FAT12, and how large it is.
IsTaken(d) == d \in Disk /\ detect(d.header, SECTORS, SECTOR_BYTES)

IsSized(h, last, size) ==
  /\ h \in dos_4_0_ebpb_t /\ h.bytesPerLogicalSector = SECTOR_BYTES
  /\ firstClusterSector(h) \in Nat /\ size \in Nat
  /\ last \in 2 .. MAX_FILE_CLUSTER /\ last <= h.totalLogicalSectors
  /\ 3 * (last + 1) <= 2 * size
StartsWithin(h, last) == \A e : validateDirEntry(h, e) => e.firstLogicalCluster <= last

LEMMA Geometry ==
  ASSUME NEW d, IsTaken(d), IsPlain(d)
  PROVE  /\ IsSized(d.header, lastCluster(d.header), d.header.logicalSectorsPerFAT * SECTOR_BYTES)
         /\ StartsWithin(d.header, lastCluster(d.header))
<1> DEFINE h == d.header
           B == h.bytesPerLogicalSector
           R == h.reservedLogicalSectors
           F == h.logicalSectorsPerFAT
           T == h.totalLogicalSectors
           D == h.maxRootDirectoryEntries * DIR_BYTES
           K == D \div B
<1>1. h \in dos_4_0_ebpb_t /\ DIR_BYTES \in Nat
  BY StorageAssumption, Fat12Assumption DEF IsTaken
<1>2. R \in Nat /\ F \in Nat /\ T \in Nat /\ h.maxRootDirectoryEntries \in Nat
  BY <1>1 DEF dos_4_0_ebpb_t
<1>3. h.logicalSectorsPerCluster = 1 /\ h.numberOfFATs = 2 /\ h.hiddenSectors = 0
  BY DEF IsPlain
<1>4. B = SECTOR_BYTES /\ B \in Nat \ {0}
  BY StorageAssumption DEF IsTaken, detect
<1>5. D \in Nat /\ K \in Nat
  <2>1. D \in Nat
    BY <1>1, <1>2
  <2> HIDE DEF D, B
  <2> QED BY <1>4, <2>1, Division
<1> DEFINE U == R + 2 * F + K
           dataSectors == T - U - 0
           dataClusters == dataSectors \div 1
           fatBytesOf == F * B
<1>6. /\ U < T - 0 /\ h.maxRootDirectoryEntries # 0
      /\ h.maxRootDirectoryEntries <= dataClusters
      /\ dataClusters <= (fatBytesOf * 2) \div 3 - 2
  <2>1. detect(h, SECTORS, SECTOR_BYTES)
    BY DEF IsTaken
  <2> HIDE DEF h
  <2> QED BY <1>3, <2>1 DEF detect
<1>7. fatBytesOf \in Nat /\ U \in Nat
  <2> HIDE DEF F, B, R, K
  <2> QED BY <1>2, <1>4, <1>5
<1>8. firstClusterSector(h) = U
  <2>1. firstClusterSector(h) = (R * B + 2 * F * B + D) \div B
    <3> HIDE DEF h
    <3> QED BY <1>3 DEF firstClusterSector, directoryRange, fatRange
  <2> HIDE DEF R, F, B, D
  <2>2. D % B \in Nat /\ D % B < B /\ D = B * K + (D % B)
    BY <1>4, <1>5, Division
  <2> DEFINE r == D % B
  <2> HIDE DEF r, K
  <2>3. R * B + 2 * F * B + D = B * U + r
    <3>1. B * U = R * B + 2 * F * B + B * K
      BY <1>2, <1>4, <1>5
    <3>2. R * B \in Nat /\ 2 * F * B \in Nat /\ B * K \in Nat
      BY <1>2, <1>4, <1>5
    <3>3. D = B * K + r /\ r \in Nat
      BY <2>2 DEF r
    <3> DEFINE a == R * B
               b == 2 * F * B
               e == B * K
    <3>4. B * U = a + b + e /\ D = e + r /\ a \in Nat /\ b \in Nat /\ e \in Nat
      BY <3>1, <3>2, <3>3
    <3> HIDE DEF a, b, e
    <3>5. a + b + D = B * U + r
      BY <3>3, <3>4
    <3> QED BY <3>5 DEF a, b
  <2>4. (B * U + r) \div B = U
    BY <1>4, <1>7, <2>2, DivisionIsUnique DEF r
  <2> QED BY <2>1, <2>3, <2>4
<1>9. lastCluster(h) = T - U + 1
  <2>1. lastCluster(h) = (T - U) \div 1 + 1
    BY <1>3, <1>8 DEF lastCluster
  <2> HIDE DEF T, U
  <2> QED BY <1>2, <1>7, <2>1
<1>10. lastCluster(h) <= MAX_FILE_CLUSTER /\ MAX_FILE_CLUSTER \in Nat
  BY DEF IsPlain, MAX_FILE_CLUSTER
<1>11. 3 * (T - U + 2) <= 2 * fatBytesOf
  <2> HIDE DEF T, U, fatBytesOf
  <2>1. dataClusters = T - U
    BY <1>2, <1>7
  <2>2. T - U <= (fatBytesOf * 2) \div 3 - 2
    BY <1>6, <2>1
  <2> QED BY <1>2, <1>7, <2>2
<1>12. ASSUME NEW e, validateDirEntry(h, e)
       PROVE  e.firstLogicalCluster <= T - U + 1
  <2>1. e.firstLogicalCluster <= T - R - 2 * F - K + 1
    <3> HIDE DEF h
    <3> QED BY <1>3, <1>12 DEF validateDirEntry, directoryRange
  <2>2. T - R - 2 * F - K + 1 = T - U + 1
    <3> HIDE DEF T, R, F, K
    <3> QED BY <1>2, <1>5
  <2> QED BY <2>1, <2>2
<1>13. T - U + 1 \in 2 .. MAX_FILE_CLUSTER
  <2>1. T - U + 1 <= MAX_FILE_CLUSTER /\ U < T - 0 /\ T \in Nat /\ U \in Nat
        /\ MAX_FILE_CLUSTER \in Nat
    BY <1>2, <1>6, <1>7, <1>9, <1>10
  <2> HIDE DEF T, U
  <2> QED BY <2>1
<1>14. T - U + 1 <= T
  <2>1. U # 0
    <3>1. R # 0
      <4>1. detect(h, SECTORS, SECTOR_BYTES)
        BY DEF IsTaken
      <4> HIDE DEF h
      <4> QED BY <4>1 DEF detect
    <3> HIDE DEF R, F, K
    <3> QED BY <1>2, <1>5, <3>1
  <2> HIDE DEF T, U
  <2> QED BY <1>2, <1>7, <2>1
<1> HIDE DEF U
<1>15. 3 * (T - U + 1 + 1) <= 2 * (F * SECTOR_BYTES) /\ F * SECTOR_BYTES \in Nat
  <2>1. T - U + 1 + 1 = T - U + 2
    BY <1>2, <1>7
  <2> QED BY <1>4, <1>7, <1>11, <2>1
<1>16. StartsWithin(h, lastCluster(h))
  BY <1>9, <1>12 DEF StartsWithin
<1>17. IsSized(h, T - U + 1, F * SECTOR_BYTES)
  <2> HIDE DEF h
  <2> QED BY <1>1, <1>4, <1>7, <1>8, <1>13, <1>14, <1>15, Zenon DEF IsSized
<1> QED BY <1>9, <1>16, <1>17

\* The next cluster is what the table says.
LEMMA TableIsDecoded ==
  ASSUME NEW d, IsTaken(d), IsPlain(d), NEW c \in 0 .. lastCluster(d.header)
  PROVE  nextCluster(fatBytes(d), c) = d.table[c]
<1> DEFINE t == d.table
           L == lastCluster(d.header)
           size == d.header.logicalSectorsPerFAT * SECTOR_BYTES
           fat == fatBytes(d)
<1>1. L \in Nat /\ t \in [0 .. L -> Cluster] /\ size \in Nat /\ 3 * (L + 1) <= 2 * size
  <2>1. IsSized(d.header, L, size)
    BY Geometry
  <2>2. t \in [0 .. L -> Cluster]
    BY Zenon DEF IsPlain
  <2> HIDE DEF L, size
  <2>3. L \in 2 .. MAX_FILE_CLUSTER /\ size \in Nat /\ 3 * (L + 1) <= 2 * size
    BY <2>1 DEF IsSized
  <2>4. L \in Nat
    BY <2>3 DEF MAX_FILE_CLUSTER
  <2> HIDE DEF t
  <2> QED BY <2>2, <2>3, <2>4
<1>2. \A i \in 0 .. size - 1 : i \in DOMAIN Bytes(t) => fat[i] = Bytes(t)[i]
  <2> DEFINE padded(x) == [i \in 0 .. size - 1 |-> IF i \in DOMAIN Bytes(x) THEN Bytes(x)[i] ELSE 0]
  <2>1. fat = [i \in 0 .. 2 * size - 1 |->
                 IF i < size THEN padded(t)[i] ELSE padded(d.copy)[i - size]]
    BY DEF fatBytes
  <2>2. \A i \in 0 .. size - 1 : i \in 0 .. 2 * size - 1 /\ i < size
    <3> HIDE DEF size
    <3> QED BY <1>1
  <2>3. \A i \in 0 .. size - 1 : fat[i] = padded(t)[i]
    <3> HIDE DEF padded, fat
    <3> QED BY <2>1, <2>2
  <2> HIDE DEF fat
  <2> QED BY <2>3
<1> HIDE DEF t, L, size, fat
<1>3. c \in Nat /\ c <= L
  BY <1>1 DEF L
<1>4. PICK k \in Nat : c = 2 * k \/ c = 2 * k + 1
  <2>1. c \div 2 \in Nat /\ c % 2 \in Nat /\ c % 2 < 2 /\ c = 2 * (c \div 2) + (c % 2)
    BY <1>3, Division
  <2> DEFINE k == c \div 2
             o == c % 2
  <2>2. k \in Nat /\ o \in Nat /\ o < 2 /\ c = 2 * k + o
    BY <2>1
  <2> HIDE DEF k, o
  <2> QED BY <2>2
<1> DEFINE even == t[2 * k]
           odd == IF 2 * k + 1 <= L THEN t[2 * k + 1] ELSE 0
<1>5. 2 * k <= L
  BY <1>1, <1>3, <1>4
<1>6. even \in Cluster /\ odd \in Cluster
  <2>1. 2 * k \in 0 .. L /\ 0 \in Cluster
    BY <1>5 DEF Cluster
  <2>2. 2 * k + 1 <= L => 2 * k + 1 \in 0 .. L
    OBVIOUS
  <2> HIDE DEF Cluster
  <2> QED BY <1>1, <2>1, <2>2
<1>7. /\ {3 * k, 3 * k + 1, 3 * k + 2} \subseteq DOMAIN Bytes(t)
      /\ Bytes(t)[3 * k] = even % 256
      /\ Bytes(t)[3 * k + 1] = ((odd % 16) * 16) + (even \div 256)
      /\ Bytes(t)[3 * k + 2] = odd \div 16
  BY <1>1, <1>5, TwoEntries
<1>8. 3 * k \in 0 .. size - 1 /\ 3 * k + 1 \in 0 .. size - 1
  BY <1>1, <1>5
<1>9. fat[3 * k] = even % 256 /\ fat[3 * k + 1] = ((odd % 16) * 16) + (even \div 256)
  BY <1>2, <1>7, <1>8
<1>10. CASE c = 2 * k
  <2>1. (3 * c) \div 2 = 3 * k /\ ~ (c % 2 = 1)
    BY <1>10
  <2>2. nextCluster(fat, c) = ((((odd % 16) * 16) + (even \div 256)) % 16) * 256 + (even % 256)
    BY <1>9, <2>1 DEF nextCluster
  <2> HIDE DEF even, odd
  <2>3. nextCluster(fat, c) = even
    BY <1>6, <2>2, EvenEntry
  <2> QED BY <1>10, <2>3 DEF even, fat, t
<1>11. CASE c = 2 * k + 1
  <2>1. (3 * c) \div 2 = 3 * k + 1 /\ c % 2 = 1 /\ 3 * k + 1 + 1 = 3 * k + 2
    BY <1>11
  <2>2. 3 * k + 2 \in 0 .. size - 1 /\ 2 * k + 1 <= L
    BY <1>1, <1>3, <1>11
  <2>3. fat[3 * k + 2] = odd \div 16 /\ odd = t[c]
    BY <1>2, <1>7, <1>11, <2>2
  <2>4. nextCluster(fat, c)
          = (odd \div 16) * 16 + ((((odd % 16) * 16) + (even \div 256)) \div 16)
    BY <1>9, <2>1, <2>3 DEF nextCluster
  <2> HIDE DEF even, odd
  <2>5. nextCluster(fat, c) = odd
    BY <1>6, <2>4, OddEntry
  <2> QED BY <2>3, <2>5 DEF fat, t
<1> QED BY <1>4, <1>10, <1>11

-----------------------------------------------------------------------------
(* Clusters that follow each other on the disk and in the table.           *)

\* From c to the last contiguous one, l, and not further.
IsRun(t, L, c, l) ==
  /\ l \in c .. L
  /\ \A b \in c .. l - 1 : t[b] = b + 1
  /\ ~ (t[l] = l + 1 /\ l + 1 <= L)

LEMMA RunIsFound ==
  ASSUME IsTaken(inserted), IsPlain(inserted),
         NEW c \in MIN_FILE_CLUSTER .. lastCluster(header)
  PROVE  IsRun(inserted.table, lastCluster(header), c, lastContiguous(c))
<1> DEFINE t == inserted.table
           h == header
           L == lastCluster(h)
           T == h.totalLogicalSectors
           Next12(b) == nextCluster(fatBytes(inserted), b)
           follows(b) == isContiguous(h, Location(h, b), Location(h, Next12(b)))
           StopsAt(l) == ~follows(l) /\ \A b \in c .. l - 1 : follows(b)
<1>1. /\ L \in 2 .. MAX_FILE_CLUSTER /\ MAX_FILE_CLUSTER \in Nat
      /\ L <= T /\ T \in Nat /\ MIN_FILE_CLUSTER = 2
  <2>1. IsSized(h, L, h.logicalSectorsPerFAT * SECTOR_BYTES)
    BY Geometry DEF header
  <2>2. h \in dos_4_0_ebpb_t /\ L \in 2 .. MAX_FILE_CLUSTER /\ L <= T
    BY <2>1, Zenon DEF IsSized
  <2>3. T \in Nat
    <3> HIDE DEF h
    <3> QED BY <2>2 DEF dos_4_0_ebpb_t
  <2> HIDE DEF L, T
  <2> QED BY <2>2, <2>3 DEF MAX_FILE_CLUSTER, MIN_FILE_CLUSTER
<1>10. L \in Nat /\ c \in Nat /\ c <= L /\ L \in c .. L /\ ~ (L + 1 <= L)
  <2>1. c \in 2 .. L
    BY <1>1
  <2> HIDE DEF L
  <2> QED BY <1>1, <2>1
<1>2. \A b \in 0 .. L : Next12(b) = t[b]
  BY TableIsDecoded DEF header
<1>3. ASSUME NEW b \in c .. L PROVE follows(b) <=> t[b] = b + 1 /\ b + 1 <= L
  <2> DEFINE n == Next12(b)
  <2>1. n = t[b]
    BY <1>1, <1>2, <1>3
  <2>2. \A x : Location(h, x).allocUnit = x
    BY DEF Location
  <2>3. follows(b) <=> /\ n = b + 1
                       /\ 2 <= b /\ b <= L /\ b <= MAX_FILE_CLUSTER
                       /\ 2 <= n /\ n <= L /\ n <= MAX_FILE_CLUSTER
    <3> HIDE DEF h, n
    <3> QED BY <1>1, <2>2, Zenon DEF isContiguous, isValidForRead, n, L
  <2> HIDE DEF n, L, t, follows
  <2> QED BY <1>1, <2>1, <2>3
<1>4. ASSUME NEW l, StopsAt(l), l \in Int, l >= c PROVE l <= L
  <2>1. L \in c .. L /\ ~follows(L)
    BY <1>3, <1>10
  <2> HIDE DEF L, follows
  <2>2. L \notin c .. l - 1
    BY <1>4, <2>1
  <2> QED BY <1>1, <1>4, <2>1, <2>2
<1>5. \E l \in c .. c + T : StopsAt(l)
  <2> DEFINE S == {l \in c .. L : ~follows(l)}
  <2>1. L \in S
    BY <1>3, <1>10
  <2> HIDE DEF L, T, follows
  <2>2. S \subseteq Nat /\ S # {}
    BY <1>1, <2>1
  <2>3. PICK l \in S : \A y \in S : l <= y
    BY <2>2, LeastNumber
  <2>4. ASSUME NEW b \in c .. l - 1 PROVE follows(b)
    <3>1. b \in c .. L /\ ~ (l <= b)
      BY <1>1, <2>3
    <3> QED BY <2>3, <3>1
  <2>5. l \in c .. c + T
    BY <1>1, <2>3
  <2> QED BY <2>3, <2>4, <2>5
<1> DEFINE l == lastContiguous(c)
<1>6. l \in c .. c + T /\ StopsAt(l)
  <2>1. l = CHOOSE x \in c .. c + T : StopsAt(x)
    BY DEF lastContiguous, header
  <2> HIDE DEF l, StopsAt, T
  <2> QED BY <1>5, <2>1
<1> HIDE DEF l
<1>7. l \in c .. L
  <2>1. l \in Int /\ l >= c
    BY <1>6
  <2>2. l <= L
    BY <1>4, <1>6, <2>1
  <2> HIDE DEF L
  <2> QED BY <1>1, <2>1, <2>2
<1>8. \A b \in c .. l - 1 : t[b] = b + 1
  <2> TAKE b \in c .. l - 1
  <2>1. b \in c .. L
    <3> HIDE DEF L
    <3> QED BY <1>1, <1>7
  <2> QED BY <1>3, <1>6, <2>1
<1>9. ~ (t[l] = l + 1 /\ l + 1 <= L)
  BY <1>3, <1>6, <1>7
<1> QED BY <1>7, <1>8, <1>9 DEF IsRun, l

\* In a run of n clusters from w[m] on, the chain goes from cluster to cluster.
Covers(w, t, L, m, n) ==
  /\ n \in Nat \ {0} /\ w[m] + n - 1 <= L
  /\ \A i \in m .. m + n - 1 : w[i] = w[m] + (i - m)
  /\ w[m + n] = t[w[m] + n - 1]

LEMMA ChainRuns ==
  ASSUME NEW L \in Nat, NEW t \in [0 .. L -> Cluster], NEW w, IsChain(w, t),
         NEW m \in Nat, NEW n \in Int, IsRun(t, L, w[m], w[m] + n - 1)
  PROVE  Covers(w, t, L, m, n)
<1> DEFINE c == w[m]
           l == c + n - 1
<1>0. IsRun(t, L, c, l) /\ \A i \in Nat : w[i] \in Cluster /\ w[i + 1] = Follows(t, w[i])
  BY DEF IsChain
<1>1. c \in Nat /\ l \in Nat /\ c <= l /\ l <= L /\ n \in Nat \ {0} /\ l - c = n - 1
  <2>1. c \in Cluster /\ l \in c .. L
    BY <1>0 DEF IsRun
  <2>2. Cluster \subseteq Nat
    BY DEF Cluster
  <2> HIDE DEF c
  <2> QED BY <2>1, <2>2
<1>2. c = w[m] /\ l = c + n - 1
  OBVIOUS
<1> HIDE DEF c, l
<1> DEFINE S == {i \in Nat : m <= i /\ i <= m + (l - c) /\ w[i] # c + (i - m)}
<1>3. S = {}
  <2> SUFFICES ASSUME S # {} PROVE FALSE
    OBVIOUS
  <2>1. PICK i \in S : \A y \in S : i <= y
    BY LeastNumber
  <2>2. i # m
    BY <1>1, <1>2, <2>1
  <2>3. i - 1 \in Nat /\ i - 1 + 1 = i /\ m <= i - 1 /\ i - 1 <= m + (l - c) /\ i - 1 \notin S
    BY <1>1, <2>1, <2>2
  <2>4. w[i - 1] = c + (i - 1 - m)
    BY <2>3
  <2>5. c + (i - 1 - m) \in c .. l - 1 /\ c + (i - 1 - m) \in 0 .. L
    BY <1>1, <2>1, <2>3
  <2>6. t[c + (i - 1 - m)] = c + (i - 1 - m) + 1
    BY <1>0, <2>5 DEF IsRun
  <2>7. w[i - 1 + 1] = t[c + (i - 1 - m)]
    BY <1>0, <2>3, <2>4, <2>5 DEF Follows
  <2>8. w[i] = c + (i - m)
    BY <1>1, <2>3, <2>6, <2>7
  <2> QED BY <2>1, <2>8
<1>4. \A i \in m .. m + n - 1 : w[i] = c + (i - m)
  <2> TAKE i \in m .. m + n - 1
  <2>1. i \in Nat /\ m <= i /\ i <= m + (l - c)
    BY <1>1
  <2> QED BY <1>3, <2>1
<1>5. w[m + n] = t[l]
  <2> DEFINE k == m + n - 1
  <2>1. k \in m .. m + n - 1 /\ k \in Nat /\ k + 1 = m + n /\ c + (k - m) = l /\ l \in 0 .. L
    BY <1>1, <1>2
  <2> HIDE DEF k
  <2>2. w[k] = l /\ w[k + 1] = Follows(t, w[k])
    BY <1>0, <1>4, <2>1
  <2> QED BY <2>1, <2>2 DEF Follows
<1> QED BY <1>1, <1>2, <1>4, <1>5 DEF Covers

\* So a run in the data area leaves the chain in it.
LEMMA CoversMore ==
  ASSUME NEW L \in Nat, NEW t, NEW w, NEW m \in Nat, NEW n, Covers(w, t, L, m, n),
         w[m] \in 2 .. L, \A i \in 0 .. m - 1 : w[i] \in 2 .. L
  PROVE  \A i \in 0 .. m + n - 1 : w[i] \in 2 .. L
<1> TAKE i \in 0 .. m + n - 1
<1>1. n \in Nat
  BY DEF Covers
<1>2. CASE i < m
  BY <1>2
<1>3. CASE ~ (i < m)
  <2>1. i \in m .. m + n - 1
    BY <1>1, <1>3
  <2>2. w[i] = w[m] + (i - m) /\ w[m] + n - 1 <= L
    BY <2>1 DEF Covers
  <2> QED BY <1>1, <2>1, <2>2
<1> QED BY <1>2, <1>3

LEMMA Joined ==
  ASSUME NEW F, NEW m \in Nat, NEW n \in Nat
  PROVE  [i \in 1 .. m |-> F[i]] \o [k \in 1 .. n |-> F[m + k]] = [i \in 1 .. m + n |-> F[i]]
<1> DEFINE a == [i \in 1 .. m |-> F[i]]
           b == [k \in 1 .. n |-> F[m + k]]
<1>1. Len(a) = m /\ Len(b) = n /\ \A k \in 1 .. n : b[k] = F[m + k]
  OBVIOUS
<1>2. a \o b = [i \in 1 .. m + n |-> IF i <= m THEN a[i] ELSE b[i - m]]
  BY <1>1
<1>3. \A i \in 1 .. m + n : (IF i <= m THEN a[i] ELSE b[i - m]) = F[i]
  <2> TAKE i \in 1 .. m + n
  <2>1. CASE i <= m
    BY <2>1
  <2>2. CASE ~ (i <= m)
    <3>1. i - m \in 1 .. n /\ m + (i - m) = i
      BY <2>2
    <3> HIDE DEF b
    <3> QED BY <1>1, <2>2, <3>1
  <2> QED BY <2>1, <2>2
<1> HIDE DEF a, b
<1> QED BY <1>2, <1>3 DEF a, b

-----------------------------------------------------------------------------
(* A file that is being loaded.                                            *)

IsEntry(d, e) == /\ e.firstLogicalCluster \in Cluster /\ e.fileSizeBytes \in Nat
                 /\ validateDirEntry(d.header, e)

\* The first m clusters of the chain are loaded.
AreLoaded(h, cluster, m, loaded) ==
  /\ m \in Nat
  /\ loaded = [i \in 1 .. m |-> clusterStartSector(h, cluster[i - 1])]
  /\ \A i \in 0 .. m - 1 : cluster[i] \in MIN_FILE_CLUSTER .. lastCluster(h)

\* And n sectors are read from sector s on for the run at location l.
IsLoading(d, e, loaded, l, s, n) ==
  LET cluster == Chain(d, e.firstLogicalCluster)
      last == lastCluster(d.header)
  IN \E m \in Nat :
       /\ AreLoaded(d.header, cluster, m, loaded)
       /\ cluster[m] \in MIN_FILE_CLUSTER .. last
       /\ l = Location(d.header, cluster[m]) /\ s = l.sector
       /\ n \in Int /\ IsRun(d.table, last, cluster[m], cluster[m] + n - 1)
       /\ m + n <= Size(d, e)

IsLoaded(d, e, loaded, r, failed) ==
  /\ r = "NONE" => IsFile(d, e) /\ loaded = Contents(d, e)
  /\ r # "NONE" => failed \/ ~IsFile(d, e) \/ d.table # d.copy

\* The drives are those there are, and a volume is one of FAT12.
DrivesInv ==
  /\ drive \in Drive /\ driveCount \subseteq Drive /\ k_stor_drives \subseteq Drive
  /\ disk \in [Drive -> Disk]
  /\ k_stor_volumes \in Seq(Drive)
  /\ \A i \in 1 .. Len(k_stor_volumes) : IsVolume(k_stor_volumes[i])

\* Where the storage is with the file it was asked for.
FileInv ==
  /\ at \in {"init", "volumes", "header", "directory"} => file = {}
  /\ file # {} => file = {entry} /\ IsEntry(inserted, entry)
  /\ at \in {"header", "directory", "table", "run"} \/ file # {} =>
       path.volume \in 0 .. Len(k_stor_volumes) - 1
  /\ at \in {"table", "run"} => loads /\ file # {}
  /\ at = "run" => IsLoading(inserted, entry, dst, location, lba, count)
  /\ at = "ready" /\ loads /\ file # {} => IsLoaded(inserted, entry, dst, result, broken)

LoadInv == DrivesInv /\ FileInv /\ lba \in Nat

LEMMA SizeIsNat ==
  ASSUME NEW d, IsTaken(d), IsPlain(d), NEW e, IsEntry(d, e)
  PROVE  Size(d, e) \in Nat
<1> DEFINE B == d.header.bytesPerLogicalSector
           n == e.fileSizeBytes
<1>1. B = SECTOR_BYTES /\ SECTOR_BYTES \in Nat \ {0} /\ n \in Nat
  BY StorageAssumption DEF IsTaken, detect, IsEntry
<1>2. d.header.logicalSectorsPerCluster = 1
  BY DEF IsPlain
<1>3. Size(d, e) = Aligned(n, B * 1) \div SECTOR_BYTES
  BY <1>2 DEF Size, allocUnitAlignedBytes
<1> HIDE DEF B, n
<1>4. B * 1 = B
  BY <1>1
<1>5. Aligned(n, B) \in Nat
  <2>1. n \div B \in Nat
    BY <1>1, Division
  <2> DEFINE q == n \div B
  <2> HIDE DEF q
  <2>2. q * B + B \in Nat
    BY <1>1, <2>1 DEF q
  <2> QED BY <1>1, <2>2 DEF Aligned, q
<1> QED BY <1>1, <1>3, <1>4, <1>5, Division

\* A sector of the data area is that of its cluster.
LEMMA SectorOfCluster ==
  ASSUME NEW d, IsTaken(d), IsPlain(d), NEW c \in Nat, c >= MIN_FILE_CLUSTER
  PROVE  /\ clusterStartSector(d.header, c) \in Nat
         /\ \A k \in Nat : clusterStartSector(d.header, c + k)
                             = clusterStartSector(d.header, c) + k
<1> DEFINE s == firstClusterSector(d.header)
<1>1. s \in Nat
  BY Geometry DEF IsSized
<1>2. \A x : clusterStartSector(d.header, x) = s + (x - MIN_FILE_CLUSTER) * 1
  BY DEF IsPlain, clusterStartSector
<1> HIDE DEF s
<1> QED BY <1>1, <1>2 DEF MIN_FILE_CLUSTER

LEMMA LastIsNat ==
  ASSUME NEW d, IsTaken(d), IsPlain(d)
  PROVE  /\ lastCluster(d.header) \in Nat /\ lastCluster(d.header) < 4088
         /\ d.table \in [0 .. lastCluster(d.header) -> Cluster]
<1> DEFINE L == lastCluster(d.header)
<1>1. d.table \in [0 .. L -> Cluster] /\ L \in 2 .. MAX_FILE_CLUSTER
  BY Geometry, Zenon DEF IsSized, IsPlain
<1> HIDE DEF L
<1>2. L \in Nat /\ L < 4088
  BY <1>1 DEF MAX_FILE_CLUSTER
<1> QED BY <1>1, <1>2 DEF L

\* There is one last contiguous cluster.
LEMMA RunIsUnique ==
  ASSUME NEW L \in Nat, NEW t, NEW c \in Nat, NEW l, NEW m,
         IsRun(t, L, c, l), IsRun(t, L, c, m)
  PROVE  l = m
<1>1. l \in Nat /\ m \in Nat /\ l \in c .. L /\ m \in c .. L
  BY DEF IsRun
<1>2. ~ (l < m)
  <2> SUFFICES ASSUME l < m PROVE FALSE
    OBVIOUS
  <2>1. l \in c .. m - 1 /\ l + 1 <= L
    BY <1>1
  <2> QED BY <2>1 DEF IsRun
<1>3. ~ (m < l)
  <2> SUFFICES ASSUME m < l PROVE FALSE
    OBVIOUS
  <2>1. m \in c .. l - 1 /\ m + 1 <= L
    BY <1>1
  <2> QED BY <2>1 DEF IsRun
<1> QED BY <1>1, <1>2, <1>3

\* What is found in the directory is an entry whose file begins on the disk.
LEMMA EntryIsFound ==
  ASSUME NEW d, IsTaken(d), IsPlain(d), NEW name,
         NEW found, found = fileInfo(d.header, d.directory, name), found # {}
  PROVE  \E e : found = {e} /\ IsEntry(d, e)
<1> DEFINE M == d.header.maxRootDirectoryEntries
           dir == d.directory
           S == {i \in 1 .. M : dir[i].name = name}
           e == dir[CHOOSE i \in S : \A j \in S : i <= j]
<1>1. S # {} /\ validateDirEntry(d.header, e) /\ found = {e}
  BY Zenon DEF fileInfo
<1>2. \E i \in S : \A j \in S : i <= j
  <2>1. S \subseteq Nat
    OBVIOUS
  <2> HIDE DEF S
  <2> QED BY <1>1, <2>1, LeastNumber
<1>3. PICK i \in S : e = dir[i]
  <2> HIDE DEF S
  <2> QED BY <1>2
<1>4. i \in DOMAIN dir
  BY <1>3 DEF IsPlain
<1>5. dir[i] \in fat12_dir_t({dir[i].name})
  BY <1>4, StorageAssumption DEF IsTaken
<1> HIDE DEF e
<1>6. e.firstLogicalCluster \in Nat /\ e.fileSizeBytes \in Nat
  BY <1>3, <1>5 DEF fat12_dir_t
<1>7. e.firstLogicalCluster <= lastCluster(d.header) /\ lastCluster(d.header) \in 2 .. MAX_FILE_CLUSTER
  BY <1>1, Geometry DEF StartsWithin, IsSized
<1>8. e.firstLogicalCluster \in Cluster
  <2> DEFINE a == e.firstLogicalCluster
             L == lastCluster(d.header)
  <2>1. a \in Nat /\ a <= L /\ L \in 2 .. MAX_FILE_CLUSTER
    BY <1>6, <1>7
  <2> HIDE DEF a, L
  <2>2. a \in Cluster
    BY <2>1 DEF Cluster, MAX_FILE_CLUSTER
  <2> QED BY <2>2 DEF a
<1> QED BY <1>1, <1>6, <1>8 DEF IsEntry

\* Two equal copies of the table are found equal.
LEMMA CopiesMatch ==
  ASSUME NEW d, IsTaken(d), IsPlain(d), d.table = d.copy
  PROVE  fatVerify(d.header, fatBytes(d))
<1> DEFINE size == d.header.logicalSectorsPerFAT * SECTOR_BYTES
           fat == fatBytes(d)
           padded(x) == [i \in 0 .. size - 1 |-> IF i \in DOMAIN Bytes(x) THEN Bytes(x)[i] ELSE 0]
<1>1. size \in Nat /\ d.header.bytesPerLogicalSector = SECTOR_BYTES
  BY Geometry DEF IsSized
<1>2. fat = [i \in 0 .. 2 * size - 1 |->
               IF i < size THEN padded(d.table)[i] ELSE padded(d.copy)[i - size]]
  BY DEF fatBytes
<1> DEFINE p == padded(d.table)
<1>3. fat = [i \in 0 .. 2 * size - 1 |-> IF i < size THEN p[i] ELSE p[i - size]]
  BY <1>2
<1> HIDE DEF p, fat
<1>4. ASSUME NEW i \in 0 .. size - 1 PROVE fat[i] = fat[size + i]
  <2> HIDE DEF size
  <2> DEFINE j == size + i
  <2>1. i \in 0 .. 2 * size - 1 /\ j \in 0 .. 2 * size - 1 /\ i < size
        /\ ~ (j < size) /\ j - size = i
    BY <1>1
  <2> HIDE DEF j
  <2>2. fat[i] = p[i] /\ fat[j] = p[j - size]
    BY <1>3, <2>1
  <2> QED BY <2>1, <2>2 DEF j
<1>5. d.header.numberOfFATs > 1
  BY DEF IsPlain
<1> QED BY <1>1, <1>4, <1>5 DEF fatVerify, fat

\* The sectors of the n clusters from c on.
RunSectors(h, c, n) == [k \in 1 .. n |-> clusterStartSector(h, c) + k - 1]

\* Once a run has been read, one cluster more is loaded for each of its sectors.
HasRun(d, w, m, loaded, n) ==
  /\ AreLoaded(d.header, w, m, loaded) /\ IsChain(w, d.table)
  /\ w[m] \in MIN_FILE_CLUSTER .. lastCluster(d.header)
  /\ n \in Int /\ IsRun(d.table, lastCluster(d.header), w[m], w[m] + n - 1)
EndsRun(d, w, m, loaded, n) ==
  /\ AreLoaded(d.header, w, m + n, loaded \o RunSectors(d.header, w[m], n))
  /\ nextCluster(fatBytes(d), w[m] + n - 1) = w[m + n]

LEMMA RunIsLoaded ==
  ASSUME NEW d, IsTaken(d), IsPlain(d), NEW w, NEW m, NEW loaded, NEW n,
         HasRun(d, w, m, loaded, n)
  PROVE  EndsRun(d, w, m, loaded, n)
<1> DEFINE L == lastCluster(d.header)
           t == d.table
           F == [i \in Nat |-> clusterStartSector(d.header, w[i - 1])]
           c == w[m]
           more == RunSectors(d.header, c, n)
<1>0. /\ AreLoaded(d.header, w, m, loaded) /\ IsChain(w, t) /\ n \in Int
      /\ w[m] \in MIN_FILE_CLUSTER .. L /\ IsRun(t, L, w[m], w[m] + n - 1)
  BY Zenon DEF HasRun
<1>1. L \in Nat /\ t \in [0 .. L -> Cluster]
  BY LastIsNat
<1>2. m \in Nat /\ MIN_FILE_CLUSTER = 2 /\ \A i \in 0 .. m - 1 : w[i] \in 2 .. L
  BY <1>0 DEF AreLoaded, MIN_FILE_CLUSTER
<1>3. Covers(w, t, L, m, n)
  <2> HIDE DEF t, L
  <2>1. IsRun(t, L, w[m], w[m] + n - 1) /\ IsChain(w, t)
    BY <1>0 DEF t, L
  <2> QED BY <1>0, <1>1, <1>2, <2>1, ChainRuns
<1>4. \A i \in 0 .. m + n - 1 : w[i] \in 2 .. L
  <2> HIDE DEF t, L
  <2>1. w[m] \in 2 .. L
    BY <1>0, <1>2 DEF L
  <2> QED BY <1>1, <1>2, <1>3, <2>1, CoversMore
<1>5. n \in Nat \ {0} /\ c + n - 1 <= L /\ w[m + n] = t[c + n - 1]
  BY <1>3 DEF Covers
<1>6. c \in 2 .. L
  BY <1>0, <1>2
<1>7. nextCluster(fatBytes(d), c + n - 1) = t[c + n - 1]
  <2>1. c + n - 1 \in 0 .. L
    <3> HIDE DEF L, c
    <3> QED BY <1>1, <1>5, <1>6
  <2> QED BY <2>1, TableIsDecoded
<1>8. \A k \in 1 .. n : F[m + k] = clusterStartSector(d.header, c) + k - 1
  <2> TAKE k \in 1 .. n
  <2> DEFINE q == m + k - 1
             j == k - 1
             s == clusterStartSector(d.header, c)
  <2>1. /\ m + k \in Nat /\ (m + k) - 1 = q /\ q \in m .. m + n - 1 /\ q - m = j
        /\ j \in Nat
    <3>1. m \in Nat /\ n \in Nat /\ k \in 1 .. n
      BY <1>2, <1>5
    <3> QED BY <3>1
  <2>2. F[m + k] = clusterStartSector(d.header, w[q])
    <3> HIDE DEF q, s, c
    <3>1. \A i \in Nat : F[i] = clusterStartSector(d.header, w[i - 1])
      OBVIOUS
    <3> HIDE DEF F
    <3> QED BY <2>1, <3>1
  <2> HIDE DEF q, j
  <2>3. w[q] = c + j
    <3>1. \A i \in m .. m + n - 1 : w[i] = c + (i - m)
      BY <1>3 DEF Covers
    <3> HIDE DEF c
    <3> QED BY <2>1, <3>1
  <2>4. c \in Nat /\ c >= MIN_FILE_CLUSTER
    <3> HIDE DEF L, c
    <3> QED BY <1>1, <1>2, <1>6
  <2>5. s \in Nat /\ clusterStartSector(d.header, c + j) = s + j
    <3> HIDE DEF c
    <3> QED BY <2>1, <2>4, SectorOfCluster
  <2> HIDE DEF F, s, c
  <2>6. F[m + k] = s + j
    BY <2>2, <2>3, <2>5
  <2> QED BY <2>6 DEF s, j
<1>9. more = [k \in 1 .. n |-> F[m + k]]
  <2> HIDE DEF F
  <2> QED BY <1>8 DEF RunSectors
<1> HIDE DEF more
<1>10. \A q \in Nat : [i \in 1 .. q |-> clusterStartSector(d.header, w[i - 1])] = [i \in 1 .. q |-> F[i]]
  OBVIOUS
<1> HIDE DEF F
<1>11. loaded = [i \in 1 .. m |-> F[i]]
  BY <1>0, <1>2, <1>10 DEF AreLoaded
<1>12. loaded \o more = [i \in 1 .. m + n |-> F[i]]
  <2>1. m \in Nat /\ n \in Nat
    BY <1>2, <1>5
  <2>2. [i \in 1 .. m |-> F[i]] \o [k \in 1 .. n |-> F[m + k]] = [i \in 1 .. m + n |-> F[i]]
    BY <2>1, Joined
  <2> QED BY <1>9, <1>11, <2>2, Zenon
<1>13. m + n \in Nat
  BY <1>2, <1>5
<1>14. loaded \o more = [i \in 1 .. m + n |-> clusterStartSector(d.header, w[i - 1])]
  BY <1>10, <1>12, <1>13
<1>15. AreLoaded(d.header, w, m + n, loaded \o more)
  <2>1. \A i \in 0 .. (m + n) - 1 : w[i] \in MIN_FILE_CLUSTER .. L
    <3> HIDE DEF L
    <3> QED BY <1>2, <1>4, <1>5
  <2> QED BY <1>13, <1>14, <2>1, Zenon DEF AreLoaded
<1> QED BY <1>5, <1>7, <1>15, Zenon DEF more, EndsRun

\* A run that is longer than the rest of the file is not that of a sound one.
LEMMA NoRoom ==
  ASSUME NEW d, IsTaken(d), IsPlain(d), NEW w, IsChain(w, d.table), NEW m \in Nat,
         w[m] \in MIN_FILE_CLUSTER .. lastCluster(d.header),
         NEW n \in Int, IsRun(d.table, lastCluster(d.header), w[m], w[m] + n - 1),
         NEW s \in Nat, m <= s, ~ (n <= s - m)
  PROVE  ~ (w[s] \in 4088 .. 4095)
<1> DEFINE L == lastCluster(d.header)
           t == d.table
<1>1. L \in Nat /\ t \in [0 .. L -> Cluster] /\ L < 4088
  BY LastIsNat
<1>2. Covers(w, t, L, m, n)
  <2> HIDE DEF t, L
  <2>1. IsRun(t, L, w[m], w[m] + n - 1) /\ IsChain(w, t)
    BY DEF t, L
  <2> QED BY <1>1, <2>1, ChainRuns
<1>3. w[m] \in Nat
  BY <1>1, <1>2 DEF MIN_FILE_CLUSTER
<1> HIDE DEF t, L
<1>4. n \in Nat /\ s \in m .. m + n - 1
  BY <1>2 DEF Covers
<1>5. w[s] = w[m] + (s - m) /\ w[m] + n - 1 <= L
  BY <1>2, <1>4 DEF Covers
<1>6. w[s] < 4088
  BY <1>1, <1>3, <1>4, <1>5
<1> QED BY <1>6

\* Where no cluster follows the file is sound if this is its end, and only then.
LEMMA FileEnds ==
  ASSUME NEW d, NEW e, Size(d, e) \in Nat,
         NEW w, w = Chain(d, e.firstLogicalCluster), NEW m, NEW loaded,
         AreLoaded(d.header, w, m, loaded), m > 0, m <= Size(d, e),
         ~ (w[m] \in MIN_FILE_CLUSTER .. lastCluster(d.header) /\ m < Size(d, e))
  PROVE  IF w[m] \in 4088 .. 4095 /\ m = Size(d, e)
         THEN IsFile(d, e) /\ loaded = Contents(d, e)
         ELSE ~ IsFile(d, e)
<1> DEFINE s == Size(d, e)
           Sound(i) == w[i] \in MIN_FILE_CLUSTER .. lastCluster(d.header)
           End(i) == w[i] \in 4088 .. 4095
<1>1. IsFile(d, e) <=> s > 0 /\ (\A i \in 0 .. s - 1 : Sound(i)) /\ End(s)
  BY DEF IsFile
<1>2. /\ m \in Nat /\ (\A i \in 0 .. m - 1 : Sound(i))
      /\ m = s => loaded = Contents(d, e)
  BY DEF AreLoaded, Contents
<1>3. s \in Nat /\ m > 0 /\ m <= s /\ ~ (Sound(m) /\ m < s)
  OBVIOUS
<1> SUFFICES IF End(m) /\ m = s THEN IsFile(d, e) /\ loaded = Contents(d, e) ELSE ~ IsFile(d, e)
  OBVIOUS
<1> HIDE DEF s, Sound, End
<1>4. CASE m = s
  BY <1>1, <1>2, <1>3, <1>4
<1>5. CASE m # s
  <2>1. m \in 0 .. s - 1
    BY <1>2, <1>3, <1>5
  <2> QED BY <1>1, <1>3, <1>5, <2>1
<1> QED BY <1>4, <1>5

-----------------------------------------------------------------------------
(* Every step keeps a load what it should be.                              *)

LEMMA DriverKeeps ==
  ASSUME drive \in Drive, driveCount \subseteq Drive, Tick \/ Controller \/ Driver
  PROVE  drive' \in Drive /\ driveCount' \subseteq Drive /\ lba' = lba /\ count' = count
<1>0. 0 \in Drive
  BY FloppyAssumption DEF Drive
<1>1. NextDrive => drive' \in Drive
  BY <1>0, Zenon DEF NextDrive
<1>2. \A s : Recalibrated(s) => drive' \in Drive /\ driveCount' \subseteq Drive
  BY <1>1 DEF Recalibrated
<1>3. CASE Tick
  BY <1>3 DEF Tick, client
<1>4. CASE Controller
  BY <1>4 DEF Controller, Completes, Sends, Ends, client
<1>5. CASE Driver
  <2>1. CASE Poll \/ Expire \/ Probe \/ ClearInterrupt \/ Reset \/ Recalibrate \/ Prepare
             \/ Return
    BY <2>1 DEF Poll, Expire, Probe, ClearInterrupt, Reset, Recalibrate, Prepare, Return, client
  <2>2. CASE ReadCommand \/ ReadInterrupted \/ Drain \/ Drained \/ More \/ Results
    BY <2>2 DEF ReadCommand, ReadInterrupted, Drain, Drained, More, Results, client
  <2>3. CASE Configure
    BY <1>0, <2>3 DEF Configure
  <2>4. CASE RecalibrateCommand
    <3>1. UNCHANGED <<drive, driveCount>> \/ Recalibrated("NOT_READY")
      BY <2>4, Zenon DEF RecalibrateCommand
    <3>2. lba' = lba /\ count' = count
      BY <2>4, Zenon DEF RecalibrateCommand
    <3> QED BY <1>2, <3>1, <3>2
  <2>5. CASE SenseInterrupt
    BY <1>2, <2>5, Zenon DEF SenseInterrupt
  <2> QED BY <1>5, <2>1, <2>2, <2>3, <2>4, <2>5 DEF Driver
<1> QED BY <1>3, <1>4, <1>5

\* The disk that is looked at is a plain one, with FAT12.
LEMMA LooksAtPlain ==
  ASSUME DisksArePlain, DrivesInv, path.volume \in 0 .. Len(k_stor_volumes) - 1
  PROVE  IsTaken(inserted) /\ IsPlain(inserted) /\ reading \in Drive
<1>1. path.volume + 1 \in 1 .. Len(k_stor_volumes)
  <2>1. Len(k_stor_volumes) \in Nat
    BY DEF DrivesInv
  <2> DEFINE n == Len(k_stor_volumes)
             v == path.volume
  <2>2. n \in Nat /\ v \in 0 .. n - 1
    BY <2>1
  <2> HIDE DEF n, v
  <2>3. v + 1 \in 1 .. n
    BY <2>2
  <2> QED BY <2>3 DEF n, v
<1>2. reading \in Drive /\ IsVolume(reading)
  BY <1>1 DEF DrivesInv, reading
<1>3. inserted \in Disk /\ detect(inserted.header, SECTORS, SECTOR_BYTES)
  BY <1>2 DEF DrivesInv, inserted, IsVolume
<1> QED BY <1>2, <1>3, Zenon DEF IsTaken, DisksArePlain

\* The driver is told to read a sector that is a number.
LEMMA FirstIsNat ==
  ASSUME NEW h, h \in dos_4_0_ebpb_t
  PROVE  FirstOf(directoryRange(h)) \in Nat /\ FirstOf(fatRange(h)) \in Nat
<1>1. SECTOR_BYTES \in Nat \ {0} 
  BY StorageAssumption
<1> DEFINE B == h.bytesPerLogicalSector
           R == h.reservedLogicalSectors
           N == h.numberOfFATs
           F == h.logicalSectorsPerFAT
<1>3. B \in Nat /\ R \in Nat /\ N \in Nat /\ F \in Nat
  BY DEF dos_4_0_ebpb_t
<1>4. fatRange(h).offset = R * B /\ fatRange(h).length = N * F * B
      /\ directoryRange(h).offset = fatRange(h).offset + fatRange(h).length
  BY DEF fatRange, directoryRange
<1> HIDE DEF B, R, N, F
<1>5. R * B \in Nat /\ N * F * B \in Nat
  BY <1>3
<1>6. fatRange(h).offset \in Nat /\ directoryRange(h).offset \in Nat
  BY <1>4, <1>5
<1> QED BY <1>1, <1>6, Division DEF FirstOf

LEMMA HeaderIsFirst == FirstOf(HEADER_RANGE) \in Nat
<1>1. SECTOR_BYTES \in Nat \ {0} /\ HEADER_RANGE.offset \in Nat
  BY StorageAssumption, Fat12Assumption
<1> QED BY <1>1, Division DEF FirstOf

LEMMA DriverIsAsked ==
  ASSUME DrivesInv, NEW d \in Drive, NEW s, NEW n, Read(d, s, n),
         UNCHANGED <<disk, k_stor_drives, k_stor_volumes>>
  PROVE  DrivesInv' /\ lba' = s /\ count' = n
BY DEF DrivesInv, Read, IsVolume

LEMMA DriverRests ==
  ASSUME DrivesInv, UNCHANGED <<drive, driveCount, lba, count>>,
         UNCHANGED <<disk, k_stor_drives, k_stor_volumes>>
  PROVE  DrivesInv' /\ lba' = lba /\ count' = count
BY DEF DrivesInv, IsVolume

\* Without a step of the storage its files are what they were.
LEMMA FilesRest ==
  ASSUME FileInv, UNCHANGED storage, UNCHANGED <<lba, count>>
  PROVE  FileInv'
<1>1. UNCHANGED <<disk, k_stor_drives, k_stor_volumes, at, path, loads, file, location, dst,
                  broken, result>>
  BY DEF storage, request, progress
<1>2. reading' = reading
  BY <1>1 DEF reading
<1>3. inserted' = inserted /\ entry' = entry
  BY <1>1, <1>2 DEF inserted, entry
<1> QED BY <1>1, <1>3 DEF FileInv

LEMMA LowestIsOne ==
  ASSUME NEW S, S \subseteq Drive, S # {}
  PROVE  LowestOf(S) \in S
<1>1. S \subseteq Nat
  BY FloppyAssumption DEF Drive
<1>2. \E d \in S : \A e \in S : d <= e
  BY <1>1, LeastNumber
<1> QED BY <1>2 DEF LowestOf

LEMMA DrivesAreFound ==
  ASSUME LoadInv, detectDrives
  PROVE  LoadInv'
<1>1. DrivesInv /\ FileInv /\ lba \in Nat /\ at = "init" /\ file = {}
  BY DEF LoadInv, FileInv, detectDrives
<1>2. /\ UNCHANGED <<disk, k_stor_volumes, file>> /\ k_stor_drives' = driveCount
      /\ at' \in {"ready", "volumes"}
  BY DEF detectDrives, progress
<1>3. DrivesInv' /\ lba' \in Nat
  <2>1. CASE driveCount = {}
    <3>1. UNCHANGED <<drive, driveCount, lba>>
      BY <2>1, Zenon DEF detectDrives, floppy, client
    <3> QED BY <1>1, <1>2, <3>1 DEF DrivesInv, IsVolume
  <2>2. CASE driveCount # {}
    <3> DEFINE d == LowestOf(driveCount)
    <3>1. d \in driveCount /\ d \in Drive
      BY <1>1, <2>2, LowestIsOne DEF DrivesInv
    <3>2. Read(d, FirstOf(HEADER_RANGE), CountOf(HEADER_RANGE))
      BY <2>2, Zenon DEF detectDrives, ReadHeader, ReadRange
    <3> HIDE DEF d
    <3>3. drive' = d /\ lba' = FirstOf(HEADER_RANGE) /\ driveCount' = driveCount
      BY <3>2, Zenon DEF Read
    <3>4. FirstOf(HEADER_RANGE) \in Nat
      BY HeaderIsFirst
    <3> QED BY <1>1, <1>2, <3>1, <3>3, <3>4 DEF DrivesInv, IsVolume
  <2> QED BY <2>1, <2>2
<1>4. FileInv'
  BY <1>1, <1>2 DEF FileInv
<1> QED BY <1>3, <1>4 DEF LoadInv

LEMMA VolumeIsFound ==
  ASSUME LoadInv, detectVolume
  PROVE  LoadInv'
<1>1. DrivesInv /\ FileInv /\ lba \in Nat /\ at = "volumes" /\ file = {}
  BY DEF LoadInv, FileInv, detectVolume
<1>2. /\ UNCHANGED <<disk, k_stor_drives, file>> /\ at' \in {"ready", "volumes"}
  BY <1>1 DEF detectVolume, progress
<1>3. /\ k_stor_volumes' \in Seq(Drive)
      /\ \A i \in 1 .. Len(k_stor_volumes') : IsVolume(k_stor_volumes'[i])
  <2>1. CASE k_stor_volumes' = k_stor_volumes
    BY <1>1, <2>1 DEF DrivesInv
  <2>2. CASE k_stor_volumes' = Append(k_stor_volumes, drive) /\ IsVolume(drive)
    BY <1>1, <2>2, AppendProperties DEF DrivesInv
  <2> QED BY <2>1, <2>2 DEF detectVolume
<1>4. driveCount' = driveCount /\ drive' \in Drive /\ lba' \in Nat
  <2>1. CASE UNCHANGED <<driveCount, drive, lba>>
    BY <1>1, <2>1 DEF DrivesInv
  <2> DEFINE later == {d \in k_stor_drives : d > drive}
  <2>2. CASE later # {} /\ ReadHeader(LowestOf(later))
    <3>1. LowestOf(later) \in Drive
      BY <1>1, <2>2, LowestIsOne DEF DrivesInv
    <3> DEFINE d == LowestOf(later)
    <3>2. Read(d, FirstOf(HEADER_RANGE), CountOf(HEADER_RANGE))
      BY <2>2, Zenon DEF ReadHeader, ReadRange
    <3> HIDE DEF d
    <3>3. drive' = d /\ lba' = FirstOf(HEADER_RANGE) /\ driveCount' = driveCount
      BY <3>2, Zenon DEF Read
    <3>4. FirstOf(HEADER_RANGE) \in Nat
      BY HeaderIsFirst
    <3> QED BY <3>1, <3>3, <3>4 DEF d
  <2>3. UNCHANGED <<driveCount, drive, lba>> \/ (later # {} /\ ReadHeader(LowestOf(later)))
    BY Zenon DEF detectVolume, floppy, client
  <2> QED BY <2>1, <2>2, <2>3
<1>5. DrivesInv'
  BY <1>1, <1>2, <1>3, <1>4 DEF DrivesInv, IsVolume
<1>6. FileInv'
  BY <1>1, <1>2 DEF FileInv
<1> QED BY <1>4, <1>5, <1>6 DEF LoadInv

LEMMA FileIsAsked ==
  ASSUME LoadInv, NEW load, NEW p, Ask(load, p)
  PROVE  LoadInv'
<1>1. DrivesInv /\ FileInv /\ lba \in Nat
  BY DEF LoadInv
<1>2. UNCHANGED <<disk, k_stor_drives, k_stor_volumes>> /\ path' = p /\ file' = {}
  BY DEF Ask
<1>3. CASE IsValidPath(p)
  <2> DEFINE n == Len(k_stor_volumes)
             d == k_stor_volumes[p.volume + 1]
  <2>1. p.volume \in 0 .. n - 1 /\ at' = "header"
    BY <1>3 DEF Ask, IsValidPath
  <2>2. d \in Drive
    <3>1. n \in Nat /\ \A i \in 1 .. n : k_stor_volumes[i] \in Drive
      BY <1>1 DEF DrivesInv
    <3> HIDE DEF n
    <3>2. p.volume + 1 \in 1 .. n
      BY <2>1, <3>1
    <3> QED BY <3>1, <3>2
  <2>3. Read(d, FirstOf(HEADER_RANGE), CountOf(HEADER_RANGE))
    BY <1>3, Zenon DEF Ask, ReadHeader, ReadRange
  <2> HIDE DEF d
  <2>4. DrivesInv' /\ lba' = FirstOf(HEADER_RANGE)
    BY <1>1, <1>2, <2>2, <2>3, DriverIsAsked
  <2>5. FileInv'
    BY <1>2, <2>1 DEF FileInv
  <2> QED BY <2>4, <2>5, HeaderIsFirst DEF LoadInv
<1>4. CASE ~ IsValidPath(p)
  <2>1. at' = "ready" /\ UNCHANGED <<drive, driveCount, lba, count>>
    BY <1>4 DEF Ask, floppy, client
  <2>2. DrivesInv' /\ lba' = lba
    BY <1>1, <1>2, <2>1, DriverRests
  <2>3. FileInv'
    BY <1>2, <2>1 DEF FileInv
  <2> QED BY <1>1, <2>2, <2>3 DEF LoadInv
<1> QED BY <1>3, <1>4

\* What stays as it is while the storage reads.
Looking ==
  /\ UNCHANGED <<disk, k_stor_drives, k_stor_volumes, path, loads>>
  /\ inserted' = inserted /\ reading' = reading
  /\ path.volume \in 0 .. Len(k_stor_volumes) - 1
  /\ IsTaken(inserted) /\ IsPlain(inserted) /\ reading \in Drive

LEMMA StorageLooks ==
  ASSUME DisksArePlain, LoadInv, NEW place, Back(place),
         place \in {"header", "directory", "table", "run"}
  PROVE  Looking
<1>1. UNCHANGED <<disk, k_stor_drives, k_stor_volumes, path, loads>>
  BY DEF Back, request
<1>2. path.volume \in 0 .. Len(k_stor_volumes) - 1 /\ DrivesInv
  BY DEF LoadInv, FileInv, Back
<1>3. reading' = reading
  BY <1>1 DEF reading
<1>4. inserted' = inserted
  BY <1>1, <1>3 DEF inserted
<1>5. IsTaken(inserted) /\ IsPlain(inserted) /\ reading \in Drive
  BY <1>2, LooksAtPlain
<1> QED BY <1>1, <1>2, <1>3, <1>4, <1>5 DEF Looking

LEMMA LookingAsks ==
  ASSUME LoadInv, Looking, NEW range, ReadRange(reading, range), FirstOf(range) \in Nat
  PROVE  DrivesInv' /\ lba' \in Nat
BY DriverIsAsked DEF Looking, ReadRange, LoadInv

LEMMA LookingRests ==
  ASSUME LoadInv, Looking, UNCHANGED floppy
  PROVE  DrivesInv' /\ lba' \in Nat
<1>1. UNCHANGED <<drive, driveCount, lba, count>>
  BY DEF floppy, client
<1> QED BY <1>1, DriverRests DEF Looking, LoadInv

\* A failed read ends a load.
LEMMA LoadFails ==
  ASSUME LoadInv, Looking, Finish("UNKNOWN"),
         at \in {"header", "directory", "table", "run"},
         broken' \/ (at = "table" /\ inserted.table # inserted.copy)
  PROVE  LoadInv'
<1>1. /\ at' = "ready" /\ result' = "UNKNOWN" /\ UNCHANGED <<floppy, file, dst>>
  BY DEF Finish, progress
<1>2. DrivesInv' /\ lba' \in Nat
  BY <1>1, LookingRests
<1>3. entry' = entry
  BY <1>1 DEF entry
<1>4. file # {} => IsLoaded(inserted, entry, dst, "UNKNOWN", broken')
  BY DEF IsLoaded
<1>5. FileInv
  BY DEF LoadInv
<1>6. FileInv'
  BY <1>1, <1>3, <1>4, <1>5 DEF FileInv, Looking
<1> QED BY <1>2, <1>6 DEF LoadInv

LEMMA HeaderLeads ==
  ASSUME DisksArePlain, LoadInv, HeaderIsRead
  PROVE  LoadInv'
<1>1. Back("header") /\ at = "header"
  BY DEF HeaderIsRead, Back
<1>2. Looking
  BY <1>1, StorageLooks
<1>3. CASE broken'
  <2>1. Finish("UNKNOWN")
    BY <1>3, Zenon DEF HeaderIsRead
  <2> QED BY <1>1, <1>2, <1>3, <2>1, LoadFails
<1>4. CASE ~ broken'
  <2>1. at' = "directory" /\ ReadRange(reading, directoryRange(header)) /\ file' = file
    BY <1>4, Zenon DEF HeaderIsRead, progress
  <2>2. header \in dos_4_0_ebpb_t
    BY <1>2, StorageAssumption DEF Looking, IsTaken, header
  <2>3. FirstOf(directoryRange(header)) \in Nat
    BY <2>2, FirstIsNat
  <2>4. DrivesInv' /\ lba' \in Nat
    BY <1>2, <2>1, <2>3, LookingAsks
  <2>5. file = {}
    BY <1>1 DEF LoadInv, FileInv
  <2>6. FileInv'
    BY <1>2, <2>1, <2>5 DEF FileInv, Looking
  <2> QED BY <2>4, <2>6 DEF LoadInv
<1> QED BY <1>3, <1>4

LEMMA DirectoryCases ==
  ASSUME DirectoryIsRead
  PROVE  LET found == fileInfo(header, inserted.directory, path.name)
         IN \/ broken' /\ Finish("UNKNOWN")
            \/ ~broken' /\ Finish("NOT_FOUND")
            \/ ~broken' /\ found # {} /\ ~loads /\ at' = "ready" /\ file' = found /\ UNCHANGED floppy
            \/ ~broken' /\ found # {} /\ loads /\ at' = "table" /\ file' = found
               /\ ReadRange(reading, fatRange(header))
<1> DEFINE found == fileInfo(header, inserted.directory, path.name)
           A == ReadRange(reading, fatRange(header))
           F(e) == Finish(e)
           b == broken'
<1>1. (CASE b -> F("UNKNOWN")
        [] ~b /\ found = {} -> F("NOT_FOUND")
        [] ~b /\ found # {} /\ ~loads ->
             /\ at' = "ready" /\ file' = found
             /\ UNCHANGED <<floppy, location, dst, result>>
        [] OTHER ->
             /\ at' = "table" /\ file' = found
             /\ A
             /\ UNCHANGED <<location, dst, result>>)
  BY Zenon DEF DirectoryIsRead
<1> HIDE DEF found, A, F, b
<1> QED BY <1>1 DEF found, A, F, b

LEMMA DirectoryLeads ==
  ASSUME DisksArePlain, LoadInv, DirectoryIsRead
  PROVE  LoadInv'
<1> DEFINE found == fileInfo(header, inserted.directory, path.name)
<1>1. Back("directory") /\ at = "directory"
  BY Zenon DEF DirectoryIsRead, Back
<1>2. Looking
  BY <1>1, StorageLooks
<1>3. file = {}
  BY <1>1 DEF LoadInv, FileInv
<1>4. found # {} => \E e : found = {e} /\ IsEntry(inserted, e)
  <2>1. IsTaken(inserted) /\ IsPlain(inserted) /\ header = inserted.header
    BY <1>2 DEF Looking, header
  <2> QED BY <2>1, EntryIsFound
<1> HIDE DEF found
<1>5. CASE broken'
  <2>1. Finish("UNKNOWN")
    BY <1>5, DirectoryCases, Zenon
  <2> QED BY <1>1, <1>2, <1>5, <2>1, LoadFails
<1>6. CASE Finish("NOT_FOUND")
  <2>1. at' = "ready" /\ UNCHANGED <<floppy, file>>
    BY <1>6 DEF Finish, progress
  <2>2. DrivesInv' /\ lba' \in Nat
    BY <1>2, <2>1, LookingRests
  <2>3. FileInv'
    BY <1>3, <2>1 DEF FileInv
  <2> QED BY <2>2, <2>3 DEF LoadInv
<1>7. ASSUME found # {}, file' = found
      PROVE  file' = {entry'} /\ IsEntry(inserted', entry') /\ file' # {}
  <2>1. PICK e : found = {e} /\ IsEntry(inserted, e)
    BY <1>4, <1>7
  <2>2. entry' = e
    BY <1>7, <2>1 DEF entry
  <2> QED BY <1>2, <1>7, <2>1, <2>2 DEF Looking
<1>8. CASE found # {} /\ ~loads /\ at' = "ready" /\ file' = found /\ UNCHANGED floppy
  <2>1. DrivesInv' /\ lba' \in Nat
    BY <1>2, <1>8, LookingRests
  <2>2. FileInv'
    BY <1>2, <1>7, <1>8 DEF FileInv, Looking
  <2> QED BY <2>1, <2>2 DEF LoadInv
<1>9. CASE found # {} /\ loads /\ at' = "table" /\ file' = found
           /\ ReadRange(reading, fatRange(header))
  <2>1. header \in dos_4_0_ebpb_t
    BY <1>2, StorageAssumption DEF Looking, IsTaken, header
  <2>2. FirstOf(fatRange(header)) \in Nat
    BY <2>1, FirstIsNat
  <2>3. DrivesInv' /\ lba' \in Nat
    BY <1>2, <1>9, <2>2, LookingAsks
  <2>4. FileInv'
    BY <1>2, <1>7, <1>9 DEF FileInv, Looking
  <2> QED BY <2>3, <2>4 DEF LoadInv
<1> QED BY <1>5, <1>6, <1>8, <1>9, DirectoryCases, Zenon DEF found

\* The file that is loaded, and its chain.
Loading(w) ==
  /\ file = {entry} /\ IsEntry(inserted, entry) /\ loads
  /\ w = Chain(inserted, entry.firstLogicalCluster)
  /\ IsChain(w, inserted.table) /\ w[0] = entry.firstLogicalCluster
  /\ expected = Size(inserted, entry) /\ expected \in Nat

LEMMA FileIsLoading ==
  ASSUME LoadInv, Looking, at \in {"table", "run"}
  PROVE  Loading(Chain(inserted, entry.firstLogicalCluster))
<1>1. file = {entry} /\ IsEntry(inserted, entry) /\ loads
  BY DEF LoadInv, FileInv
<1>2. IsTaken(inserted) /\ IsPlain(inserted)
  BY DEF Looking
<1>3. expected = Size(inserted, entry)
  BY DEF expected, Size, header
<1>4. expected \in Nat
  BY <1>1, <1>2, <1>3, SizeIsNat
<1> DEFINE c == entry.firstLogicalCluster
           L == lastCluster(inserted.header)
<1>5. L \in Nat /\ inserted.table \in [0 .. L -> Cluster]
  BY <1>2, LastIsNat
<1>6. c \in Cluster
  BY <1>1 DEF IsEntry
<1> HIDE DEF c, L
<1>7. IsChain(Chain(inserted, c), inserted.table) /\ Chain(inserted, c)[0] = c
  BY <1>5, <1>6, ChainFollows
<1> QED BY <1>1, <1>3, <1>4, <1>7 DEF Loading, c

\* A run is as long as the code finds it.
LEMMA RunHasLength ==
  ASSUME Looking, NEW c, c \in MIN_FILE_CLUSTER .. lastCluster(header)
  PROVE  LET n == runLength(Location(header, c))
         IN /\ n \in Int /\ lastContiguous(c) = c + n - 1
            /\ IsRun(inserted.table, lastCluster(header), c, c + n - 1)
            /\ \A k \in Int : IsRun(inserted.table, lastCluster(header), c, c + k - 1) => k = n
<1> DEFINE l == lastContiguous(c)
           n == runLength(Location(header, c))
           L == lastCluster(header)
           t == inserted.table
<1>1. IsTaken(inserted) /\ IsPlain(inserted)
  BY DEF Looking
<1>2. IsRun(t, L, c, l)
  BY <1>1, RunIsFound
<1>3. L \in Nat
  BY <1>1, LastIsNat DEF header
<1>4. n = l - c + 1
  BY DEF runLength, Location
<1>5. c \in Nat
  <2> HIDE DEF L
  <2>1. c \in MIN_FILE_CLUSTER .. L
    BY DEF L
  <2> QED BY <1>3, <2>1 DEF MIN_FILE_CLUSTER
<1> HIDE DEF l, n, L, t
<1>6. l \in Nat /\ c <= l
  BY <1>2, <1>3, <1>5 DEF IsRun
<1>7. n \in Int /\ l = c + n - 1
  BY <1>4, <1>5, <1>6
<1>8. ASSUME NEW k \in Int, IsRun(t, L, c, c + k - 1) PROVE k = n
  <2> DEFINE x == c + k - 1
  <2>1. IsRun(t, L, c, x)
    BY <1>8
  <2> HIDE DEF x
  <2>2. x = l
    BY <1>2, <1>3, <1>5, <2>1, RunIsUnique
  <2> QED BY <1>5, <1>7, <2>2 DEF x
<1>9. IsRun(t, L, c, c + n - 1)
  BY <1>2, <1>7
<1> QED BY <1>7, <1>8, <1>9 DEF l, n, L, t

\* A run is begun if the file has room for it, and otherwise the load is over.
LEMMA RunBegins ==
  ASSUME LoadInv, Looking, NEW w, Loading(w), NEW m, NEW loaded,
         AreLoaded(header, w, m, loaded), w[m] \in MIN_FILE_CLUSTER .. lastCluster(header),
         m <= expected, ReadRun(Location(header, w[m]), loaded)
  PROVE  LoadInv'
<1> DEFINE c == w[m]
           l == Location(header, c)
           n == runLength(l)
           L == lastCluster(header)
           s == Size(inserted, entry)
<1>1. IsTaken(inserted) /\ IsPlain(inserted) /\ reading \in Drive /\ header = inserted.header
  BY DEF Looking, header
<1>2. /\ n \in Int /\ IsRun(inserted.table, L, c, c + n - 1)
  BY RunHasLength
<1>3. m \in Nat /\ Len(loaded) = m /\ m <= s /\ s \in Nat /\ expected = s
  BY DEF AreLoaded, Loading
<1>4. Fits(l, loaded) <=> n <= s - m
  BY <1>3 DEF Fits
<1>5. dst' = loaded /\ file' = file /\ entry' = entry
  BY DEF ReadRun, entry
<1>6. FileInv /\ IsEntry(inserted, entry) /\ loads /\ loads' = loads /\ file = {entry}
  BY DEF LoadInv, Loading, Looking
<1>7. CASE Fits(l, loaded)
  <2>1. at' = "run" /\ location' = l /\ Read(reading, l.sector, n * header.logicalSectorsPerCluster)
    BY <1>7, Zenon DEF ReadRun
  <2>2. n * header.logicalSectorsPerCluster = n
    <3>1. header.logicalSectorsPerCluster = 1
      BY <1>1 DEF IsPlain
    <3> HIDE DEF n
    <3> QED BY <1>2, <3>1
  <2>3. UNCHANGED <<disk, k_stor_drives, k_stor_volumes>> /\ DrivesInv
    BY DEF Looking, LoadInv
  <2> DEFINE b == l.sector
             q == n * header.logicalSectorsPerCluster
  <2>4. DrivesInv' /\ lba' = b /\ count' = n
    <3>1. Read(reading, b, q) /\ q = n
      BY <2>1, <2>2
    <3> HIDE DEF b, q
    <3> QED BY <1>1, <2>3, <3>1, DriverIsAsked
  <2>5. b \in Nat
    <3>1. b = clusterStartSector(inserted.header, c)
      BY <1>1 DEF Location
    <3>2. c \in Nat /\ c >= MIN_FILE_CLUSTER
      <4>1. L \in Nat
        BY <1>1, LastIsNat
      <4>2. c \in MIN_FILE_CLUSTER .. L
        OBVIOUS
      <4> HIDE DEF c, L
      <4> QED BY <4>1, <4>2 DEF MIN_FILE_CLUSTER
    <3> HIDE DEF c
    <3> QED BY <1>1, <3>1, <3>2, SectorOfCluster
  <2>6. m + n <= s
    <3> HIDE DEF n, s
    <3> QED BY <1>2, <1>3, <1>4, <1>7
  <2>7. IsLoading(inserted, entry, loaded, l, b, n)
    <3>1. w = Chain(inserted, entry.firstLogicalCluster)
      BY DEF Loading
    <3>2. AreLoaded(inserted.header, w, m, loaded) /\ c \in MIN_FILE_CLUSTER .. lastCluster(inserted.header)
          /\ l = Location(inserted.header, c) /\ b = l.sector
          /\ IsRun(inserted.table, lastCluster(inserted.header), c, c + n - 1)
      BY <1>1, <1>2
    <3> HIDE DEF l, b, n, s, L
    <3> QED BY <1>2, <1>3, <2>6, <3>1, <3>2 DEF IsLoading, s
  <2> HIDE DEF l, b, n
  <2>8. IsLoading(inserted', entry', dst', location', lba', count')
    BY <1>5, <2>1, <2>4, <2>7 DEF Looking
  <2>9. FileInv'
    BY <1>5, <1>6, <2>1, <2>8 DEF FileInv, Looking
  <2> QED BY <2>4, <2>5, <2>9 DEF LoadInv
<1>8. CASE ~ Fits(l, loaded)
  <2>1. at' = "ready" /\ result' = "UNKNOWN" /\ UNCHANGED floppy
    BY <1>8, Zenon DEF ReadRun
  <2>2. DrivesInv' /\ lba' \in Nat
    BY <2>1, LookingRests
  <2>3. ~ IsFile(inserted, entry)
    <3>1. IsFile(inserted, entry) => w[s] \in 4088 .. 4095
      BY DEF IsFile, Loading
    <3>2. ~ (n <= s - m)
      BY <1>4, <1>8
    <3>3. IsChain(w, inserted.table)
      BY DEF Loading
    <3>4. w[m] \in MIN_FILE_CLUSTER .. lastCluster(inserted.header)
          /\ IsRun(inserted.table, lastCluster(inserted.header), w[m], w[m] + n - 1)
      BY <1>1, <1>2
    <3> HIDE DEF n, s, c, l, L
    <3>5. ~ (w[s] \in 4088 .. 4095)
      BY <1>1, <1>2, <1>3, <3>2, <3>3, <3>4, NoRoom
    <3> QED BY <3>1, <3>5
  <2>4. IsLoaded(inserted', entry', dst', result', broken')
    BY <1>5, <2>1, <2>3 DEF IsLoaded, Looking
  <2>5. FileInv'
    BY <1>5, <1>6, <2>1, <2>4 DEF FileInv, Looking
  <2> QED BY <2>2, <2>5 DEF LoadInv
<1> QED BY <1>7, <1>8

LEMMA TableLeads ==
  ASSUME DisksArePlain, LoadInv, TableIsRead
  PROVE  LoadInv'
<1>1. Back("table") /\ at = "table"
  BY Zenon DEF TableIsRead, Back
<1>2. Looking
  BY <1>1, StorageLooks
<1>3. IsTaken(inserted) /\ IsPlain(inserted) /\ header = inserted.header
  BY <1>2 DEF Looking, header
<1>4. CASE broken' \/ ~fatVerify(header, fatBytes(inserted))
  <2>1. Finish("UNKNOWN")
    BY <1>4, Zenon DEF TableIsRead
  <2>2. broken' \/ inserted.table # inserted.copy
    BY <1>3, <1>4, CopiesMatch
  <2> QED BY <1>1, <1>2, <2>1, <2>2, LoadFails
<1>5. CASE ~ (broken' \/ ~fatVerify(header, fatBytes(inserted)))
  <2> DEFINE w == Chain(inserted, entry.firstLogicalCluster)
  <2>1. Loading(w)
    BY <1>1, <1>2, FileIsLoading
  <2>2. ReadRun(Location(header, w[0]), <<>>)
    <3>1. w[0] = entry.firstLogicalCluster
      BY <2>1 DEF Loading
    <3> HIDE DEF w
    <3> QED BY <1>5, <3>1, Zenon DEF TableIsRead
  <2>3. w[0] \in MIN_FILE_CLUSTER .. lastCluster(header)
    <3> DEFINE c == entry.firstLogicalCluster
               L == lastCluster(header)
    <3>1. w[0] = c /\ c \in Cluster /\ validateDirEntry(header, entry)
      BY <1>3, <2>1 DEF Loading, IsEntry
    <3>2. c <= L /\ c >= MIN_FILE_CLUSTER
      BY <1>3, <3>1, Geometry DEF StartsWithin, validateDirEntry
    <3>3. L \in Nat
      BY <1>3, LastIsNat
    <3>4. c \in Nat
      <4> HIDE DEF c
      <4> QED BY <3>1 DEF Cluster
    <3> HIDE DEF c, L, w
    <3>5. c \in MIN_FILE_CLUSTER .. L
      BY <3>2, <3>3, <3>4 DEF MIN_FILE_CLUSTER
    <3> QED BY <3>1, <3>5 DEF L
  <2> HIDE DEF w
  <2>4. AreLoaded(header, w, 0, <<>>)
    BY DEF AreLoaded
  <2>5. 0 <= expected
    BY <2>1 DEF Loading
  <2> QED BY <1>2, <2>1, <2>2, <2>3, <2>4, <2>5, RunBegins
<1> QED BY <1>4, <1>5

\* The sectors of a read that is whole.
LEMMA SectorIsRead ==
  ASSUME NEW s \in Nat, NEW n \in Nat, NEW k \in 1 .. n
  PROVE  Sectors(s, s + n)[k * CHUNKS][1] = s + k - 1
<1> DEFINE C == CHUNKS
           p == k * C
           q == (k - 1) * C
           a == n * C
<1>1. C \in Nat \ {0}
  BY FloppyAssumption
<1>2. p \in Nat /\ q \in Nat /\ a \in Nat /\ p = q + C /\ p <= a /\ p >= 1
  <2>1. p = q + C /\ p \in Nat /\ q \in Nat /\ a \in Nat
    BY <1>1
  <2>2. (n - k) * C \in Nat /\ a = p + (n - k) * C
    BY <1>1
  <2> DEFINE b == (n - k) * C
  <2>3. b \in Nat /\ a = p + b
    BY <2>2
  <2> HIDE DEF a, b, p, q, C
  <2> QED BY <1>1, <2>1, <2>3
<1>3. (p - 1) \div C = k - 1
  <2>1. C * (k - 1) = q /\ k - 1 \in Nat /\ C - 1 \in Nat /\ C - 1 < C
    BY <1>1
  <2> DEFINE j == k - 1
             r == C - 1
  <2>2. C * j = q /\ j \in Nat /\ r \in Nat /\ r < C
    BY <2>1
  <2>3. q + r = p - 1
    <3> HIDE DEF p, q, C
    <3> QED BY <1>1, <1>2
  <2> HIDE DEF C, j, r
  <2>4. (C * j + r) \div C = j
    BY <1>1, <2>2, DivisionIsUnique
  <2> HIDE DEF p, q
  <2> QED BY <2>2, <2>3, <2>4 DEF j
<1>4. Sectors(s, s + n) = [x \in 1 .. a |-> Chunk(s, x - 1)]
  <2>1. s + n - s = n
    OBVIOUS
  <2> QED BY <2>1 DEF Sectors
<1>5. p \in 1 .. a
  <2> HIDE DEF p, a, q, C
  <2> QED BY <1>2
<1>6. Sectors(s, s + n)[p] = Chunk(s, p - 1)
  <2> HIDE DEF p, a
  <2> QED BY <1>4, <1>5
<1>7. Chunk(s, p - 1)[1] = s + (k - 1)
  <2> HIDE DEF p
  <2> QED BY <1>3 DEF Chunk
<1> HIDE DEF p
<1>8. Sectors(s, s + n)[p][1] = s + (k - 1)
  BY <1>6, <1>7
<1>9. s + (k - 1) = s + k - 1
  OBVIOUS
<1> QED BY <1>8, <1>9 DEF p

\* The end of a load.
LEMMA RunEnds ==
  ASSUME LoadInv, Looking, NEW w, Loading(w), NEW m, NEW loaded,
         AreLoaded(header, w, m, loaded), m > 0, m <= expected,
         ~ (w[m] \in MIN_FILE_CLUSTER .. lastCluster(header) /\ m < expected),
         dst' = loaded, at' = "ready", UNCHANGED <<floppy, file>>,
         result' = IF w[m] \in 4088 .. 4095 /\ m = expected THEN "NONE" ELSE "UNKNOWN"
  PROVE  LoadInv'
<1>1. DrivesInv' /\ lba' \in Nat
  BY LookingRests
<1>2. entry' = entry /\ header = inserted.header
  BY DEF entry, header
<1>3. /\ FileInv /\ IsEntry(inserted, entry) /\ file = {entry}
      /\ w = Chain(inserted, entry.firstLogicalCluster)
      /\ expected = Size(inserted, entry) /\ Size(inserted, entry) \in Nat
  BY DEF LoadInv, Loading
<1> DEFINE End == w[m] \in 4088 .. 4095 /\ m = expected
<1>4. IF End THEN IsFile(inserted, entry) /\ loaded = Contents(inserted, entry)
             ELSE ~ IsFile(inserted, entry)
  BY <1>2, <1>3, FileEnds
<1>5. result' = IF End THEN "NONE" ELSE "UNKNOWN"
  OBVIOUS
<1> HIDE DEF End
<1>6. IsLoaded(inserted, entry, loaded, result', broken')
  BY <1>4, <1>5 DEF IsLoaded
<1>7. FileInv'
  BY <1>2, <1>3, <1>6 DEF FileInv, Looking
<1> QED BY <1>1, <1>7 DEF LoadInv

LEMMA RunLeads ==
  ASSUME DisksArePlain, ReadInv, LoadInv, RunIsRead
  PROVE  LoadInv'
<1> DEFINE last == lastContiguous(location.allocUnit)
           next == nextLocation(header, fatBytes(inserted), Location(header, last))
           N == runLength(location)
           more == [k \in 1 .. N |-> buffer[k * CHUNKS][1]]
           loaded == dst \o more
           w == Chain(inserted, entry.firstLogicalCluster)
           L == lastCluster(header)
<1>1. Back("run") /\ at = "run"
  BY Zenon DEF RunIsRead, Back
<1>2. Looking
  BY <1>1, StorageLooks
<1>3. IsTaken(inserted) /\ IsPlain(inserted) /\ header = inserted.header
  BY <1>2 DEF Looking, header
<1>4. Loading(w)
  BY <1>1, <1>2, FileIsLoading
<1>5. CASE broken'
  <2>1. Finish("UNKNOWN")
    BY <1>5, Zenon DEF RunIsRead
  <2> QED BY <1>1, <1>2, <1>5, <2>1, LoadFails
<1>6. CASE ~ broken'
  <2>1. /\ pc = "idle" /\ error = "NONE" /\ lba \in Nat
        /\ IsLoading(inserted, entry, dst, location, lba, count)
    BY <1>1, <1>6 DEF Back, At, LoadInv, FileInv
  <2>2. buffer = Sectors(lba, lba + count)
    BY <2>1 DEF ReadInv, ReadGoesWell, ReadIsWhole
  <2>3. PICK m \in Nat :
          /\ AreLoaded(header, w, m, dst) /\ w[m] \in MIN_FILE_CLUSTER .. L
          /\ location = Location(header, w[m]) /\ lba = location.sector
          /\ count \in Int /\ IsRun(inserted.table, L, w[m], w[m] + count - 1)
          /\ m + count <= expected
    BY <1>3, <1>4, <2>1, Zenon DEF IsLoading, Loading
  <2> DEFINE c == w[m]
             n == count
  <2>4. N = n /\ last = c + n - 1
    <3>1. location.allocUnit = c
      BY <2>3 DEF Location
    <3> HIDE DEF w
    <3>2. /\ lastContiguous(c) = c + N - 1
          /\ \A k \in Int : IsRun(inserted.table, L, c, c + k - 1) => k = N
      BY <1>2, <2>3, RunHasLength
    <3>3. n = N
      <4> HIDE DEF N, c
      <4> QED BY <2>3, <3>2 DEF c
    <3> QED BY <3>1, <3>2, <3>3
  <2>5. L \in Nat /\ inserted.table \in [0 .. L -> Cluster] /\ IsChain(w, inserted.table)
        /\ expected \in Nat
    BY <1>3, <1>4, LastIsNat DEF Loading
  <2>6. n \in Nat \ {0}
    <3>1. Covers(w, inserted.table, L, m, n)
      <4> HIDE DEF w, L
      <4> QED BY <2>3, <2>5, ChainRuns
    <3> QED BY <3>1, Zenon DEF Covers
  <2>7. more = RunSectors(header, c, n)
    <3>1. lba = clusterStartSector(header, c)
      BY <2>3 DEF Location
    <3> HIDE DEF c, w
    <3>2. \A k \in 1 .. n : buffer[k * CHUNKS][1] = lba + k - 1
      BY <2>1, <2>2, <2>6, SectorIsRead
    <3> HIDE DEF N
    <3>3. more = [k \in 1 .. n |-> buffer[k * CHUNKS][1]]
      BY <2>4
    <3> HIDE DEF more
    <3> QED BY <3>1, <3>2, <3>3 DEF RunSectors
  <2> HIDE DEF more, w, last, N
  <2>8. AreLoaded(header, w, m + n, loaded) /\ nextCluster(fatBytes(inserted), c + n - 1) = w[m + n]
    <3>1. HasRun(inserted, w, m, dst, n)
      <4>1. n \in Int /\ IsChain(w, inserted.table)
        BY <2>5, <2>6
      <4> QED BY <1>3, <2>3, <4>1 DEF HasRun
    <3>2. EndsRun(inserted, w, m, dst, n)
      BY <1>3, <3>1, RunIsLoaded
    <3> QED BY <1>3, <2>7, <3>2 DEF EndsRun
  <2>9. next = Location(header, w[m + n])
    <3>1. Location(header, last).allocUnit = c + n - 1
      BY <2>4 DEF Location
    <3>2. ~ ((Location(header, last).sector + 1) % header.logicalSectorsPerCluster # 0)
      <4> DEFINE x == Location(header, last).sector
      <4>1. header.logicalSectorsPerCluster = 1
        BY <1>3 DEF IsPlain
      <4>2. x \in Nat
        <5>1. last \in Nat /\ last >= MIN_FILE_CLUSTER
          <6>1. c \in MIN_FILE_CLUSTER .. L
            BY <2>3
          <6> HIDE DEF c, L
          <6> QED BY <2>4, <2>6, <6>1 DEF MIN_FILE_CLUSTER
        <5>2. x = clusterStartSector(inserted.header, last)
          BY <1>3 DEF Location
        <5> QED BY <1>3, <5>1, <5>2, SectorOfCluster
      <4> HIDE DEF x
      <4>3. (x + 1) % 1 = 0
        BY <4>2
      <4> QED BY <4>1, <4>3 DEF x
    <3> QED BY <2>8, <3>1, <3>2, Zenon DEF nextLocation
  <2> DEFINE M == m + n
  <2>10. M \in Nat /\ M > 0 /\ M <= expected
    BY <2>3, <2>6
  <2>11. Len(loaded) = M
    <3> HIDE DEF loaded
    <3> QED BY <2>8, <2>10 DEF AreLoaded
  <2> HIDE DEF M, loaded, c
  <2>12. w[M] \in Nat /\ next.allocUnit = w[M]
    <3>1. next.allocUnit = w[M]
      BY <2>9 DEF Location, M
    <3>2. Cluster \subseteq Nat
      BY DEF Cluster
    <3> QED BY <2>5, <2>10, <3>1, <3>2 DEF IsChain
  <2> DEFINE v == w[M]
  <2>13. isValidForRead(header, next) <=> v \in MIN_FILE_CLUSTER .. L
    <3>1. L <= MAX_FILE_CLUSTER /\ MAX_FILE_CLUSTER \in Nat
      <4>1. lastCluster(inserted.header) <= MAX_FILE_CLUSTER
        BY <1>3, Zenon DEF IsPlain
      <4> QED BY <1>3, <4>1 DEF MAX_FILE_CLUSTER
    <3>2. isValidForRead(header, next)
            <=> MIN_FILE_CLUSTER <= v /\ v <= L /\ v <= MAX_FILE_CLUSTER
      BY <2>12, Zenon DEF isValidForRead
    <3> HIDE DEF v, L, next
    <3>3. v \in Nat
      BY <2>12 DEF v
    <3> QED BY <2>5, <3>1, <3>2, <3>3 DEF MIN_FILE_CLUSTER
  <2>14. isEOF(next) <=> v \in 4088 .. 4095
    <3>1. next.allocUnit = v /\ v \in Nat
      BY <2>12
    <3> HIDE DEF v, next
    <3> QED BY <3>1 DEF isEOF
  <2> HIDE DEF v, next
  <2>15. CASE isValidForRead(header, next) /\ Len(loaded) < expected
    <3>1. ReadRun(next, loaded)
      BY <1>6, <2>15, Zenon DEF RunIsRead, next, loaded, more, last, N
    <3>2. ReadRun(Location(header, w[M]), loaded)
      BY <2>9, <3>1 DEF next, M
    <3>3. w[M] \in MIN_FILE_CLUSTER .. lastCluster(header) /\ AreLoaded(header, w, M, loaded)
      BY <2>8, <2>13, <2>15 DEF v, M
    <3> QED BY <1>2, <1>4, <2>10, <3>2, <3>3, RunBegins DEF w
  <2>16. CASE ~ (isValidForRead(header, next) /\ Len(loaded) < expected)
    <3>1. /\ dst' = loaded /\ at' = "ready"
          /\ result' = IF isEOF(next) /\ Len(loaded) = expected THEN "NONE" ELSE "UNKNOWN"
          /\ UNCHANGED <<floppy, file, location>>
      BY <1>6, <2>16, Zenon DEF RunIsRead, next, loaded, more, last, N
    <3>2. UNCHANGED <<floppy, file>>
      BY <3>1
    <3>3. AreLoaded(header, w, M, loaded)
      BY <2>8 DEF M
    <3>4. ~ (w[M] \in MIN_FILE_CLUSTER .. lastCluster(header) /\ M < expected)
      BY <2>11, <2>13, <2>16 DEF v
    <3>5. result' = IF w[M] \in 4088 .. 4095 /\ M = expected THEN "NONE" ELSE "UNKNOWN"
      BY <2>11, <2>14, <3>1 DEF v
    <3> QED BY <1>2, <1>4, <2>10, <3>1, <3>2, <3>3, <3>4, <3>5, RunEnds DEF w
  <2> QED BY <2>15, <2>16
<1> QED BY <1>5, <1>6

LEMMA EveryStepLoads ==
  ASSUME DisksArePlain, ReadInv, LoadInv, Next
  PROVE  LoadInv'
<1>1. CASE (Tick /\ UNCHANGED storage) \/ (Controller /\ UNCHANGED <<timer, storage>>)
           \/ (Driver /\ UNCHANGED <<timer, storage>>)
  <2>1. UNCHANGED storage /\ (Tick \/ Controller \/ Driver)
    BY <1>1, Zenon
  <2>2. DrivesInv /\ FileInv /\ lba \in Nat
    BY DEF LoadInv
  <2>3. drive' \in Drive /\ driveCount' \subseteq Drive /\ lba' = lba /\ count' = count
    BY <2>1, <2>2, DriverKeeps, Zenon DEF DrivesInv
  <2>4. FileInv'
    BY <2>1, <2>2, <2>3, FilesRest
  <2>5. UNCHANGED <<disk, k_stor_drives, k_stor_volumes>>
    BY <2>1 DEF storage
  <2>6. DrivesInv'
    BY <2>2, <2>3, <2>5 DEF DrivesInv, IsVolume
  <2> QED BY <2>2, <2>3, <2>4, <2>6 DEF LoadInv
<1>2. CASE Start \/ Load
  BY <1>2, FileIsAsked, Zenon DEF Start, Load
<1> QED
  BY <1>1, <1>2, DrivesAreFound, VolumeIsFound, HeaderLeads, DirectoryLeads, TableLeads,
     RunLeads, Zenon DEF Next

LEMMA ReadsBegin ==
  ASSUME StorageInit
  PROVE  ReadInv
<1>1. /\ pc = "off" /\ lba = 0 /\ count = 0 /\ buffer = <<>> /\ fifo = 0 /\ sent = 0
  BY DEF StorageInit, FloppyInit
<1> QED BY <1>1 DEF ReadInv, ReadGoesWell, Before, InRead, ReadIsWhole

LEMMA LoadsBegin ==
  ASSUME StorageInit
  PROVE  LoadInv
<1>1. /\ drive = 0 /\ lba = 0 /\ driveCount = {} /\ disk \in [Drive -> Disk]
      /\ k_stor_drives = {} /\ k_stor_volumes = <<>> /\ at = "init" /\ file = {}
  BY DEF StorageInit, FloppyInit
<1>2. 0 \in Drive
  BY FloppyAssumption DEF Drive
<1>3. DrivesInv
  BY <1>1, <1>2 DEF DrivesInv
<1>4. FileInv
  BY <1>1 DEF FileInv
<1> QED BY <1>1, <1>3, <1>4 DEF LoadInv

LEMMA StorageReads ==
  ASSUME ReadInv, [Next]_vars
  PROVE  ReadInv'
<1>1. UNCHANGED vars => Idles
  BY Zenon DEF vars, floppy, client, controller, Idles, Reading
<1> QED BY <1>1, StorageAsks, EveryStepReads

LEMMA EveryStepHolds ==
  ASSUME DisksArePlain
  PROVE  ReadInv /\ LoadInv /\ [Next]_vars => (ReadInv /\ LoadInv)'
<1> SUFFICES ASSUME ReadInv, LoadInv, [Next]_vars PROVE (ReadInv /\ LoadInv)'
  OBVIOUS
<1>1. CASE UNCHANGED vars
  <2>1. UNCHANGED storage /\ UNCHANGED <<drive, driveCount, lba, count>>
    BY <1>1 DEF vars, floppy, client
  <2>2. UNCHANGED <<disk, k_stor_drives, k_stor_volumes>>
    BY <2>1 DEF storage
  <2>3. DrivesInv /\ FileInv /\ lba \in Nat
    BY DEF LoadInv
  <2>4. DrivesInv' /\ lba' = lba /\ count' = count
    BY <2>1, <2>2, <2>3, DriverRests
  <2>5. FileInv'
    BY <2>1, <2>3, FilesRest
  <2> QED BY <2>3, <2>4, <2>5, StorageReads DEF LoadInv
<1>2. CASE Next
  BY <1>2, StorageReads, EveryStepLoads
<1> QED BY <1>1, <1>2

-----------------------------------------------------------------------------
(* The theorems.                                                           *)

\* The clock never falls behind the time and is never ahead of it by a millisecond,
\* whatever the frequency of the timer (k_tmr_tick).
THEOREM ClockStaysTrue == Spec => []ClockIsTrue
<1>1. StorageInit => ClockInv
  <2>1. StorageInit => driftCurrent = 0 /\ lag = 0
    BY Zenon DEF StorageInit, TimerInit
  <2>2. 0 < k_pit_freq
    BY TimerAssumption
  <2> QED BY <2>1, <2>2 DEF ClockInv
<1>2. ClockInv /\ [Next]_vars => ClockInv'
  <2> SUFFICES ASSUME ClockInv, [Next]_vars PROVE ClockInv'
    OBVIOUS
  <2>1. CASE Tick
    BY <2>1, ClockTicks DEF Tick
  <2>2. CASE UNCHANGED timer
    BY <2>2 DEF ClockInv, timer
  <2>3. Tick \/ UNCHANGED timer
    BY StorageAsks, Zenon DEF vars
  <2> QED BY <2>1, <2>2, <2>3
<1>3. ClockInv => ClockIsTrue
  BY TimerAssumption DEF ClockInv, ClockIsTrue
<1> QED BY <1>1, <1>2, <1>3, PTL DEF Spec

\* An interrupt that waits to be seen is the one of the last command, however late
\* those of the commands before it came.
THEOREM InterruptsAreOurs == Spec => []InterruptIsOurs
<1>1. StorageInit => InterruptInv
  <2>1. StorageInit => pc = "off" /\ irqRecv = FALSE /\ phase = "command"
    BY Zenon DEF StorageInit, FloppyInit
  <2> QED BY <2>1 DEF InterruptInv, InterruptIsOurs
<1>2. InterruptInv /\ [Next]_vars => InterruptInv'
  <2> SUFFICES ASSUME InterruptInv, [Next]_vars PROVE InterruptInv'
    OBVIOUS
  <2>1. UNCHANGED vars => Idles
    BY Zenon DEF vars, floppy, client, controller, Idles, Reading
  <2> QED BY <2>1, StorageAsks, EveryStepInterrupts, Zenon
<1>3. InterruptInv => InterruptIsOurs
  BY Zenon DEF InterruptInv
<1> QED BY <1>1, <1>2, <1>3, PTL DEF Spec

\* A read that returns without an error is whole, for any sector it is asked for,
\* though the controller may end its command at any chunk and call that normal.
THEOREM ReadsAreWhole == Spec => [](lba \in Nat => ReadIsWhole)
<1>1. StorageInit => ReadInv
  BY ReadsBegin
<1>2. ReadInv /\ [Next]_vars => ReadInv'
  BY StorageReads
<1>3. ReadInv => (lba \in Nat => ReadIsWhole)
  BY DEF ReadInv, ReadGoesWell
<1> QED BY <1>1, <1>2, <1>3, PTL DEF Spec

\* On plain disks a read that returns without an error is whole, for the storage asks
\* for sectors that there are numbers of.
THEOREM EveryReadIsWhole ==
  ASSUME DisksArePlain
  PROVE  Spec => []ReadIsWhole
<1>1. StorageInit => ReadInv /\ LoadInv
  BY ReadsBegin, LoadsBegin
<1>2. ReadInv /\ LoadInv /\ [Next]_vars => (ReadInv /\ LoadInv)'
  BY EveryStepHolds
<1>3. ReadInv /\ LoadInv => ReadIsWhole
  BY DEF ReadInv, LoadInv, ReadGoesWell
<1> QED BY <1>1, <1>2, <1>3, PTL DEF Spec

\* On plain disks a file that is loaded is the file on the disk, cluster by cluster, and
\* a sound one is loaded unless a read fails.
THEOREM LoadsAreFiles ==
  ASSUME DisksArePlain
  PROVE  Spec => []LoadIsTheFile
<1>1. StorageInit => ReadInv /\ LoadInv
  BY ReadsBegin, LoadsBegin
<1>2. ReadInv /\ LoadInv /\ [Next]_vars => (ReadInv /\ LoadInv)'
  BY EveryStepHolds
<1>3. LoadInv => LoadIsTheFile
  BY DEF LoadInv, FileInv, LoadIsTheFile, IsLoaded
<1> QED BY <1>1, <1>2, <1>3, PTL DEF Spec
=============================================================================
