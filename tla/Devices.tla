------------------------------ MODULE Devices ------------------------------
(***************************************************************************)
(* The device manager (dev/dev.c) and the table of interrupt routines      *)
(* (hal/hal.c): drivers are installed one after the other while the kernel *)
(* starts; a process holds a device while it uses it, and may listen to    *)
(* its events; an interrupt of the device becomes a callback to it.        *)
(***************************************************************************)
EXTENDS Integers, Sequences, FiniteSets

CONSTANTS MAX_DEVICES, DEV_IRQ_LIMIT,
          Drivers            \* the lists of drivers a kernel may start with

VARIABLES devices,           \* the devices installed so far, as a sequence
          isrReg,            \* what each interrupt line leads to
          installing         \* the drivers left, and how far the first one is

deviceVars == <<devices, isrReg, installing>>

NO_ISR == [devId |-> 0, routine |-> FALSE]
NOBODY == -2

Irq == 0 .. DEV_IRQ_LIMIT - 1

DeviceType == {"SYSTEM", "MEM", "KEYBOARD", "MOUSE", "DISPLAY",
               "CHAR_IN", "CHAR_OUT", "STORAGE", "FDC"}

\* The parts of a device's api: a number that is not 0, a routine that is there.
gnwDeviceUHA ==
  {"mem.bytesRange", "mem.write", "display.formats", "system.getParam",
   "system.setParam", "charIn.hasData", "charIn.read", "charOut.isReadyToWrite",
   "charOut.write", "storCtrl.driveCount", "storCtrl.driveGeometry",
   "storCtrl.drivePresent", "storCtrl.read"}

\* What the descriptor of a device of a type has to have.
Required ==
  [t \in DeviceType |->
     CASE t = "MEM" -> {"mem.bytesRange", "mem.write"}
       [] t = "DISPLAY" -> {"display.formats", "system.getParam", "system.setParam"}
       [] t = "CHAR_IN" -> {"charIn.hasData", "charIn.read"}
       [] t = "CHAR_OUT" -> {"charOut.isReadyToWrite", "charOut.write"}
       [] t = "STORAGE" -> {"storCtrl.driveCount", "storCtrl.driveGeometry",
                            "storCtrl.drivePresent", "storCtrl.read"}
       [] OTHER -> {}]

\* A driver: the types and the api of its device, its interrupt line if it has
\* a service routine, what init and start return (TRUE where there is none) and
\* whether the routine emits events.
gnwDeviceDescriptor ==
  [type : SUBSET DeviceType, api : SUBSET gnwDeviceUHA,
   isr : BOOLEAN, irq : Nat, init : BOOLEAN, start : BOOLEAN, emits : BOOLEAN]

ASSUME DevicesAssumption ==
  /\ MAX_DEVICES \in Nat
  /\ DEV_IRQ_LIMIT \in Nat
  /\ Drivers \subseteq Seq(gnwDeviceDescriptor)

validateDeviceDescriptor(d) ==
  d.type # {} /\ \A t \in d.type : Required[t] \subseteq d.api

k_hal_isIRQRegistered(irq) == irq \in Irq /\ isrReg[irq].routine

Driver == Head(installing.drivers)
Booted == installing.drivers = <<>>

\* Up to the call of k_hal_install.
Installable(d) ==
  /\ Len(devices) < MAX_DEVICES
  /\ validateDeviceDescriptor(d)
  /\ d.irq < DEV_IRQ_LIMIT
  /\ ~(d.isr /\ k_hal_isIRQRegistered(d.irq))
  /\ d.init

device(d) == [desc |-> d, started |-> FALSE, holder |-> NOBODY, listener |-> FALSE]

\* The routine is in the table and the line is open before the device is known.
k_hal_install ==
  /\ ~Booted /\ installing.step = "install"
  /\ Installable(Driver)
  /\ isrReg' = IF Driver.isr
               THEN [isrReg EXCEPT ![Driver.irq] = [devId |-> Len(devices), routine |-> TRUE]]
               ELSE isrReg
  /\ installing' = [installing EXCEPT !.step = "add"]
  /\ UNCHANGED devices

AddDevice ==
  /\ ~Booted /\ installing.step = "add"
  /\ devices' = Append(devices, device(Driver))
  /\ installing' = [installing EXCEPT !.step = "start"]
  /\ UNCHANGED isrReg

k_dev_start ==
  /\ ~Booted /\ installing.step = "start"
  /\ Driver.start
  /\ devices' = [devices EXCEPT ![Len(devices)].started = TRUE]
  /\ installing' = [drivers |-> Tail(installing.drivers), step |-> "install"]
  /\ UNCHANGED isrReg

\* A driver that cannot be installed or started is a panic (loadDevice).
LoadFails ==
  /\ ~Booted
  /\ \/ installing.step = "install" /\ ~Installable(Driver)
     \/ installing.step = "start" /\ ~Driver.start

-----------------------------------------------------------------------------
(* The calls of a process p that runs; id is what it passes.               *)

validateInstalledId(id) == id \in 0 .. Len(devices) - 1

Holds(p, id) == devices[id + 1].holder = p

\* validateStartedDevice: what every use but these two asks for. (A device that
\* processes know of is started: the kernel has panicked otherwise.)
MayUse(p, id) == validateInstalledId(id) /\ Holds(p, id) /\ devices[id + 1].started

\* devGetById, devMemWrite, devAcquire and devRelease panic for an unknown device.
k_dev_acquireHold(p, id) ==
  /\ validateInstalledId(id)
  /\ Holds(NOBODY, id)
  /\ devices' = [devices EXCEPT ![id + 1].holder = p]
  /\ UNCHANGED <<isrReg, installing>>

Released(d) == [d EXCEPT !.holder = NOBODY, !.listener = FALSE]

k_dev_releaseHold(p, id) ==
  /\ validateInstalledId(id)
  /\ Holds(p, id)
  /\ devices' = [devices EXCEPT ![id + 1] = Released(@)]
  /\ UNCHANGED <<isrReg, installing>>

k_dev_listen(p, id) ==
  /\ MayUse(p, id)
  /\ ~devices[id + 1].listener
  /\ devices' = [devices EXCEPT ![id + 1].listener = TRUE]
  /\ UNCHANGED <<isrReg, installing>>

k_dev_procCleanup(p) ==
  /\ devices' = [i \in DOMAIN devices |->
                   IF devices[i].holder = p THEN Released(devices[i]) ELSE devices[i]]
  /\ UNCHANGED <<isrReg, installing>>

-----------------------------------------------------------------------------
(* An interrupt on a line that is open: k_hal_irqHandle calls the routine, *)
(* which for the keyboard is k_dev_emit.                                   *)

Open(irq) == isrReg[irq].routine

\* The device the interrupted driver may emit an event of.
Serviced(irq) == isrReg[irq].devId

Emits(irq) ==
  IF validateInstalledId(Serviced(irq))
  THEN devices[Serviced(irq) + 1].desc.emits
  ELSE ~Booted /\ Driver.emits

\* k_dev_emit panics: no such device.
EmitterUnknown(irq) == Emits(irq) /\ ~validateInstalledId(Serviced(irq))

\* The process the event is for, if it is for anyone.
Listener(irq) ==
  IF /\ Emits(irq) /\ validateInstalledId(Serviced(irq))
     /\ devices[Serviced(irq) + 1].started
     /\ devices[Serviced(irq) + 1].listener
  THEN devices[Serviced(irq) + 1].holder ELSE NOBODY

DevicesInit ==
  /\ devices = <<>>
  /\ isrReg = [irq \in Irq |-> NO_ISR]
  /\ \E drivers \in Drivers : installing = [drivers |-> drivers, step |-> "install"]

\* As far as processes are concerned.
DevicesTypeOK ==
  /\ devices \in Seq([desc : gnwDeviceDescriptor, started : BOOLEAN,
                      holder : Int, listener : BOOLEAN])
  /\ installing \in [drivers : Seq(gnwDeviceDescriptor), step : {"install", "add", "start"}]
=============================================================================
