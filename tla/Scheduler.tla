------------------------------ MODULE Scheduler ------------------------------
(***************************************************************************)
(* The kernel of GunwOS as one CPU sees it: the process table (hal/proc),  *)
(* the round-robin scheduler (schedule), the queue of deferred functions   *)
(* (queue), and the calls and interrupts that drive them.                  *)
(*                                                                         *)
(* There is one CPU.  It is either in the kernel's loop k_que_start, with  *)
(* interrupts enabled between the actions below, or in one user process.   *)
(* A system call or a hardware interrupt runs with interrupts disabled, so *)
(* each is one action that ends with ISR_END.  An OOPS halts the CPU:      *)
(* `oops' names it, and what else the step does cannot be observed.        *)
(***************************************************************************)
EXTENDS Integers, Sequences, FiniteSets

CONSTANTS
  MAX_PROC,             \* slots of the process table
  GRANULARITY_MS,       \* milliseconds a process runs before a re-evaluation
  MAX_QUEUE_LENGTH,     \* slots of the kernel's queue
  DISPATCH_QUEUE_SIZE,  \* slots of a process's run loop
  MAX_BINDING,          \* bindings of the IPC: senders a process may be bound to
  BOOTED                \* processes started by k_startup

ASSUME SchedulerAssumption ==
  /\ MAX_PROC \in Nat \ {0}
  /\ GRANULARITY_MS \in Nat \ {0}
  /\ MAX_QUEUE_LENGTH \in Nat \ {0}
  /\ DISPATCH_QUEUE_SIZE \in Nat \ {0}
  /\ MAX_BINDING \in Nat
  /\ BOOTED \in 1..MAX_PROC

KERNEL == -1            \* KERNEL_PROC_ID, also "no process"
Proc == 0 .. MAX_PROC - 1
ProcOrKernel == Proc \cup {KERNEL}

State == {"NONE", "NEW", "READY", "RUNNING", "BLOCKED", "FINISHED"}
LockType == {"EVENT", "IPC"}
Function == {"schedEvaluate", "waitForEvent", "start", "devCleanup",
             "ipcCleanup", "runloopCleanup", "procCleanup", "unlockIfAble"}
Task == [fn : Function, proc : ProcOrKernel]

Oops == {"none", "queue full", "switch", "to kernel", "lock", "stop",
         "cleanup", "dead callback", "emit", "notice"}

VARIABLES
  kernelState,           \* state of the kernel process
  state,                 \* pTab[p].info.state
  lockMask,              \* pTab[p].lockMask
  procCurrent,           \* the process the CPU runs
  addressSpace,          \* the process whose page directory CR3 holds
  lastProcId,            \* schedule.c: process that ran last
  nextProcId,            \* schedule.c: process chosen to run next
  executionTimeCounter,  \* schedule.c: milliseconds of the running process
  queue,                 \* the kernel's queue; the running function is at its head
  scanned,               \* slots the running schedEvaluate has looked at
  loading,               \* process the running start function is loading
  unbound,               \* bindings the running k_ipc_procCleanup has given notice of
  pending,               \* items in the run loop of each process
  awaiting,              \* handler each process waits for a reply of
  ipcListeners,          \* processes with an IPC listener
  listener,              \* process that listens to the keyboard
  oops                   \* the panic that halted the CPU, if any

procVars == <<kernelState, state, lockMask, procCurrent, addressSpace>>
schedVars == <<lastProcId, nextProcId, executionTimeCounter>>
taskVars == <<scanned, loading, unbound>>
userVars == <<pending, awaiting, ipcListeners, listener>>
vars == <<procVars, schedVars, queue, taskVars, userVars, oops>>

-----------------------------------------------------------------------------
(* Helpers of the process table and of the scheduler.                      *)

Job(fn, p) == [fn |-> fn, proc |-> p]
Evaluate == Job("schedEvaluate", KERNEL)

Alive(st, p) == st[p] \in {"READY", "RUNNING", "BLOCKED"}

\* The slot procSelect looks at in its i-th turn.
SlotFromFirst(i) == i  \* variant: the search always starts at slot 0
Slot(i) == (lastProcId + i + 1) % MAX_PROC

\* Whether procSelect may return p.
Resumable(st, p) == st[p] \in {"READY", "BLOCKED"}  \* variant: locks ignored
Ready(st, p) == st[p] = "READY"

\* Whether procSelect, run on the states st, returns p.
Selects(st, p) ==
  \E i \in Proc :
    /\ p = Slot(i)
    /\ Ready(st, p)
    /\ \A j \in 0 .. i - 1 : ~Ready(st, Slot(j))

\* k_proc_lock takes effect at once; the process is BLOCKED afterwards.
Lockable(st, p) == Alive(st, p)
LockTasks(st, p) == IF st[p] = "BLOCKED" THEN <<>> ELSE <<Evaluate>>

\* k_proc_unlock wakes a process when it drops its last lock.
AllUnlocked(lm, p, type) == [lm EXCEPT ![p] = {}]  \* variant: mask cleared
Unlocked(lm, p, type) == [lm EXCEPT ![p] = @ \ {type}]
WakesIfLocked(st, lm, p, type) ==    \* variant: the other locks are ignored
  st[p] = "BLOCKED"
WakesIfUnlocked(st, lm, p, type) ==  \* variant: the state is not tested
  lm[p] \ {type} = {}
Wakes(st, lm, p, type) == st[p] = "BLOCKED" /\ lm[p] \ {type} = {}
Woken(st, lm, p, type) ==
  IF Wakes(st, lm, p, type) THEN [st EXCEPT ![p] = "READY"] ELSE st
NoWakeTasks(st, lm, p, type) == <<>>  \* variant: the schedule is not reviewed
WakeTasks(st, lm, p, type) ==
  IF Wakes(st, lm, p, type) THEN <<Evaluate>> ELSE <<>>

\* The panic raised by a step, given the queue it leaves behind.
Overflow(q) == IF Len(q) > MAX_QUEUE_LENGTH THEN "queue full" ELSE "none"

-----------------------------------------------------------------------------
(* How an interrupt service routine ends.                                  *)

\* ISR_END: with work queued, return to the kernel instead of the process
\* that was interrupted.  The state and the queue are those the handler has
\* left behind, alarm is a panic it has raised.  The process whose CPU state
\* is saved is nextProcId, not procCurrent.
IsrEnd(st, q, alarm) ==
  LET toKernel == kernelState = "READY" /\ q # <<>>
      saved == nextProcId
      savable == saved \in Proc /\ st[saved] \in {"RUNNING", "BLOCKED", "FINISHED"}
  IN /\ queue' = q
     /\ kernelState' = IF toKernel THEN "RUNNING" ELSE kernelState
     /\ procCurrent' = IF toKernel THEN KERNEL ELSE procCurrent
     /\ lastProcId' = IF toKernel THEN nextProcId ELSE lastProcId
     /\ state' = IF toKernel /\ savable /\ st[saved] = "RUNNING"
                 THEN [st EXCEPT ![saved] = "READY"] ELSE st
     /\ oops' = IF alarm # "none" THEN alarm
                ELSE IF toKernel /\ ~savable THEN "to kernel" ELSE Overflow(q)
     /\ UNCHANGED <<addressSpace, nextProcId, taskVars>>

\* n times callbackInvoke on process p, whose states are st and locks are lm:
\* each adds an item to its run loop, drops its event lock, and has the schedule
\* reviewed.  The second item is the notice that a binding is gone, delivered by
\* the call that brought the first and destroys the binding (GIBF_UNBIND).
AcceptsOneMore(st, p, n) ==  \* variant: off by one at the last slot
  Alive(st, p) /\ pending[p] + n <= DISPATCH_QUEUE_SIZE + 1
Accepts(st, p, n) == Alive(st, p) /\ pending[p] + n <= DISPATCH_QUEUE_SIZE
Reviews(n) == [i \in 1 .. n |-> Evaluate]
DeliverTasks(st, lm, p, n) == WakeTasks(st, lm, p, "EVENT") \o Reviews(n)

\* bindingDestroyNotify panics when the notice is refused, whatever refuses it.
NoticeAlarm(p) == IF state[p] \in {"NONE", "NEW"} THEN "dead callback" ELSE "notice"

\* Tasks queued by k_scr_usr_bye: the cleanups of the parts, then k_proc_stop.
StopFirst(p) ==  \* variant: k_proc_stop is called first
  <<Job("procCleanup", p), Evaluate,
    Job("devCleanup", p), Job("ipcCleanup", p), Job("runloopCleanup", p)>>
StopOnly(p) ==   \* variant: k_proc_stop forgets k_proc_cleanup
  <<Job("devCleanup", p), Job("ipcCleanup", p), Job("runloopCleanup", p), Evaluate>>
ByeTasks(p) ==
  <<Job("devCleanup", p), Job("ipcCleanup", p), Job("runloopCleanup", p),
    Job("procCleanup", p), Evaluate>>

\* Tasks queued by deliver when the item of a query with a reply is refused.
NoUndelivered(p) == <<>>  \* variant: the sender is not unlocked
Undelivered(p) == <<Job("unlockIfAble", p)>>

-----------------------------------------------------------------------------
(* Interrupts: possible at any time, in the kernel or in a process.        *)

TickWithoutEnd ==  \* variant: no early return once the time has run out
  /\ oops = "none"
  /\ executionTimeCounter' = IF executionTimeCounter < GRANULARITY_MS
                             THEN executionTimeCounter + 1 ELSE executionTimeCounter
  /\ IsrEnd(state,
            IF executionTimeCounter' < GRANULARITY_MS THEN queue ELSE Append(queue, Evaluate),
            "none")
  /\ UNCHANGED <<lockMask, userVars>>

\* The timer calls k_proc_schedule_onTick.
Tick ==
  /\ oops = "none"
  /\ executionTimeCounter < GRANULARITY_MS
  /\ executionTimeCounter' = executionTimeCounter + 1
  /\ IsrEnd(state,
            IF executionTimeCounter + 1 < GRANULARITY_MS
            THEN queue ELSE Append(queue, Evaluate),
            "none")
  /\ UNCHANGED <<lockMask, userVars>>

\* The keyboard driver emits an event; whatever k_dev_emit refuses is a panic.
KeyAlarm ==
  IF listener = KERNEL \/ state[listener] = "FINISHED" THEN "emit"
  ELSE IF ~Alive(state, listener) THEN "dead callback"
  ELSE IF Accepts(state, listener, 1) THEN "none" ELSE "emit"

KeyPress ==
  /\ oops = "none"
  /\ IF KeyAlarm = "none"
     THEN /\ pending' = [pending EXCEPT ![listener] = @ + 1]
          /\ lockMask' = Unlocked(lockMask, listener, "EVENT")
          /\ executionTimeCounter' = GRANULARITY_MS
          /\ IsrEnd(Woken(state, lockMask, listener, "EVENT"),
                    queue \o DeliverTasks(state, lockMask, listener, 1),
                    "none")
          /\ UNCHANGED <<awaiting, ipcListeners, listener>>
     ELSE /\ oops' = KeyAlarm
          /\ UNCHANGED <<procVars, schedVars, queue, taskVars, userVars>>

-----------------------------------------------------------------------------
(* System calls of the running process p.                                  *)

Running(p) == oops = "none" /\ kernelState = "READY" /\ procCurrent = p

\* Calls that only put a function in the kernel's queue.
Dispatch(p, fn) ==
  /\ Running(p)
  /\ IsrEnd(state, Append(queue, Job(fn, p)), "none")
  /\ UNCHANGED <<lockMask, executionTimeCounter, userVars>>

CallWaitForEvent(p) == Dispatch(p, "waitForEvent")
CallStart(p) == Dispatch(p, "start")

Yield(p) ==
  /\ Running(p)
  /\ executionTimeCounter' = GRANULARITY_MS
  /\ IsrEnd(state, Append(queue, Evaluate), "none")
  /\ UNCHANGED <<lockMask, userVars>>

Bye(p) ==
  /\ Running(p)
  /\ executionTimeCounter' = GRANULARITY_MS
  /\ IsrEnd([state EXCEPT ![p] = "FINISHED"],
            queue \o ByeTasks(p),
            IF Alive(state, p) THEN "none" ELSE "stop")
  /\ UNCHANGED <<lockMask, userVars>>

\* Calls answered at once: nothing is queued, the process goes on.
Answered(p) ==
  /\ Running(p)
  /\ UNCHANGED <<procVars, schedVars, queue, taskVars, oops>>

\* runLoopGetItem and runLoopGetData: the oldest item leaves the run loop.
GetItem(p) ==
  /\ Answered(p)
  /\ pending[p] > 0
  /\ pending' = [pending EXCEPT ![p] = @ - 1]
  /\ UNCHANGED <<awaiting, ipcListeners, listener>>

IpcRegister(p) ==
  /\ Answered(p)
  /\ ipcListeners' = ipcListeners \cup {p}
  /\ UNCHANGED <<pending, awaiting, listener>>

\* devAcquire and devListen on the keyboard, and devRelease.
DevListen(p) ==
  /\ Answered(p)
  /\ listener = KERNEL
  /\ listener' = p
  /\ UNCHANGED <<pending, awaiting, ipcListeners>>

DevRelease(p) ==
  /\ Answered(p)
  /\ listener = p
  /\ listener' = KERNEL
  /\ UNCHANGED <<pending, awaiting, ipcListeners>>

\* k_ipc_send without a reply: an error of deliver is only returned.  The query
\* is followed by a notice if it ends a binding to a handler that hears of it.
IpcSend(p, h, n) ==
  /\ Running(p)
  /\ h \in ipcListeners
  /\ IF Accepts(state, h, n)
     THEN /\ pending' = [pending EXCEPT ![h] = @ + n]
          /\ lockMask' = Unlocked(lockMask, h, "EVENT")
          /\ executionTimeCounter' = GRANULARITY_MS
          /\ IsrEnd(Woken(state, lockMask, h, "EVENT"),
                    queue \o DeliverTasks(state, lockMask, h, n), "none")
     ELSE /\ ~Accepts(state, h, 1)
          /\ IsrEnd(state, queue,
                    IF state[h] \in {"NONE", "NEW"} THEN "dead callback" ELSE "none")
          /\ UNCHANGED <<lockMask, executionTimeCounter, pending>>
  /\ UNCHANGED <<awaiting, ipcListeners, listener>>

\* k_ipc_send with a reply: the caller is locked before the item is delivered,
\* and an error of deliver queues the function that unlocks it.
IpcSendAwaiting(p, h, n) ==
  LET st == [state EXCEPT ![p] = "BLOCKED"]
      lm == [lockMask EXCEPT ![p] = @ \cup {"IPC"}]
      locking == queue \o LockTasks(state, p)
  IN /\ Running(p)
     /\ h \in ipcListeners
     /\ executionTimeCounter' = GRANULARITY_MS
     /\ IF Accepts(st, h, n)
        THEN /\ awaiting' = [awaiting EXCEPT ![p] = h]
             /\ pending' = [pending EXCEPT ![h] = @ + n]
             /\ lockMask' = Unlocked(lm, h, "EVENT")
             /\ IsrEnd(Woken(st, lm, h, "EVENT"),
                       locking \o DeliverTasks(st, lm, h, n), "none")
        ELSE /\ ~Accepts(st, h, 1)
             /\ lockMask' = lm
             /\ IsrEnd(st, locking \o Undelivered(p),
                       IF ~Lockable(state, p) THEN "lock"
                      ELSE IF st[h] \in {"NONE", "NEW"} THEN "dead callback" ELSE "none")
             /\ UNCHANGED <<awaiting, pending>>
     /\ UNCHANGED <<ipcListeners, listener>>

\* k_ipc_reply: the sender is unlocked within the call, after the notice (n = 1)
\* of a binding that the reply ends, if the sender hears of it.
IpcReply(p, s, n) ==
  LET told == n = 1
      lm == IF told THEN Unlocked(lockMask, s, "EVENT") ELSE lockMask
      st == IF told THEN Woken(state, lockMask, s, "EVENT") ELSE state
      notice == IF told THEN DeliverTasks(state, lockMask, s, 1) ELSE <<>>
  IN /\ Running(p)
     /\ awaiting[s] = p
     /\ told => s \in ipcListeners /\ Accepts(state, s, 1)
     /\ pending' = [pending EXCEPT ![s] = @ + n]
     /\ awaiting' = [awaiting EXCEPT ![s] = KERNEL]
     /\ lockMask' = Unlocked(lm, s, "IPC")
     /\ executionTimeCounter' = IF told \/ Wakes(st, lm, s, "IPC")
                                THEN GRANULARITY_MS ELSE executionTimeCounter
     /\ IsrEnd(Woken(st, lm, s, "IPC"),
               queue \o (notice \o WakeTasks(st, lm, s, "IPC")), "none")
     /\ UNCHANGED <<ipcListeners, listener>>

\* A send or a reply ends a binding, and the run loop has no slot left for the
\* notice: with the query, or of the sender that is replied to.
UnbindPanics(p) ==
  /\ Running(p)
  /\ \E r \in ipcListeners :
       /\ \/ Accepts(state, r, 1) /\ ~Accepts(state, r, 2)
          \/ awaiting[r] = p /\ ~Accepts(state, r, 1)
       /\ oops' = NoticeAlarm(r)
  /\ UNCHANGED <<procVars, schedVars, queue, taskVars, userVars>>

UserStep(p) ==
  \/ CallWaitForEvent(p) \/ CallStart(p) \/ Yield(p) \/ Bye(p)
  \/ GetItem(p) \/ IpcRegister(p) \/ DevListen(p) \/ DevRelease(p)
  \/ \E q \in Proc, n \in 1 .. 2 : IpcSend(p, q, n) \/ IpcSendAwaiting(p, q, n)
  \/ \E q \in Proc, n \in 0 .. 1 : IpcReply(p, q, n)
  \/ UnbindPanics(p)

-----------------------------------------------------------------------------
(* The kernel's loop: one action per function of the queue, or per part of *)
(* it that an interrupt can come between.                                  *)

DrainedButForLast == Len(queue) <= 1  \* variant: unlinked before it is run
Drained == queue = <<>>

\* k_que_start finds the queue empty: onKernelHandlingFinished, k_proc_switch.
SwitchTo(directory) ==
  /\ oops = "none" /\ kernelState = "RUNNING"
  /\ Drained /\ nextProcId >= 0
  /\ kernelState' = "READY"
  /\ state' = [state EXCEPT ![nextProcId] = "RUNNING"]
  /\ procCurrent' = nextProcId
  /\ addressSpace' = directory
  /\ executionTimeCounter' = 0
  /\ oops' = IF state[nextProcId] = "READY" /\ lockMask[nextProcId] = {}
             THEN "none" ELSE "switch"
  /\ UNCHANGED <<lockMask, lastProcId, nextProcId, queue, taskVars, userVars>>
SwitchInPlace == SwitchTo(addressSpace)  \* variant: no k_paging_switch
Switch == SwitchTo(nextProcId)

Executing(fn) ==
  /\ oops = "none" /\ kernelState = "RUNNING"
  /\ queue # <<>> /\ Head(queue).fn = fn
Subject == Head(queue).proc

\* The function at the head returns having dispatched the tasks in `more'.
Repeat(more) ==  \* variant: the head is never unlinked
  /\ queue' = queue \o more
  /\ oops' = Overflow(queue')
Return(more) ==
  /\ queue' = Tail(queue) \o more
  /\ oops' = Overflow(queue')

\* One turn of the loop in procSelect.
SchedEvaluate ==
  /\ Executing("schedEvaluate")
  /\ IF Ready(state, Slot(scanned)) \/ scanned = MAX_PROC - 1
     THEN /\ nextProcId' = IF Ready(state, Slot(scanned))
                           THEN Slot(scanned) ELSE KERNEL
          /\ scanned' = 0
          /\ Return(<<>>)
     ELSE /\ scanned' = scanned + 1
          /\ UNCHANGED <<nextProcId, queue, oops>>
  /\ UNCHANGED <<procVars, lastProcId, executionTimeCounter, loading, unbound, userVars>>

\* k_runloop_isEmpty
RunloopNearlyEmpty(p) == pending[p] <= 1  \* variant: off by one
RunloopEmpty(p) == pending[p] = 0

\* k_scr_usr_waitForEvent: the test and the lock are one critical section.
WaitForEvent ==
  /\ Executing("waitForEvent")
  /\ LET p == Subject IN
     IF RunloopEmpty(p)
     THEN /\ lockMask' = [lockMask EXCEPT ![p] = @ \cup {"EVENT"}]
          /\ state' = [state EXCEPT ![p] = "BLOCKED"]
          /\ executionTimeCounter' = IF state[p] = "BLOCKED"
                                     THEN executionTimeCounter ELSE GRANULARITY_MS
          /\ queue' = Tail(queue) \o LockTasks(state, p)
          /\ oops' = IF Lockable(state, p) THEN Overflow(queue') ELSE "lock"
     ELSE /\ Return(<<>>)
          /\ UNCHANGED <<lockMask, state, executionTimeCounter>>
  /\ UNCHANGED <<kernelState, procCurrent, addressSpace, lastProcId, nextProcId,
                 taskVars, userVars>>

\* k_scr_usr_start gives up: the file or its header, or no free slot.
StartFails ==
  /\ Executing("start") /\ loading = KERNEL
  /\ Return(<<>>)
  /\ UNCHANGED <<procVars, schedVars, taskVars, userVars>>

\* k_proc_spawn takes the first free slot, if there is one.
Spawn ==
  /\ Executing("start") /\ loading = KERNEL
  /\ \E p \in Proc :
       /\ state[p] = "NONE"
       /\ \A q \in 0 .. p - 1 : state[q] # "NONE"
       /\ state' = [state EXCEPT ![p] = "NEW"]
       /\ loading' = p
  /\ UNCHANGED <<kernelState, lockMask, procCurrent, addressSpace, schedVars,
                 queue, scanned, unbound, userVars, oops>>

\* The executable cannot be loaded, or there is no memory for the stack: the
\* process that was spawned gets k_proc_cleanup.
AbandonSpawned ==
  /\ Executing("start") /\ loading # KERNEL
  /\ state' = [state EXCEPT ![loading] = "NONE"]
  /\ lockMask' = [lockMask EXCEPT ![loading] = {}]
  /\ loading' = KERNEL
  /\ queue' = Tail(queue)
  /\ oops' = IF Alive(state, loading) THEN "cleanup" ELSE "none"
  /\ UNCHANGED <<kernelState, procCurrent, addressSpace, schedVars, scanned, unbound,
                 userVars>>

\* k_proc_hatch, and k_proc_schedule_didHatch.
Hatch ==
  /\ Executing("start") /\ loading # KERNEL
  /\ state' = [state EXCEPT ![loading] = "READY"]
  /\ IF nextProcId < 0
     THEN \E p \in Proc : Selects(state', p) /\ nextProcId' = p
     ELSE UNCHANGED nextProcId
  /\ loading' = KERNEL
  /\ Return(<<>>)
  /\ UNCHANGED <<kernelState, lockMask, procCurrent, addressSpace, lastProcId,
                 executionTimeCounter, scanned, unbound, userVars>>

DevCleanup ==
  /\ Executing("devCleanup")
  /\ listener' = IF listener = Subject THEN KERNEL ELSE listener
  /\ Return(<<>>)
  /\ UNCHANGED <<procVars, schedVars, taskVars, pending, awaiting, ipcListeners>>

\* k_ipc_procCleanup: the process that is gone leaves its listeners, every sender
\* that waits for its reply is failed and unlocked, one after the other, and then
\* each receiver it was bound to gets a notice (k_ipc_binding_cleanup).
FailReply ==
  /\ Executing("ipcCleanup")
  /\ \E s \in Proc :
       /\ awaiting[s] = Subject
       /\ awaiting' = [awaiting EXCEPT ![s] = KERNEL]
       /\ lockMask' = Unlocked(lockMask, s, "IPC")
       /\ state' = Woken(state, lockMask, s, "IPC")
       /\ queue' = queue \o WakeTasks(state, lockMask, s, "IPC")
       /\ executionTimeCounter' = IF Wakes(state, lockMask, s, "IPC")
                                  THEN GRANULARITY_MS ELSE executionTimeCounter
  /\ oops' = Overflow(queue')
  /\ ipcListeners' = ipcListeners \ {Subject}
  /\ UNCHANGED <<kernelState, procCurrent, addressSpace, lastProcId, nextProcId,
                 taskVars, pending, listener>>

\* Which processes a process is bound to is left open: any of them that has a
\* listener, as often as there are bindings.
NotifyUnbound ==
  /\ Executing("ipcCleanup")
  /\ \A s \in Proc : awaiting[s] # Subject
  /\ unbound < MAX_BINDING
  /\ \E r \in ipcListeners \ {Subject} :
       IF Accepts(state, r, 1)
       THEN /\ pending' = [pending EXCEPT ![r] = @ + 1]
            /\ lockMask' = Unlocked(lockMask, r, "EVENT")
            /\ state' = Woken(state, lockMask, r, "EVENT")
            /\ queue' = queue \o DeliverTasks(state, lockMask, r, 1)
            /\ executionTimeCounter' = GRANULARITY_MS
            /\ oops' = Overflow(queue')
       ELSE /\ oops' = NoticeAlarm(r)
            /\ UNCHANGED <<pending, lockMask, state, queue, executionTimeCounter>>
  /\ unbound' = unbound + 1
  /\ ipcListeners' = ipcListeners \ {Subject}
  /\ UNCHANGED <<kernelState, procCurrent, addressSpace, lastProcId, nextProcId,
                 scanned, loading, awaiting, listener>>

IpcCleanup ==
  /\ Executing("ipcCleanup")
  /\ \A s \in Proc : awaiting[s] # Subject
  /\ ipcListeners' = ipcListeners \ {Subject}
  /\ awaiting' = [awaiting EXCEPT ![Subject] = KERNEL]
  /\ unbound' = 0
  /\ Return(<<>>)
  /\ UNCHANGED <<procVars, schedVars, scanned, loading, pending, listener>>

RunloopCleanup ==
  /\ Executing("runloopCleanup")
  /\ pending' = [pending EXCEPT ![Subject] = 0]
  /\ Return(<<>>)
  /\ UNCHANGED <<procVars, schedVars, taskVars, awaiting, ipcListeners, listener>>

\* k_proc_cleanup of a process that has said bye: its slot is free again.
ProcCleanup ==
  /\ Executing("procCleanup")
  /\ state' = [state EXCEPT ![Subject] = "NONE"]
  /\ lockMask' = [lockMask EXCEPT ![Subject] = {}]
  /\ queue' = Tail(queue)
  /\ oops' = IF Alive(state, Subject) THEN "cleanup" ELSE "none"
  /\ UNCHANGED <<kernelState, procCurrent, addressSpace, schedVars, taskVars, userVars>>

\* k_ipc_utl_unlockIfAble, queued by a send that could not be delivered.
UnlockIfAble ==
  /\ Executing("unlockIfAble")
  /\ LET p == Subject IN
     IF awaiting[p] = KERNEL
     THEN /\ lockMask' = Unlocked(lockMask, p, "IPC")
          /\ state' = Woken(state, lockMask, p, "IPC")
          /\ executionTimeCounter' = IF Wakes(state, lockMask, p, "IPC")
                                     THEN GRANULARITY_MS ELSE executionTimeCounter
          /\ Return(WakeTasks(state, lockMask, p, "IPC"))
     ELSE /\ Return(<<>>)
          /\ UNCHANGED <<lockMask, state, executionTimeCounter>>
  /\ UNCHANGED <<kernelState, procCurrent, addressSpace, lastProcId, nextProcId,
                 taskVars, userVars>>

KernelStep ==
  \/ Switch \/ SchedEvaluate \/ WaitForEvent
  \/ StartFails \/ Spawn \/ AbandonSpawned \/ Hatch
  \/ DevCleanup \/ FailReply \/ NotifyUnbound \/ IpcCleanup \/ RunloopCleanup \/ ProcCleanup
  \/ UnlockIfAble

-----------------------------------------------------------------------------

\* k_que_start is entered once k_startup has hatched the core modules, the
\* first of which was chosen when it hatched.
Init ==
  /\ kernelState = "RUNNING"
  /\ state = [p \in Proc |-> IF p < BOOTED THEN "READY" ELSE "NONE"]
  /\ lockMask = [p \in Proc |-> {}]
  /\ procCurrent = KERNEL
  /\ addressSpace = KERNEL
  /\ lastProcId = KERNEL
  /\ nextProcId = 0
  /\ executionTimeCounter = GRANULARITY_MS
  /\ queue = <<>>
  /\ scanned = 0
  /\ loading = KERNEL
  /\ unbound = 0
  /\ pending = [p \in Proc |-> 0]
  /\ awaiting = [p \in Proc |-> KERNEL]
  /\ ipcListeners = {}
  /\ listener = KERNEL
  /\ oops = "none"

Next ==
  \/ KernelStep
  \/ Tick
  \/ KeyPress
  \/ \E p \in Proc : UserStep(p)

Spec == Init /\ [][Next]_vars

\* The kernel's loop goes on and so does the timer; a process need not call.
Fairness == WF_vars(KernelStep) /\ WF_vars(Tick)
FairSpec == Spec /\ Fairness

-----------------------------------------------------------------------------
(* What the scheduler and the process table promise.                       *)

\* Every variable has its type.
TypeOK ==
  /\ kernelState \in {"READY", "RUNNING"}
  /\ state \in [Proc -> State]
  /\ lockMask \in [Proc -> SUBSET LockType]
  /\ procCurrent \in ProcOrKernel
  /\ addressSpace \in ProcOrKernel
  /\ lastProcId \in ProcOrKernel
  /\ nextProcId \in ProcOrKernel
  /\ executionTimeCounter \in 0 .. GRANULARITY_MS
  /\ queue \in Seq(Task)
  /\ scanned \in 0 .. MAX_PROC - 1
  /\ loading \in ProcOrKernel
  /\ unbound \in 0 .. MAX_BINDING
  /\ pending \in [Proc -> 0 .. DISPATCH_QUEUE_SIZE]
  /\ awaiting \in [Proc -> ProcOrKernel]
  /\ ipcListeners \in SUBSET Proc
  /\ listener \in ProcOrKernel
  /\ oops \in Oops

\* The CPU has one owner.  A process is RUNNING exactly when the kernel has
\* handed the CPU to it; it is then the one procCurrent, the scheduler and the
\* page directory name, which is why ISR_END may save the CPU state of
\* nextProcId, and the kernel left nothing in its queue.
OneOwner ==
  /\ kernelState = "RUNNING" <=> procCurrent = KERNEL
  /\ \A p \in Proc : state[p] = "RUNNING" <=> procCurrent = p
  /\ procCurrent # KERNEL =>
       /\ nextProcId = procCurrent
       /\ addressSpace = procCurrent
       /\ queue = <<>>

\* None of the states proc.c panics on is reached: k_proc_switch is never given
\* a process that is not READY or is locked, ISR_END never saves the CPU state
\* of a process that was not running, and no process is locked, stopped, cleaned
\* up or called back in a state that forbids it.
NoProcPanic == oops \in {"none", "queue full", "emit", "notice"}

\* A live process holds a lock exactly when it is BLOCKED, and never two: each
\* lock has one reason to be dropped, so no unlock is wasted on the other.
BlockedByOneLock ==
  \A p \in Proc :
    /\ state[p] = "BLOCKED" <=> lockMask[p] # {}
    /\ lockMask[p] # LockType

\* No wakeup is lost between waitForEvent's test and its lock: a process that
\* waits for an event has an empty run loop.
NoLostWakeup ==
  \A p \in Proc : "EVENT" \in lockMask[p] => pending[p] = 0

\* No schedule is lost: when the kernel has nothing left to do and no process to
\* switch to, none is READY (k_proc_schedule_onKernelHandlingFinished returns).
IdleOnlyIfNobodyReady ==
  kernelState = "RUNNING" /\ queue = <<>> /\ nextProcId = KERNEL
    => \A p \in Proc : state[p] # "READY"

\* A process blocked on a reply has somebody left to release it: a handler that
\* is alive, or a function still in the queue that fails the reply or unlocks.
ReplyIsOwed ==
  \A p \in Proc :
    "IPC" \in lockMask[p] =>
      \/ awaiting[p] # KERNEL /\ Alive(state, awaiting[p])
      \/ \E i \in 1 .. Len(queue) :
           \/ queue[i] = Job("ipcCleanup", awaiting[p])
           \/ queue[i] = Job("unlockIfAble", p)

\* A slot is handed out clean: nothing of the process that had it before is left
\* for the next one, whatever the order of the cleanups and of interrupts.
FreeSlotIsClean ==
  \A p \in Proc :
    state[p] \in {"NONE", "NEW"} =>
      /\ lockMask[p] = {} /\ pending[p] = 0
      /\ awaiting[p] = KERNEL /\ \A q \in Proc : awaiting[q] # p
      /\ p \notin ipcListeners /\ listener # p
      /\ \A i \in 1 .. Len(queue) : queue[i].proc # p

\* The queue is bounded: by the functions of one bye, the unlocks of the senders
\* it fails, the notices of its bindings, and the events one run loop takes before
\* its process runs again.  With the source's 5 processes, 8 items and 16 bindings
\* that is 48 of the 64 slots.
QueueBound ==
  DISPATCH_QUEUE_SIZE + (IF MAX_PROC <= 3 THEN 6 ELSE MAX_PROC + 3) + 2 * MAX_BINDING
QueueBounded == Len(queue) <= QueueBound

\* A start function reads its caller's descriptor through whatever page directory
\* CR3 holds when it runs: that is the caller's.
StartReadsItsCaller ==
  queue # <<>> /\ Head(queue).fn = "start" => addressSpace = Head(queue).proc

-----------------------------------------------------------------------------
(* The inductive invariant behind the theorems of SchedulerProofs.         *)

Queued(t) == \E i \in 1 .. Len(queue) : queue[i] = t

\* While the kernel runs, a process chosen to run next that is not READY any
\* more is about to be replaced.
StaleChoiceIsReviewed ==
  kernelState = "RUNNING" /\ nextProcId # KERNEL /\ state[nextProcId] # "READY"
    => Queued(Evaluate)

\* A process that waits in the queue to wait for an event is READY, waits there
\* once, and nothing else in the queue can lock it in the meantime.
WaiterIsReady ==
  \A i \in 1 .. Len(queue) :
    queue[i].fn = "waitForEvent" =>
      /\ queue[i].proc # KERNEL /\ state[queue[i].proc] = "READY"
      /\ \A j \in 1 .. Len(queue) : queue[j].fn = "waitForEvent" => i = j

\* Cleanups are queued only for a process that is FINISHED, and once: the
\* devices and the IPC are cleaned up before the slot is freed.
StoppedIsFinished ==
  \A i \in 1 .. Len(queue) :
    queue[i].fn = "procCleanup" =>
      LET p == queue[i].proc
          CleanedBefore(fn) == \E j \in 1 .. i - 1 : queue[j] = Job(fn, p)
      IN /\ p # KERNEL /\ state[p] = "FINISHED"
         /\ \A j \in 1 .. Len(queue) : queue[j].fn = "procCleanup" => i = j
         /\ listener = p => CleanedBefore("devCleanup")
         /\ p \in ipcListeners => CleanedBefore("ipcCleanup")

\* Who can be called back was hatched, and who is being loaded was not.
CalledBackIsHatched ==
  /\ \A p \in Proc : p = listener \/ p \in ipcListeners => state[p] \notin {"NONE", "NEW"}
  /\ loading # KERNEL => state[loading] = "NEW"

IInv ==
  /\ TypeOK /\ OneOwner /\ BlockedByOneLock /\ NoProcPanic
  /\ StaleChoiceIsReviewed /\ WaiterIsReady /\ StoppedIsFinished /\ CalledBackIsHatched

-----------------------------------------------------------------------------
(* What the queue owes to each process: the invariant behind the theorems  *)
(* of SchedulerPromises, inductive together with IInv.                     *)

\* Whom each function of the queue is for.  Only the running process queues
\* itself, and it is alive; a cleanup is for a process that is FINISHED, and the
\* function that frees its slot comes behind it.
SubjectsAreThere ==
  \A i \in 1 .. Len(queue) :
    LET fn == queue[i].fn
        p == queue[i].proc
    IN /\ fn = "schedEvaluate" => p = KERNEL
       /\ fn \in {"waitForEvent", "start", "unlockIfAble"} => p # KERNEL /\ Alive(state, p)
       /\ fn = "start" => p = addressSpace
       /\ fn \in {"devCleanup", "ipcCleanup", "runloopCleanup"} =>
            /\ p # KERNEL /\ state[p] = "FINISHED"
            /\ \E j \in i + 1 .. Len(queue) : queue[j] = Job("procCleanup", p)

\* A process that awaits a reply is locked until it comes, by a handler that is
\* alive or about to be cleaned up after; one that is locked and awaits nothing
\* is about to be unlocked.
AwaitingIsOwed ==
  \A p \in Proc :
    /\ awaiting[p] # KERNEL =>
         /\ "IPC" \in lockMask[p]
         /\ Alive(state, awaiting[p]) \/ Queued(Job("ipcCleanup", awaiting[p]))
    /\ "IPC" \in lockMask[p] /\ awaiting[p] = KERNEL => Queued(Job("unlockIfAble", p))

\* Items are left only in the run loop of a process that is alive, or about to
\* have it emptied.
PendingIsCleaned ==
  \A p \in Proc :
    pending[p] # 0 => Alive(state, p) \/ Queued(Job("runloopCleanup", p))

\* A scan that has passed a process which is READY by now is followed by another.
ScanIsRepeated ==
  /\ scanned # 0 => queue # <<>> /\ queue[1] = Evaluate
  /\ \A j \in 0 .. scanned - 1 :
       Ready(state, Slot(j)) => \E i \in 2 .. Len(queue) : queue[i] = Evaluate

\* While no process is chosen, one that is READY is about to be found.
IdleIsReviewed ==
  kernelState = "RUNNING" /\ nextProcId = KERNEL =>
    Queued(Evaluate) \/ \A p \in Proc : state[p] # "READY"

OwedInv ==
  /\ NoLostWakeup /\ SubjectsAreThere /\ AwaitingIsOwed /\ PendingIsCleaned
  /\ ScanIsRepeated /\ IdleIsReviewed

-----------------------------------------------------------------------------
(* How much longer the queue can grow before a process runs: the invariant *)
(* behind QueueBounded.  Each part only falls while the kernel goes on.    *)

\* The timer queues a review once until the time counter starts anew.
TicksToCome == IF executionTimeCounter < GRANULARITY_MS THEN 1 ELSE 0

\* A key queues one for each item the run loop of the listener still takes, and
\* another if it wakes the listener, which waits or is about to.
KeysToCome ==
  IF listener = KERNEL THEN 0
  ELSE DISPATCH_QUEUE_SIZE - pending[listener]
       + (IF \/ "EVENT" \in lockMask[listener]
             \/ Queued(Job("waitForEvent", listener)) THEN 1 ELSE 0)
Expected == Len(queue) + TicksToCome + KeysToCome

\* The senders a cleanup is going to fail, each of which it may wake.
ToFail == {s \in Proc : awaiting[s] # KERNEL /\ Queued(Job("ipcCleanup", awaiting[s]))}

\* The notices of a cleanup, each of which has the schedule reviewed and may wake
\* the process it is for.
NoticesToCome ==
  IF \E i \in 1 .. Len(queue) : queue[i].fn = "ipcCleanup"
  THEN 2 * (MAX_BINDING - unbound) ELSE 0

\* No sender is failed and no notice given before the devices are cleaned up.
DevicesAreToCome == \E i \in 1 .. Len(queue) : queue[i].fn = "devCleanup"
BurstInv ==
  /\ \A i, j \in 1 .. Len(queue) :
       /\ queue[i].fn = "devCleanup" /\ queue[j].fn \in {"ipcCleanup", "runloopCleanup"} => i < j
       /\ queue[i].fn = "ipcCleanup" /\ queue[j].fn = "ipcCleanup" => i = j
  /\ DevicesAreToCome =>
       /\ Expected <= DISPATCH_QUEUE_SIZE + 6
       /\ Expected + Cardinality(ToFail) <= DISPATCH_QUEUE_SIZE + MAX_PROC + 4
  /\ ~DevicesAreToCome => Expected + Cardinality(ToFail) + NoticesToCome <= QueueBound

-----------------------------------------------------------------------------
(* What a step may not do, and what must happen in the end.                *)

\* A process that has said bye stays FINISHED until its slot is freed, and a
\* BLOCKED one leaves that state only for READY and with its last lock.
Lifecycle ==
  [][\A p \in Proc :
       /\ state[p] = "FINISHED" => state'[p] \in {"FINISHED", "NONE"}
       /\ state[p] = "BLOCKED" /\ state'[p] # "BLOCKED" =>
            state'[p] = "READY" /\ lockMask'[p] = {}
       /\ state'[p] = "RUNNING" /\ state[p] # "RUNNING" => state[p] = "READY"]_vars

\* The kernel always gets through its queue, however the interrupts come: no
\* burst of events keeps it from handing the CPU back.
QueueDrains == queue # <<>> ~> queue = <<>> \/ oops # "none"

\* A process that has said bye gives its slot back.
SlotIsFreed ==
  \A p \in Proc : state[p] = "FINISHED" ~> state[p] = "NONE" \/ oops # "none"

\* schedule.c, "Simple round robin algorithm": every READY process gets the CPU,
\* or is BLOCKED by the waitForEvent it made when it last had it.
RoundRobin ==
  \A p \in Proc : state[p] = "READY" ~> state[p] # "READY" \/ oops # "none"

\* The kernel gives the CPU back to a process whose time has not run out and
\* that has changed no process's state: its time starts anew all the same.
TimeReset ==
  /\ kernelState = "RUNNING" /\ kernelState' = "READY"
  /\ executionTimeCounter < GRANULARITY_MS

\* ... as long as no process has its time reset for ever.
RoundRobinUnlessReset == <>[][~TimeReset]_vars => RoundRobin

\* The scheduler implements the process table its users rely on.
Table == INSTANCE ProcessTable WITH owner <- procCurrent
ImplementsTable == Table!Spec

=============================================================================
