---------------------------- MODULE SchedulerProofs ----------------------------
(***************************************************************************)
(* Type correctness and safety of Scheduler, for every number of processes *)
(* and of slots.  The inductive invariant is IInv: that the CPU has one    *)
(* owner and that proc.c does not panic cannot be told from the process    *)
(* table alone, it depends on what the kernel's queue still holds, and in  *)
(* what order.                                                             *)
(***************************************************************************)
EXTENDS Scheduler, SequenceTheorems, TLAPS

USE SchedulerAssumption DEF KERNEL, Proc, ProcOrKernel

-----------------------------------------------------------------------------
(* The operators the actions are built from.                               *)

LEMMA SlotType == ASSUME NEW i \in Nat, lastProcId \in ProcOrKernel
                  PROVE Slot(i) \in Proc
BY DEF Slot

LEMMA JobType == ASSUME NEW fn \in Function, NEW p \in ProcOrKernel
                 PROVE Job(fn, p) \in Task
BY DEF Job, Task

LEMMA EvaluateType == Evaluate \in Task
BY JobType DEF Evaluate, Function

LEMMA ReviewsType ==
  ASSUME NEW n \in Nat
  PROVE /\ Reviews(n) \in Seq(Task) /\ Len(Reviews(n)) = n
        /\ \A i \in 1 .. n : Reviews(n)[i] = Evaluate
<1>1. Reviews(n) \in [1 .. n -> Task] /\ \A i \in 1 .. n : Reviews(n)[i] = Evaluate
  BY EvaluateType DEF Reviews
<1> QED BY <1>1, LenProperties, SeqDef

LEMMA TasksType ==
  ASSUME NEW p \in ProcOrKernel, NEW st, NEW lm, NEW type
  PROVE /\ LockTasks(st, p) \in Seq(Task)
        /\ WakeTasks(st, lm, p, type) \in Seq(Task)
        /\ ByeTasks(p) \in Seq(Task)
        /\ Undelivered(p) \in Seq(Task)
<1>1. Evaluate \in Task
  BY EvaluateType
<1>2. \A fn \in Function : Job(fn, p) \in Task
  BY JobType
<1>5. LockTasks(st, p) \in Seq(Task)
  BY <1>1 DEF LockTasks
<1>6. WakeTasks(st, lm, p, type) \in Seq(Task)
  BY <1>1 DEF WakeTasks
<1>9. ByeTasks(p) \in Seq(Task)
  BY <1>1, <1>2 DEF ByeTasks, Function
<1>10. Undelivered(p) \in Seq(Task)
  BY <1>2 DEF Undelivered, Function
<1> QED BY <1>5, <1>6, <1>9, <1>10

LEMMA DeliverType ==
  ASSUME NEW p \in ProcOrKernel, NEW st, NEW lm, NEW n \in Nat
  PROVE DeliverTasks(st, lm, p, n) \in Seq(Task)
<1>1. WakeTasks(st, lm, p, "EVENT") \in Seq(Task) /\ Reviews(n) \in Seq(Task)
  BY TasksType, ReviewsType
<1> QED BY <1>1, ConcatProperties DEF DeliverTasks

LEMMA WokenType ==
  ASSUME NEW st \in [Proc -> State], NEW lm \in [Proc -> SUBSET LockType],
         NEW p, NEW type
  PROVE /\ Woken(st, lm, p, type) \in [Proc -> State]
        /\ Unlocked(lm, p, type) \in [Proc -> SUBSET LockType]
BY DEF Woken, Unlocked, State

LEMMA OverflowType == ASSUME NEW q PROVE Overflow(q) \in Oops
BY DEF Overflow, Oops

\* What ISR_END writes has its type.
LEMMA IsrEndType ==
  ASSUME TypeOK, NEW st \in [Proc -> State], NEW q \in Seq(Task),
         NEW alarm \in Oops, IsrEnd(st, q, alarm)
  PROVE /\ kernelState' \in {"READY", "RUNNING"}
        /\ state' \in [Proc -> State]
        /\ procCurrent' \in ProcOrKernel
        /\ addressSpace' \in ProcOrKernel
        /\ lastProcId' \in ProcOrKernel
        /\ nextProcId' \in ProcOrKernel
        /\ queue' \in Seq(Task)
        /\ scanned' \in 0 .. MAX_PROC - 1
        /\ loading' \in ProcOrKernel
        /\ unbound' \in 0 .. MAX_BINDING
        /\ oops' \in Oops
<1>1. state' \in [Proc -> State]
  BY DEF IsrEnd, State
<1>2. oops' \in Oops
  <2>1. \/ oops' = alarm
        \/ oops' = "to kernel"
        \/ oops' = Overflow(q)
    BY DEF IsrEnd
  <2> QED BY <2>1, OverflowType DEF Oops
<1> QED BY <1>1, <1>2 DEF IsrEnd, TypeOK, taskVars

-----------------------------------------------------------------------------
(* The actions.                                                            *)

USE DEF schedVars, procVars, taskVars, userVars

LEMMA InitType == Init => TypeOK
<1> SUFFICES ASSUME Init PROVE TypeOK
  OBVIOUS
<1>1. <<>> \in Seq(Task)
  OBVIOUS
<1>2. ipcListeners \in SUBSET Proc
  BY DEF Init
<1> QED BY <1>1, <1>2 DEF Init, TypeOK, State, LockType, Oops

\* What an action that ends with ISR_END has to show of the rest.
LEMMA IsrEndTypeOK ==
  ASSUME TypeOK, NEW st \in [Proc -> State], NEW q \in Seq(Task),
         NEW alarm \in Oops, IsrEnd(st, q, alarm),
         lockMask' \in [Proc -> SUBSET LockType],
         executionTimeCounter' \in 0 .. GRANULARITY_MS,
         pending' \in [Proc -> 0 .. DISPATCH_QUEUE_SIZE],
         awaiting' \in [Proc -> ProcOrKernel],
         ipcListeners' \in SUBSET Proc,
         listener' \in ProcOrKernel
  PROVE TypeOK'
BY IsrEndType DEF TypeOK

LEMMA TickType == TypeOK /\ Tick => TypeOK'
<1> SUFFICES ASSUME TypeOK, Tick PROVE TypeOK'
  OBVIOUS
<1> DEFINE q == IF executionTimeCounter + 1 < GRANULARITY_MS
                THEN queue ELSE Append(queue, Evaluate)
<1>1. q \in Seq(Task) /\ "none" \in Oops /\ state \in [Proc -> State]
  BY EvaluateType, AppendProperties DEF TypeOK, Oops
<1>2. IsrEnd(state, q, "none")
  BY DEF Tick
<1>3. executionTimeCounter' \in 0 .. GRANULARITY_MS
  BY DEF TypeOK, Tick
<1> HIDE DEF q
<1> QED BY <1>1, <1>2, <1>3, IsrEndTypeOK DEF TypeOK, Tick

LEMMA KeyAlarmType == TypeOK => KeyAlarm \in Oops
BY DEF KeyAlarm, Oops

LEMMA KeyPressType == TypeOK /\ KeyPress => TypeOK'
<1> SUFFICES ASSUME TypeOK, KeyPress PROVE TypeOK'
  OBVIOUS
<1>1. CASE KeyAlarm = "none"
  <2>1. listener \in Proc /\ Accepts(state, listener, 1)
    BY <1>1 DEF KeyAlarm, TypeOK
  <2>2. pending' \in [Proc -> 0 .. DISPATCH_QUEUE_SIZE]
    <3>1. pending[listener] + 1 \in 0 .. DISPATCH_QUEUE_SIZE
      BY <2>1 DEF TypeOK, Accepts
    <3> QED BY <1>1, <2>1, <3>1 DEF KeyPress, TypeOK
  <2> DEFINE q == queue \o DeliverTasks(state, lockMask, listener, 1)
             st == Woken(state, lockMask, listener, "EVENT")
  <2>3. q \in Seq(Task)
    BY <2>1, DeliverType, ConcatProperties DEF TypeOK
  <2>4. /\ st \in [Proc -> State]
        /\ Unlocked(lockMask, listener, "EVENT") \in [Proc -> SUBSET LockType]
    <3>1. state \in [Proc -> State] /\ lockMask \in [Proc -> SUBSET LockType]
      BY DEF TypeOK
    <3> QED BY <3>1, WokenType
  <2>5. IsrEnd(st, q, "none") /\ "none" \in Oops
    BY <1>1 DEF KeyPress, Oops
  <2>6. /\ executionTimeCounter' \in 0 .. GRANULARITY_MS
        /\ lockMask' = Unlocked(lockMask, listener, "EVENT")
    BY <1>1 DEF KeyPress
  <2> HIDE DEF q, st
  <2> QED BY <1>1, <2>2, <2>3, <2>4, <2>5, <2>6, IsrEndTypeOK DEF TypeOK, KeyPress
<1>2. CASE KeyAlarm # "none"
  BY <1>2, KeyAlarmType DEF TypeOK, KeyPress
<1> QED BY <1>1, <1>2

LEMMA DispatchType ==
  ASSUME TypeOK, NEW p \in Proc, NEW fn \in Function, Dispatch(p, fn)
  PROVE TypeOK'
<1>1. Append(queue, Job(fn, p)) \in Seq(Task)
  BY JobType, AppendProperties DEF TypeOK
<1>2. IsrEnd(state, Append(queue, Job(fn, p)), "none") /\ "none" \in Oops
  BY DEF Dispatch, Oops
<1> QED BY <1>1, <1>2, IsrEndTypeOK DEF TypeOK, Dispatch

LEMMA YieldType == ASSUME TypeOK, NEW p \in Proc, Yield(p) PROVE TypeOK'
<1>1. Append(queue, Evaluate) \in Seq(Task)
  BY EvaluateType, AppendProperties DEF TypeOK
<1>2. IsrEnd(state, Append(queue, Evaluate), "none") /\ "none" \in Oops
  BY DEF Yield, Oops
<1>3. executionTimeCounter' \in 0 .. GRANULARITY_MS
  BY DEF Yield
<1> QED BY <1>1, <1>2, <1>3, IsrEndTypeOK DEF TypeOK, Yield

LEMMA ByeType == ASSUME TypeOK, NEW p \in Proc, Bye(p) PROVE TypeOK'
<1> DEFINE q == queue \o ByeTasks(p)
           st == [state EXCEPT ![p] = "FINISHED"]
           alarm == IF Alive(state, p) THEN "none" ELSE "stop"
<1>1. q \in Seq(Task)
  BY TasksType, ConcatProperties DEF TypeOK
<1>2. st \in [Proc -> State] /\ alarm \in Oops
  BY DEF TypeOK, State, Oops
<1>3. IsrEnd(st, q, alarm)
  BY DEF Bye
<1>4. executionTimeCounter' \in 0 .. GRANULARITY_MS
  BY DEF Bye
<1> HIDE DEF q, st, alarm
<1> QED BY <1>1, <1>2, <1>3, <1>4, IsrEndTypeOK DEF TypeOK, Bye

\* The calls answered at once change the run loop, the listeners or the holder.
LEMMA AnsweredType ==
  ASSUME TypeOK, NEW p \in Proc,
         GetItem(p) \/ IpcRegister(p) \/ DevListen(p) \/ DevRelease(p)
  PROVE TypeOK'
<1>1. CASE GetItem(p)
  <2>1. pending[p] - 1 \in 0 .. DISPATCH_QUEUE_SIZE
    BY <1>1 DEF GetItem, TypeOK
  <2> QED BY <1>1, <2>1 DEF TypeOK, GetItem, Answered
<1>2. CASE IpcRegister(p)
  BY <1>2 DEF TypeOK, IpcRegister, Answered
<1>3. CASE DevListen(p) \/ DevRelease(p)
  BY <1>3 DEF TypeOK, DevListen, DevRelease, Answered
<1> QED BY <1>1, <1>2, <1>3

LEMMA IpcSendType ==
  ASSUME TypeOK, NEW p \in Proc, NEW h \in Proc, NEW n \in Nat, IpcSend(p, h, n)
  PROVE TypeOK'
<1>0. /\ state \in [Proc -> State] /\ lockMask \in [Proc -> SUBSET LockType]
      /\ "none" \in Oops /\ "dead callback" \in Oops
  BY DEF TypeOK, Oops
<1>1. CASE Accepts(state, h, n)
  <2> DEFINE q == queue \o DeliverTasks(state, lockMask, h, n)
             st == Woken(state, lockMask, h, "EVENT")
  <2>1. q \in Seq(Task)
    BY DeliverType, ConcatProperties DEF TypeOK
  <2>2. /\ st \in [Proc -> State]
        /\ Unlocked(lockMask, h, "EVENT") \in [Proc -> SUBSET LockType]
    BY <1>0, WokenType
  <2>3. pending[h] + n \in 0 .. DISPATCH_QUEUE_SIZE
    BY <1>1 DEF TypeOK, Accepts
  <2>4. /\ lockMask' = Unlocked(lockMask, h, "EVENT")
        /\ pending' = [pending EXCEPT ![h] = @ + n]
        /\ executionTimeCounter' = GRANULARITY_MS
        /\ IsrEnd(st, q, "none")
    BY <1>1 DEF IpcSend
  <2> HIDE DEF q, st
  <2>5. pending' \in [Proc -> 0 .. DISPATCH_QUEUE_SIZE]
    BY <2>3, <2>4 DEF TypeOK
  <2>6. /\ executionTimeCounter' \in 0 .. GRANULARITY_MS
        /\ lockMask' \in [Proc -> SUBSET LockType]
    BY <2>2, <2>4
  <2>7. /\ awaiting' \in [Proc -> ProcOrKernel]
        /\ ipcListeners' \in SUBSET Proc
        /\ listener' \in ProcOrKernel
    BY DEF TypeOK, IpcSend
  <2> QED BY <1>0, <2>1, <2>2, <2>4, <2>5, <2>6, <2>7, IsrEndTypeOK
<1>2. CASE ~Accepts(state, h, n)
  <2> DEFINE alarm == IF state[h] \in {"NONE", "NEW"} THEN "dead callback" ELSE "none"
  <2>1. IsrEnd(state, queue, alarm) /\ alarm \in Oops
    BY <1>0, <1>2 DEF IpcSend
  <2> HIDE DEF alarm
  <2> QED BY <1>0, <1>2, <2>1, IsrEndTypeOK DEF TypeOK, IpcSend
<1> QED BY <1>1, <1>2

LEMMA IpcSendAwaitingType ==
  ASSUME TypeOK, NEW p \in Proc, NEW h \in Proc, NEW n \in Nat, IpcSendAwaiting(p, h, n)
  PROVE TypeOK'
<1> DEFINE st == [state EXCEPT ![p] = "BLOCKED"]
           lm == [lockMask EXCEPT ![p] = @ \cup {"IPC"}]
           locking == queue \o LockTasks(state, p)
<1>1. /\ st \in [Proc -> State] /\ lm \in [Proc -> SUBSET LockType]
      /\ locking \in Seq(Task)
  <2>1. st \in [Proc -> State] /\ lm \in [Proc -> SUBSET LockType]
    BY DEF TypeOK, State, LockType
  <2>2. locking \in Seq(Task)
    BY TasksType, ConcatProperties DEF TypeOK
  <2> QED BY <2>1, <2>2
<1>2. /\ executionTimeCounter' \in 0 .. GRANULARITY_MS
      /\ ipcListeners' \in SUBSET Proc
      /\ listener' \in ProcOrKernel
  <2>1. executionTimeCounter' = GRANULARITY_MS
    BY DEF IpcSendAwaiting
  <2>2. UNCHANGED <<ipcListeners, listener>>
    BY DEF IpcSendAwaiting
  <2> QED BY <2>1, <2>2 DEF TypeOK
<1>3. CASE Accepts(st, h, n)
  <2> DEFINE q == locking \o DeliverTasks(st, lm, h, n)
             woken == Woken(st, lm, h, "EVENT")
  <2>1. IsrEnd(woken, q, "none")
    BY <1>3 DEF IpcSendAwaiting
  <2>2. lockMask' = Unlocked(lm, h, "EVENT") /\ pending' = [pending EXCEPT ![h] = @ + n]
    BY <1>3 DEF IpcSendAwaiting
  <2>3. awaiting' \in [Proc -> ProcOrKernel]
    BY <1>3 DEF IpcSendAwaiting, TypeOK
  <2>4. pending[h] + n \in 0 .. DISPATCH_QUEUE_SIZE
    BY <1>3 DEF Accepts, TypeOK
  <2> HIDE DEF st, lm, locking
  <2>5. pending' \in [Proc -> 0 .. DISPATCH_QUEUE_SIZE]
    BY <2>2, <2>4 DEF TypeOK
  <2>6. q \in Seq(Task)
    BY <1>1, DeliverType, ConcatProperties
  <2>7. woken \in [Proc -> State] /\ lockMask' \in [Proc -> SUBSET LockType]
    BY <1>1, <2>2, WokenType
  <2> HIDE DEF q, woken
  <2> QED BY <1>2, <2>1, <2>3, <2>5, <2>6, <2>7, IsrEndTypeOK DEF Oops
<1>4. CASE ~Accepts(st, h, n)
  <2> DEFINE q == locking \o Undelivered(p)
             alarm == IF ~Lockable(state, p) THEN "lock"
                      ELSE IF st[h] \in {"NONE", "NEW"} THEN "dead callback" ELSE "none"
  <2>1. IsrEnd(st, q, alarm)
    BY <1>4 DEF IpcSendAwaiting
  <2>2. lockMask' = lm /\ UNCHANGED <<awaiting, pending>>
    BY <1>4 DEF IpcSendAwaiting
  <2>3. alarm \in Oops
    BY DEF Oops
  <2> HIDE DEF st, lm, locking, alarm
  <2>4. q \in Seq(Task)
    BY <1>1, TasksType, ConcatProperties
  <2> HIDE DEF q
  <2> QED BY <1>1, <1>2, <2>1, <2>2, <2>3, <2>4, IsrEndTypeOK DEF TypeOK
<1> QED BY <1>3, <1>4

\* What the notice of a reply that ends a binding leaves for the unlock.
LEMMA ReplyNoticeType ==
  ASSUME state \in [Proc -> State], lockMask \in [Proc -> SUBSET LockType],
         NEW s \in Proc, NEW told
  PROVE /\ (IF told THEN Unlocked(lockMask, s, "EVENT") ELSE lockMask) \in [Proc -> SUBSET LockType]
        /\ (IF told THEN Woken(state, lockMask, s, "EVENT") ELSE state) \in [Proc -> State]
        /\ (IF told THEN DeliverTasks(state, lockMask, s, 1) ELSE <<>>) \in Seq(Task)
<1>1. DeliverTasks(state, lockMask, s, 1) \in Seq(Task) /\ <<>> \in Seq(Task)
  BY DeliverType
<1> QED BY <1>1, WokenType

LEMMA IpcReplyType ==
  ASSUME TypeOK, NEW p \in Proc, NEW s \in Proc, NEW n \in 0 .. 1, IpcReply(p, s, n)
  PROVE TypeOK'
<1> DEFINE told == n = 1
           lm == IF told THEN Unlocked(lockMask, s, "EVENT") ELSE lockMask
           st0 == IF told THEN Woken(state, lockMask, s, "EVENT") ELSE state
           notice == IF told THEN DeliverTasks(state, lockMask, s, 1) ELSE <<>>
           st == Woken(st0, lm, s, "IPC")
           tasks == notice \o WakeTasks(st0, lm, s, "IPC")
           q == queue \o tasks
<1>1. /\ IsrEnd(st, q, "none") /\ lockMask' = Unlocked(lm, s, "IPC")
      /\ executionTimeCounter' \in {executionTimeCounter, GRANULARITY_MS}
      /\ awaiting' = [awaiting EXCEPT ![s] = KERNEL]
      /\ pending' = [pending EXCEPT ![s] = @ + n]
      /\ told => Accepts(state, s, 1)
      /\ UNCHANGED <<ipcListeners, listener>>
  BY DEF IpcReply
<1>2. /\ lm \in [Proc -> SUBSET LockType] /\ st0 \in [Proc -> State]
      /\ notice \in Seq(Task)
  BY ReplyNoticeType DEF TypeOK
<1>3. pending' \in [Proc -> 0 .. DISPATCH_QUEUE_SIZE]
  <2>1. pending[s] + n \in 0 .. DISPATCH_QUEUE_SIZE
    BY <1>1 DEF TypeOK, Accepts
  <2> QED BY <1>1, <2>1 DEF TypeOK
<1> HIDE DEF told, lm, st0, notice
<1>4. st \in [Proc -> State] /\ lockMask' \in [Proc -> SUBSET LockType]
  BY <1>1, <1>2, WokenType
<1>5. q \in Seq(Task)
  <2>1. WakeTasks(st0, lm, s, "IPC") \in Seq(Task)
    BY TasksType
  <2>2. tasks \in Seq(Task)
    BY <1>2, <2>1, ConcatProperties
  <2> HIDE DEF tasks
  <2> QED BY <2>2, ConcatProperties DEF TypeOK
<1>6. awaiting' \in [Proc -> ProcOrKernel] /\ executionTimeCounter' \in 0 .. GRANULARITY_MS
  BY <1>1 DEF TypeOK
<1> HIDE DEF st, q
<1> QED BY <1>1, <1>3, <1>4, <1>5, <1>6, IsrEndTypeOK DEF TypeOK, Oops

LEMMA NoticeAlarmType == ASSUME NEW r PROVE NoticeAlarm(r) \in Oops
BY DEF NoticeAlarm, Oops

LEMMA UnbindPanicsType == ASSUME TypeOK, NEW p \in Proc, UnbindPanics(p) PROVE TypeOK'
<1>1. oops' \in Oops
  BY NoticeAlarmType DEF UnbindPanics
<1> QED BY <1>1 DEF UnbindPanics, TypeOK

LEMMA UserStepType == ASSUME TypeOK, NEW p \in Proc, UserStep(p) PROVE TypeOK'
<1>1. CASE CallWaitForEvent(p) \/ CallStart(p)
  BY <1>1, DispatchType DEF CallWaitForEvent, CallStart, Function
<1>2. CASE Yield(p) \/ Bye(p)
  BY <1>2, YieldType, ByeType
<1>3. CASE GetItem(p) \/ IpcRegister(p) \/ DevListen(p) \/ DevRelease(p)
  BY <1>3, AnsweredType
<1>4. CASE \E q \in Proc, n \in 1 .. 2 : IpcSend(p, q, n) \/ IpcSendAwaiting(p, q, n)
  BY <1>4, IpcSendType, IpcSendAwaitingType
<1>5. CASE (\E q \in Proc, n \in 0 .. 1 : IpcReply(p, q, n)) \/ UnbindPanics(p)
  BY <1>5, IpcReplyType, UnbindPanicsType
<1> QED BY <1>1, <1>2, <1>3, <1>4, <1>5 DEF UserStep

\* What the function at the head of the queue may append, and how it returns.
LEMMA HeadType ==
  ASSUME TypeOK, queue # <<>>
  PROVE /\ Subject \in ProcOrKernel
        /\ Head(queue) \in Task
        /\ Tail(queue) \in Seq(Task)
<1>1. Head(queue) \in Task /\ Tail(queue) \in Seq(Task)
  BY HeadTailProperties DEF TypeOK
<1> QED BY <1>1 DEF Subject, Task

LEMMA ReturnType ==
  ASSUME TypeOK, queue # <<>>, NEW more \in Seq(Task), Return(more)
  PROVE queue' \in Seq(Task) /\ oops' \in Oops
BY HeadType, ConcatProperties, OverflowType DEF Return

LEMMA SwitchType == TypeOK /\ Switch => TypeOK'
<1> SUFFICES ASSUME TypeOK, Switch PROVE TypeOK'
  OBVIOUS
<1>1. nextProcId \in Proc /\ UNCHANGED <<lockMask, lastProcId, nextProcId, queue, taskVars, userVars>>
  BY DEF Switch, SwitchTo, TypeOK
<1>2. /\ kernelState' \in {"READY", "RUNNING"}
      /\ state' \in [Proc -> State]
      /\ procCurrent' \in ProcOrKernel
      /\ addressSpace' \in ProcOrKernel
      /\ executionTimeCounter' \in 0 .. GRANULARITY_MS
  BY <1>1 DEF Switch, SwitchTo, TypeOK, State
<1>3. oops' \in Oops
  BY DEF Switch, SwitchTo, Oops
<1> QED BY <1>1, <1>2, <1>3 DEF TypeOK

LEMMA SchedEvaluateType == TypeOK /\ SchedEvaluate => TypeOK'
<1> SUFFICES ASSUME TypeOK, SchedEvaluate PROVE TypeOK'
  OBVIOUS
<1>0. scanned \in 0 .. MAX_PROC - 1 /\ lastProcId \in ProcOrKernel
  BY DEF TypeOK
<1>1. Slot(scanned) \in Proc /\ scanned \in 0 .. MAX_PROC - 1
  BY <1>0, SlotType
<1>2. UNCHANGED <<procVars, lastProcId, executionTimeCounter, loading, unbound, userVars>>
  BY DEF SchedEvaluate
<1>3. queue # <<>> /\ <<>> \in Seq(Task)
  BY DEF SchedEvaluate, Executing
<1>4. CASE Ready(state, Slot(scanned)) \/ scanned = MAX_PROC - 1
  <2>1. Return(<<>>) /\ scanned' = 0
    BY <1>4 DEF SchedEvaluate
  <2>2. nextProcId' \in ProcOrKernel
    BY <1>1, <1>4 DEF SchedEvaluate
  <2>3. queue' \in Seq(Task) /\ oops' \in Oops
    BY <1>3, <2>1, ReturnType
  <2>4. scanned' \in 0 .. MAX_PROC - 1
    BY <2>1
  <2> QED BY <1>2, <2>2, <2>3, <2>4 DEF TypeOK
<1>5. CASE ~(Ready(state, Slot(scanned)) \/ scanned = MAX_PROC - 1)
  <2>1. scanned' = scanned + 1 /\ UNCHANGED <<nextProcId, queue, oops>>
    BY <1>5 DEF SchedEvaluate
  <2> QED BY <1>1, <1>2, <1>5, <2>1 DEF TypeOK
<1> QED BY <1>4, <1>5

LEMMA WaitForEventType == TypeOK /\ WaitForEvent => TypeOK'
<1> SUFFICES ASSUME TypeOK, WaitForEvent PROVE TypeOK'
  OBVIOUS
<1> DEFINE p == Subject
<1>1. queue # <<>> /\ p \in ProcOrKernel /\ <<>> \in Seq(Task)
  BY HeadType DEF WaitForEvent, Executing
<1>2. UNCHANGED <<kernelState, procCurrent, addressSpace, lastProcId, nextProcId, taskVars, userVars>>
  BY DEF WaitForEvent
<1>3. CASE RunloopEmpty(p)
  <2>1. /\ lockMask' = [lockMask EXCEPT ![p] = @ \cup {"EVENT"}]
        /\ state' = [state EXCEPT ![p] = "BLOCKED"]
        /\ queue' = Tail(queue) \o LockTasks(state, p)
        /\ executionTimeCounter' \in {executionTimeCounter, GRANULARITY_MS}
        /\ oops' = IF Lockable(state, p) THEN Overflow(queue') ELSE "lock"
    BY <1>3 DEF WaitForEvent
  <2> HIDE DEF p
  <2>2. lockMask' \in [Proc -> SUBSET LockType] /\ state' \in [Proc -> State]
    BY <2>1 DEF TypeOK, LockType, State
  <2>3. queue' \in Seq(Task)
    BY <1>1, <2>1, HeadType, TasksType, ConcatProperties
  <2>4. oops' \in Oops
    BY <2>1, OverflowType DEF Oops
  <2>5. executionTimeCounter' \in 0 .. GRANULARITY_MS
    <3>1. executionTimeCounter \in 0 .. GRANULARITY_MS
      BY DEF TypeOK
    <3> QED BY <2>1, <3>1
  <2> QED BY <1>2, <2>2, <2>3, <2>4, <2>5 DEF TypeOK
<1>4. CASE ~RunloopEmpty(p)
  <2>1. Return(<<>>) /\ UNCHANGED <<lockMask, state, executionTimeCounter>>
    BY <1>4 DEF WaitForEvent
  <2> QED BY <1>1, <1>2, <2>1, ReturnType DEF TypeOK
<1> QED BY <1>3, <1>4

LEMMA StartType ==
  ASSUME TypeOK, StartFails \/ Spawn \/ AbandonSpawned \/ Hatch
  PROVE TypeOK'
<1>0. <<>> \in Seq(Task)
  OBVIOUS
<1>1. CASE StartFails
  BY <1>0, <1>1, ReturnType DEF StartFails, Executing, TypeOK
<1>2. CASE Spawn
  <2>1. PICK p \in Proc : state' = [state EXCEPT ![p] = "NEW"] /\ loading' = p
    BY <1>2 DEF Spawn
  <2>2. state' \in [Proc -> State]
    BY <2>1 DEF TypeOK, State
  <2> QED BY <1>2, <2>1, <2>2 DEF Spawn, TypeOK
<1>3. CASE AbandonSpawned
  <2>1. state' \in [Proc -> State] /\ lockMask' \in [Proc -> SUBSET LockType]
    BY <1>3 DEF AbandonSpawned, TypeOK, State
  <2>2. queue' \in Seq(Task)
    BY <1>3, HeadType DEF AbandonSpawned, Executing
  <2>3. oops' \in Oops
    BY <1>3 DEF AbandonSpawned, Oops
  <2> QED BY <1>3, <2>1, <2>2, <2>3 DEF AbandonSpawned, TypeOK
<1>4. CASE Hatch
  <2>1. state' \in [Proc -> State]
    BY <1>4 DEF Hatch, TypeOK, State
  <2>2. queue' \in Seq(Task) /\ oops' \in Oops
    BY <1>0, <1>4, ReturnType DEF Hatch, Executing
  <2>3. nextProcId' \in ProcOrKernel
    BY <1>4 DEF Hatch, TypeOK
  <2> QED BY <1>4, <2>1, <2>2, <2>3 DEF Hatch, TypeOK
<1> QED BY <1>1, <1>2, <1>3, <1>4

LEMMA CleanupType ==
  ASSUME TypeOK, DevCleanup \/ IpcCleanup \/ RunloopCleanup \/ ProcCleanup
  PROVE TypeOK'
<1>0. <<>> \in Seq(Task)
  OBVIOUS
<1>1. CASE DevCleanup
  <2>1. queue' \in Seq(Task) /\ oops' \in Oops
    BY <1>0, <1>1, ReturnType DEF DevCleanup, Executing
  <2> QED BY <1>1, <2>1 DEF DevCleanup, TypeOK
<1>2. CASE IpcCleanup
  <2>1. queue' \in Seq(Task) /\ oops' \in Oops
    BY <1>0, <1>2, ReturnType DEF IpcCleanup, Executing
  <2>2. /\ awaiting' \in [Proc -> ProcOrKernel] /\ ipcListeners' \in SUBSET Proc
    BY <1>2 DEF IpcCleanup, TypeOK
  <2>3. unbound' \in 0 .. MAX_BINDING
    BY <1>2 DEF IpcCleanup
  <2> QED BY <1>2, <2>1, <2>2, <2>3 DEF IpcCleanup, TypeOK
<1>3. CASE RunloopCleanup
  <2>1. queue' \in Seq(Task) /\ oops' \in Oops
    BY <1>0, <1>3, ReturnType DEF RunloopCleanup, Executing
  <2>2. pending' \in [Proc -> 0 .. DISPATCH_QUEUE_SIZE]
    <3>1. pending' = [pending EXCEPT ![Subject] = 0] /\ 0 \in 0 .. DISPATCH_QUEUE_SIZE
      BY <1>3 DEF RunloopCleanup
    <3>2. pending \in [Proc -> 0 .. DISPATCH_QUEUE_SIZE]
      BY DEF TypeOK
    <3> QED BY <3>1, <3>2
  <2> QED BY <1>3, <2>1, <2>2 DEF RunloopCleanup, TypeOK
<1>4. CASE ProcCleanup
  <2>1. state' \in [Proc -> State] /\ lockMask' \in [Proc -> SUBSET LockType]
    BY <1>4 DEF ProcCleanup, TypeOK, State
  <2>2. queue' \in Seq(Task)
    BY <1>4, HeadType DEF ProcCleanup, Executing
  <2>3. oops' \in Oops
    BY <1>4 DEF ProcCleanup, Oops
  <2> QED BY <1>4, <2>1, <2>2, <2>3 DEF ProcCleanup, TypeOK
<1> QED BY <1>1, <1>2, <1>3, <1>4

LEMMA ReleaseType == ASSUME TypeOK, FailReply \/ UnlockIfAble PROVE TypeOK'
<1>0. state \in [Proc -> State] /\ lockMask \in [Proc -> SUBSET LockType]
  BY DEF TypeOK
<1>1. CASE FailReply
  <2>1. PICK s \in Proc :
          /\ awaiting' = [awaiting EXCEPT ![s] = KERNEL]
          /\ lockMask' = Unlocked(lockMask, s, "IPC")
          /\ state' = Woken(state, lockMask, s, "IPC")
          /\ queue' = queue \o WakeTasks(state, lockMask, s, "IPC")
          /\ executionTimeCounter' \in {executionTimeCounter, GRANULARITY_MS}
    BY <1>1 DEF FailReply
  <2>2. lockMask' \in [Proc -> SUBSET LockType] /\ state' \in [Proc -> State]
    BY <1>0, <2>1, WokenType
  <2>3. queue' \in Seq(Task)
    BY <2>1, TasksType, ConcatProperties DEF TypeOK
  <2>4. oops' \in Oops
    BY <1>1, OverflowType DEF FailReply
  <2>5. awaiting' \in [Proc -> ProcOrKernel] /\ executionTimeCounter' \in 0 .. GRANULARITY_MS
    BY <2>1 DEF TypeOK
  <2> QED BY <1>1, <2>2, <2>3, <2>4, <2>5 DEF FailReply, TypeOK
<1>2. CASE UnlockIfAble
  <2> DEFINE p == Subject
  <2>1. queue # <<>> /\ p \in ProcOrKernel /\ <<>> \in Seq(Task)
    BY <1>2, HeadType DEF UnlockIfAble, Executing
  <2>2. UNCHANGED <<kernelState, procCurrent, addressSpace, lastProcId, nextProcId, taskVars, userVars>>
    BY <1>2 DEF UnlockIfAble
  <2>3. CASE awaiting[p] = KERNEL
    <3>1. /\ lockMask' = Unlocked(lockMask, p, "IPC")
          /\ state' = Woken(state, lockMask, p, "IPC")
          /\ executionTimeCounter' \in {executionTimeCounter, GRANULARITY_MS}
          /\ Return(WakeTasks(state, lockMask, p, "IPC"))
      BY <1>2, <2>3 DEF UnlockIfAble
    <3> HIDE DEF p
    <3>2. lockMask' \in [Proc -> SUBSET LockType] /\ state' \in [Proc -> State]
      BY <1>0, <3>1, WokenType
    <3>3. queue' \in Seq(Task) /\ oops' \in Oops
      BY <2>1, <3>1, TasksType, ReturnType
    <3>4. executionTimeCounter' \in 0 .. GRANULARITY_MS
      BY <3>1 DEF TypeOK
    <3> QED BY <2>2, <3>2, <3>3, <3>4 DEF TypeOK
  <2>4. CASE awaiting[p] # KERNEL
    <3>1. Return(<<>>) /\ UNCHANGED <<lockMask, state, executionTimeCounter>>
      BY <1>2, <2>4 DEF UnlockIfAble
    <3> QED BY <2>1, <2>2, <3>1, ReturnType DEF TypeOK
  <2> QED BY <2>3, <2>4
<1> QED BY <1>1, <1>2

LEMMA NotifyUnboundType == TypeOK /\ NotifyUnbound => TypeOK'
<1> SUFFICES ASSUME TypeOK, NotifyUnbound PROVE TypeOK'
  OBVIOUS
<1>1. /\ unbound' = unbound + 1 /\ unbound < MAX_BINDING
      /\ ipcListeners' = ipcListeners \ {Subject}
      /\ UNCHANGED <<kernelState, procCurrent, addressSpace, lastProcId, nextProcId,
                     scanned, loading, awaiting, listener>>
  BY DEF NotifyUnbound
<1>5. unbound' \in 0 .. MAX_BINDING /\ ipcListeners' \in SUBSET Proc
  <2>1. unbound \in 0 .. MAX_BINDING /\ ipcListeners \in SUBSET Proc
    BY DEF TypeOK
  <2>2. unbound' \in 0 .. MAX_BINDING
    BY <1>1, <2>1
  <2> QED BY <1>1, <2>1, <2>2
<1>2. PICK r \in Proc :
        IF Accepts(state, r, 1)
        THEN /\ pending' = [pending EXCEPT ![r] = @ + 1]
             /\ lockMask' = Unlocked(lockMask, r, "EVENT")
             /\ state' = Woken(state, lockMask, r, "EVENT")
             /\ queue' = queue \o DeliverTasks(state, lockMask, r, 1)
             /\ executionTimeCounter' = GRANULARITY_MS
             /\ oops' = Overflow(queue')
        ELSE /\ oops' = NoticeAlarm(r)
             /\ UNCHANGED <<pending, lockMask, state, queue, executionTimeCounter>>
  BY DEF NotifyUnbound, TypeOK
<1>3. CASE Accepts(state, r, 1)
  <2>1. pending[r] + 1 \in 0 .. DISPATCH_QUEUE_SIZE
    BY <1>3 DEF TypeOK, Accepts
  <2>2. pending' \in [Proc -> 0 .. DISPATCH_QUEUE_SIZE]
    BY <1>2, <1>3, <2>1 DEF TypeOK
  <2>3. lockMask' \in [Proc -> SUBSET LockType] /\ state' \in [Proc -> State]
    <3>1. state \in [Proc -> State] /\ lockMask \in [Proc -> SUBSET LockType]
      BY DEF TypeOK
    <3>2. /\ lockMask' = Unlocked(lockMask, r, "EVENT")
          /\ state' = Woken(state, lockMask, r, "EVENT")
      BY <1>2, <1>3
    <3> QED BY <3>1, <3>2, WokenType
  <2>4. queue' \in Seq(Task) /\ oops' \in Oops
    <3>1. DeliverTasks(state, lockMask, r, 1) \in Seq(Task) /\ queue \in Seq(Task)
      BY DeliverType DEF TypeOK
    <3> QED BY <1>2, <1>3, <3>1, ConcatProperties, OverflowType
  <2>5. executionTimeCounter' \in 0 .. GRANULARITY_MS
    BY <1>2, <1>3
  <2> QED BY <1>1, <1>5, <2>2, <2>3, <2>4, <2>5 DEF TypeOK
<1>4. CASE ~Accepts(state, r, 1)
  BY <1>1, <1>2, <1>4, <1>5, NoticeAlarmType DEF TypeOK
<1> QED BY <1>3, <1>4

LEMMA NextType == TypeOK /\ [Next]_vars => TypeOK'
<1> SUFFICES ASSUME TypeOK, [Next]_vars PROVE TypeOK'
  OBVIOUS
<1>1. CASE KernelStep
  BY <1>1, SwitchType, SchedEvaluateType, WaitForEventType, StartType, CleanupType, ReleaseType,
     NotifyUnboundType DEF KernelStep
<1>2. CASE Tick \/ KeyPress
  BY <1>2, TickType, KeyPressType
<1>3. CASE \E p \in Proc : UserStep(p)
  BY <1>3, UserStepType
<1>4. CASE UNCHANGED vars
  BY <1>4 DEF vars, TypeOK
<1> QED BY <1>1, <1>2, <1>3, <1>4 DEF Next

\* Every variable of the kernel keeps its type: no index leaves the process
\* table, no run loop counts more items than it has slots, and the panics are
\* those of the code.
THEOREM Typed == Spec => []TypeOK
BY InitType, NextType, PTL DEF Spec

USE DEF schedVars, procVars, taskVars, userVars

-----------------------------------------------------------------------------
(* Tasks.  Only two functions constrain the process they are queued for.   *)

Harmless(q) == \A i \in 1 .. Len(q) : q[i].fn \notin {"waitForEvent", "procCleanup"}

\* The state of every process agrees with its locks.
Consistent(st, lm) ==
  \A p \in Proc : /\ st[p] = "BLOCKED" <=> lm[p] # {}
                  /\ lm[p] # LockType

LEMMA TaskFields ==
  ASSUME NEW fn, NEW p
  PROVE Job(fn, p).fn = fn /\ Job(fn, p).proc = p /\ Evaluate.fn = "schedEvaluate"
BY DEF Job, Evaluate

LEMMA HarmlessConcat ==
  ASSUME NEW q \in Seq(Task), NEW r \in Seq(Task), Harmless(q), Harmless(r)
  PROVE Harmless(q \o r)
<1> SUFFICES ASSUME NEW i \in 1 .. Len(q \o r)
             PROVE (q \o r)[i].fn \notin {"waitForEvent", "procCleanup"}
  BY DEF Harmless
<1>1. CASE i <= Len(q)
  <2>1. (q \o r)[i] = q[i] /\ i \in 1 .. Len(q)
    BY <1>1, ConcatProperties
  <2> QED BY <2>1 DEF Harmless
<1>2. CASE i > Len(q)
  <2>1. (q \o r)[i] = r[i - Len(q)] /\ i - Len(q) \in 1 .. Len(r)
    BY <1>2, ConcatProperties
  <2> QED BY <2>1 DEF Harmless
<1> QED BY <1>1, <1>2

LEMMA HarmlessTasks ==
  ASSUME NEW p \in ProcOrKernel, NEW st, NEW lm, NEW type
  PROVE /\ Harmless(<<>>) /\ Harmless(<<Evaluate>>)
        /\ Harmless(LockTasks(st, p))
        /\ Harmless(WakeTasks(st, lm, p, type))
        /\ Harmless(Undelivered(p))
<1>1. Harmless(<<>>) /\ Harmless(<<Evaluate>>) /\ Harmless(Undelivered(p))
  BY TaskFields DEF Harmless, Undelivered
<1>2. Harmless(LockTasks(st, p)) /\ Harmless(WakeTasks(st, lm, p, type))
  BY <1>1 DEF LockTasks, WakeTasks
<1> QED BY <1>1, <1>2

LEMMA HarmlessDeliver ==
  ASSUME NEW p \in ProcOrKernel, NEW st, NEW lm, NEW n \in Nat
  PROVE Harmless(DeliverTasks(st, lm, p, n))
<1>1. Harmless(WakeTasks(st, lm, p, "EVENT"))
  BY HarmlessTasks
<1>2. WakeTasks(st, lm, p, "EVENT") \in Seq(Task) /\ Reviews(n) \in Seq(Task)
  BY TasksType, ReviewsType
<1>3. ASSUME NEW i \in 1 .. Len(Reviews(n)) PROVE Reviews(n)[i].fn = "schedEvaluate"
  <2>1. Reviews(n)[i] = Evaluate
    BY ReviewsType
  <2> QED BY <2>1, TaskFields
<1>4. Harmless(Reviews(n))
  BY <1>3 DEF Harmless
<1> QED BY <1>1, <1>2, <1>4, HarmlessConcat DEF DeliverTasks

LEMMA WokenConsistent ==
  ASSUME NEW st \in [Proc -> State], NEW lm \in [Proc -> SUBSET LockType],
         NEW p \in ProcOrKernel, NEW type \in LockType, Consistent(st, lm)
  PROVE Consistent(Woken(st, lm, p, type), Unlocked(lm, p, type))
<1>1. CASE p \in Proc
  BY <1>1 DEF Consistent, Woken, Wakes, Unlocked, LockType
<1>2. CASE p \notin Proc
  <2>1. Woken(st, lm, p, type) = st /\ Unlocked(lm, p, type) = lm
    BY <1>2 DEF Woken, Unlocked
  <2> QED BY <2>1
<1> QED BY <1>1, <1>2

LEMMA WokenStates ==
  ASSUME NEW st \in [Proc -> State], NEW lm, NEW p \in ProcOrKernel, NEW type
  PROVE \A x \in Proc :
          \/ Woken(st, lm, p, type)[x] = st[x]
          \/ x = p /\ st[x] = "BLOCKED" /\ Woken(st, lm, p, type)[x] = "READY"
BY DEF Woken, Wakes, State

-----------------------------------------------------------------------------
(* How an interrupt service routine ends: it goes on in the kernel, it     *)
(* returns to the process, or it returns to the kernel instead.            *)

LEMMA IsrEndCases ==
  ASSUME TypeOK, OneOwner, NEW st \in [Proc -> State], NEW q \in Seq(Task),
         NEW alarm \in Oops, IsrEnd(st, q, alarm),
         kernelState = "READY" => st[procCurrent] \in {"RUNNING", "BLOCKED", "FINISHED"}
  PROVE /\ queue' = q /\ UNCHANGED <<nextProcId, addressSpace, loading>>
        /\ alarm = "none" => oops' \in {"none", "queue full"}
        /\ \/ /\ kernelState = "RUNNING" /\ kernelState' = "RUNNING"
              /\ procCurrent = KERNEL /\ procCurrent' = KERNEL /\ state' = st
           \/ /\ kernelState = "READY" /\ kernelState' = "READY"
              /\ procCurrent' = procCurrent /\ q = <<>> /\ state' = st
           \/ /\ kernelState = "READY" /\ kernelState' = "RUNNING"
              /\ procCurrent \in Proc /\ nextProcId = procCurrent
              /\ procCurrent' = KERNEL /\ q # <<>>
              /\ state' = [st EXCEPT ![procCurrent] = IF @ = "RUNNING" THEN "READY" ELSE @]
<1>1. queue' = q /\ UNCHANGED <<nextProcId, addressSpace, loading>>
  BY DEF IsrEnd
<1>2. CASE kernelState = "RUNNING"
  <2>1. kernelState' = "RUNNING" /\ procCurrent' = procCurrent /\ state' = st
    BY <1>2 DEF IsrEnd
  <2>2. alarm = "none" => oops' = Overflow(q)
    BY <1>2 DEF IsrEnd
  <2>3. procCurrent = KERNEL
    BY <1>2 DEF OneOwner
  <2> QED BY <1>1, <1>2, <2>1, <2>2, <2>3 DEF Overflow
<1>3. CASE kernelState = "READY" /\ q = <<>>
  <2>1. kernelState' = "READY" /\ procCurrent' = procCurrent /\ state' = st
    BY <1>3 DEF IsrEnd
  <2>2. alarm = "none" => oops' = Overflow(q)
    BY <1>3 DEF IsrEnd
  <2> QED BY <1>1, <1>3, <2>1, <2>2 DEF Overflow
<1>4. CASE kernelState = "READY" /\ q # <<>>
  <2>1. procCurrent \in Proc /\ nextProcId = procCurrent
    BY <1>4 DEF OneOwner, TypeOK
  <2>2. st[nextProcId] \in {"RUNNING", "BLOCKED", "FINISHED"}
    BY <1>4, <2>1
  <2>3. kernelState' = "RUNNING" /\ procCurrent' = KERNEL
    BY <1>4 DEF IsrEnd
  <2>4. state' = IF st[nextProcId] = "RUNNING" THEN [st EXCEPT ![nextProcId] = "READY"] ELSE st
    BY <1>4, <2>1, <2>2 DEF IsrEnd
  <2>5. state' = [st EXCEPT ![procCurrent] = IF @ = "RUNNING" THEN "READY" ELSE @]
    BY <2>1, <2>4
  <2>6. alarm = "none" => oops' = Overflow(q)
    BY <1>4, <2>1, <2>2 DEF IsrEnd
  <2> QED BY <1>1, <1>4, <2>1, <2>3, <2>5, <2>6 DEF Overflow
<1> QED BY <1>2, <1>3, <1>4 DEF TypeOK

LEMMA IsrEndOwner ==
  ASSUME TypeOK, OneOwner, NEW st \in [Proc -> State], NEW q \in Seq(Task),
         NEW alarm \in Oops, IsrEnd(st, q, alarm),
         kernelState = "READY" => st[procCurrent] \in {"RUNNING", "BLOCKED", "FINISHED"},
         kernelState = "READY" /\ q = <<>> => st[procCurrent] = "RUNNING",
         \A x \in Proc : st[x] = "RUNNING" => state[x] = "RUNNING"
  PROVE OneOwner'
<1>1. CASE kernelState = "RUNNING" /\ state' = st /\ kernelState' = "RUNNING" /\ procCurrent' = KERNEL
  BY <1>1 DEF OneOwner
<1>2. CASE kernelState = "READY" /\ q = <<>> /\ state' = st /\ kernelState' = "READY"
           /\ procCurrent' = procCurrent /\ queue' = q /\ UNCHANGED <<nextProcId, addressSpace>>
  BY <1>2 DEF OneOwner
<1>3. CASE kernelState = "READY" /\ kernelState' = "RUNNING" /\ procCurrent' = KERNEL
           /\ procCurrent \in Proc
           /\ state' = [st EXCEPT ![procCurrent] = IF @ = "RUNNING" THEN "READY" ELSE @]
  <2>1. \A x \in Proc : state'[x] # "RUNNING"
    BY <1>3 DEF OneOwner
  <2> QED BY <1>3, <2>1 DEF OneOwner
<1> QED BY <1>1, <1>2, <1>3, IsrEndCases

-----------------------------------------------------------------------------
(* The queue.  A step drops the d functions at its head and appends        *)
(* harmless ones.                                                          *)

Moves(d) ==
  /\ d \in 0 .. 1 /\ d <= Len(queue) /\ Len(queue') >= Len(queue) - d
  /\ \A i \in 1 .. Len(queue) - d : queue'[i] = queue[i + d]
  /\ \A i \in Len(queue) - d + 1 .. Len(queue') :
        queue'[i].fn \notin {"waitForEvent", "procCleanup"}

LEMMA AppendMoves ==
  ASSUME queue \in Seq(Task), NEW tasks \in Seq(Task), Harmless(tasks),
         queue' = queue \o tasks
  PROVE Moves(0) /\ queue' \in Seq(Task)
<1>1. Len(queue') = Len(queue) + Len(tasks) /\ Len(queue) \in Nat /\ Len(tasks) \in Nat
  BY ConcatProperties, LenProperties
<1>2. \A i \in 1 .. Len(queue) : queue'[i] = queue[i + 0]
  BY <1>1, ConcatProperties
<1>3. ASSUME NEW i \in Len(queue) + 1 .. Len(queue')
      PROVE queue'[i].fn \notin {"waitForEvent", "procCleanup"}
  <2>1. queue'[i] = tasks[i - Len(queue)] /\ i - Len(queue) \in 1 .. Len(tasks)
    BY <1>1, ConcatProperties
  <2> QED BY <2>1 DEF Harmless
<1> QED BY <1>1, <1>2, <1>3, ConcatProperties DEF Moves

LEMMA TailMoves ==
  ASSUME queue \in Seq(Task), queue # <<>>, NEW tasks \in Seq(Task), Harmless(tasks),
         queue' = Tail(queue) \o tasks
  PROVE Moves(1) /\ queue' \in Seq(Task)
<1>1. /\ Tail(queue) \in Seq(Task) /\ Len(Tail(queue)) = Len(queue) - 1
      /\ Len(queue) \in Nat /\ Len(queue) >= 1 /\ Len(tasks) \in Nat
      /\ \A i \in 1 .. Len(Tail(queue)) : Tail(queue)[i] = queue[i + 1]
  BY HeadTailProperties, LenProperties, EmptySeq
<1>2. Len(queue') = Len(queue) - 1 + Len(tasks) /\ queue' \in Seq(Task)
  BY <1>1, ConcatProperties
<1>3. ASSUME NEW i \in 1 .. Len(queue) - 1
      PROVE queue'[i] = queue[i + 1]
  <2>1. queue'[i] = Tail(queue)[i]
    BY <1>1, <1>2, ConcatProperties
  <2> QED BY <1>1, <2>1
<1>4. ASSUME NEW i \in Len(queue) .. Len(queue')
      PROVE queue'[i].fn \notin {"waitForEvent", "procCleanup"}
  <2>1. queue'[i] = tasks[i - (Len(queue) - 1)] /\ i - (Len(queue) - 1) \in 1 .. Len(tasks)
    BY <1>1, <1>2, ConcatProperties
  <2> QED BY <2>1 DEF Harmless
<1>5. \A i \in Len(queue) - 1 + 1 .. Len(queue') :
        queue'[i].fn \notin {"waitForEvent", "procCleanup"}
  BY <1>1, <1>4
<1> QED BY <1>1, <1>2, <1>3, <1>5 DEF Moves

LEMMA WaiterKept ==
  ASSUME queue \in Seq(Task), queue' \in Seq(Task), WaiterIsReady, NEW d \in 0 .. 1, Moves(d),
         \A p \in Proc : state[p] = "READY" =>
            state'[p] = "READY" \/ (d = 1 /\ queue[1] = Job("waitForEvent", p))
  PROVE WaiterIsReady'
<1> SUFFICES ASSUME NEW i \in 1 .. Len(queue'), queue'[i].fn = "waitForEvent"
             PROVE /\ queue'[i].proc # KERNEL /\ state'[queue'[i].proc] = "READY"
                   /\ \A j \in 1 .. Len(queue') : queue'[j].fn = "waitForEvent" => i = j
  BY DEF WaiterIsReady
<1>0. Len(queue) \in Nat /\ Len(queue') \in Nat
  BY LenProperties
<1>1. \A j \in 1 .. Len(queue') : queue'[j].fn = "waitForEvent" =>
        j + d \in 1 .. Len(queue) /\ queue[j + d].fn = "waitForEvent" /\ queue'[j] = queue[j + d]
  BY <1>0 DEF Moves
<1>2. \A j \in 1 .. Len(queue') : queue'[j].fn = "waitForEvent" => i + d = j + d
  BY <1>1 DEF WaiterIsReady
<1> DEFINE p == queue'[i].proc
<1>3. p # KERNEL /\ state[p] = "READY" /\ p \in Proc
  <2>1. queue[i + d] \in Task
    BY <1>1, ElementOfSeq
  <2> QED BY <1>1, <2>1 DEF WaiterIsReady, Task
<1>4. d = 1 => queue[1] # Job("waitForEvent", p)
  <2> SUFFICES ASSUME d = 1, queue[1] = Job("waitForEvent", p) PROVE FALSE
    OBVIOUS
  <2>1. queue[1].fn = "waitForEvent"
    BY TaskFields
  <2> QED BY <1>0, <1>1, <2>1 DEF WaiterIsReady
<1> QED BY <1>0, <1>2, <1>3, <1>4

LEMMA StoppedKept ==
  ASSUME queue \in Seq(Task), queue' \in Seq(Task), StoppedIsFinished, NEW d \in 0 .. 1, Moves(d),
         \A p \in Proc : state[p] = "FINISHED" =>
            state'[p] = "FINISHED" \/ (d = 1 /\ queue[1] = Job("procCleanup", p)),
         listener' = listener \/ listener' = KERNEL,
         ipcListeners' \subseteq ipcListeners,
         \A p \in Proc : d = 1 /\ queue[1] = Job("devCleanup", p) => listener' # p,
         \A p \in Proc : d = 1 /\ queue[1] = Job("ipcCleanup", p) => p \notin ipcListeners'
  PROVE StoppedIsFinished'
<1>0. Len(queue) \in Nat /\ Len(queue') \in Nat
  BY LenProperties
<1>1. ASSUME NEW j \in 1 .. Len(queue'), queue'[j].fn = "procCleanup"
      PROVE j + d \in 1 .. Len(queue) /\ queue[j + d].fn = "procCleanup" /\ queue'[j] = queue[j + d]
  <2>1. j \in 1 .. Len(queue) - d
    BY <1>0, <1>1 DEF Moves
  <2> QED BY <1>0, <1>1, <2>1 DEF Moves
<1> SUFFICES ASSUME NEW i \in 1 .. Len(queue'), queue'[i].fn = "procCleanup"
             PROVE LET p == queue'[i].proc
                       Cleaned(fn) == \E j \in 1 .. i - 1 : queue'[j] = Job(fn, p)
                   IN /\ p # KERNEL /\ state'[p] = "FINISHED"
                      /\ \A j \in 1 .. Len(queue') : queue'[j].fn = "procCleanup" => i = j
                      /\ listener' = p => Cleaned("devCleanup")
                      /\ p \in ipcListeners' => Cleaned("ipcCleanup")
  BY DEF StoppedIsFinished
<1> DEFINE p == queue'[i].proc
<1>2. i + d \in 1 .. Len(queue) /\ queue[i + d].fn = "procCleanup" /\ queue[i + d].proc = p
  BY <1>1
<1>3. \A j \in 1 .. Len(queue') : queue'[j].fn = "procCleanup" => i = j
  <2>1. \A j \in 1 .. Len(queue') : queue'[j].fn = "procCleanup" => i + d = j + d
    BY <1>1, <1>2 DEF StoppedIsFinished
  <2> QED BY <1>0, <2>1
<1>4. p # KERNEL /\ state[p] = "FINISHED" /\ p \in Proc
  <2>1. queue[i + d] \in Task
    BY <1>2, ElementOfSeq
  <2> QED BY <1>2, <2>1 DEF StoppedIsFinished, Task
<1>5. state'[p] = "FINISHED"
  <2>1. d = 1 => queue[1] # Job("procCleanup", p)
    <3> SUFFICES ASSUME d = 1, queue[1] = Job("procCleanup", p) PROVE FALSE
      OBVIOUS
    <3>1. queue[1].fn = "procCleanup" /\ 1 \in 1 .. Len(queue)
      BY <1>0, <1>2, TaskFields
    <3>2. i + d = 1
      BY <1>2, <3>1 DEF StoppedIsFinished
    <3> QED BY <1>0, <3>2
  <2> QED BY <1>4, <2>1
<1>6. ASSUME NEW fn, \E j \in 1 .. i + d - 1 : queue[j] = Job(fn, p),
             d = 1 => queue[1] # Job(fn, p)
      PROVE \E j \in 1 .. i - 1 : queue'[j] = Job(fn, p)
  <2>1. PICK j \in 1 .. i + d - 1 : queue[j] = Job(fn, p)
    BY <1>6
  <2>2. j - d \in 1 .. i - 1
    BY <1>0, <1>6, <2>1
  <2>3. queue'[j - d] = queue[j]
    <3>1. j - d \in 1 .. Len(queue) - d /\ (j - d) + d = j
      BY <1>0, <1>2, <2>1, <2>2
    <3> QED BY <3>1 DEF Moves
  <2> QED BY <2>1, <2>2, <2>3
<1>7. listener' = p => \E j \in 1 .. i - 1 : queue'[j] = Job("devCleanup", p)
  <2> SUFFICES ASSUME listener' = p PROVE \E j \in 1 .. i - 1 : queue'[j] = Job("devCleanup", p)
    OBVIOUS
  <2>1. listener = p
    BY <1>4
  <2>2. \E j \in 1 .. i + d - 1 : queue[j] = Job("devCleanup", p)
    BY <1>2, <2>1 DEF StoppedIsFinished
  <2>3. d = 1 => queue[1] # Job("devCleanup", p)
    BY <1>4
  <2> QED BY <1>6, <2>2, <2>3
<1>8. p \in ipcListeners' => \E j \in 1 .. i - 1 : queue'[j] = Job("ipcCleanup", p)
  <2> SUFFICES ASSUME p \in ipcListeners' PROVE \E j \in 1 .. i - 1 : queue'[j] = Job("ipcCleanup", p)
    OBVIOUS
  <2>1. p \in ipcListeners
    OBVIOUS
  <2>2. \E j \in 1 .. i + d - 1 : queue[j] = Job("ipcCleanup", p)
    BY <1>2, <2>1 DEF StoppedIsFinished
  <2>3. d = 1 => queue[1] # Job("ipcCleanup", p)
    BY <1>4
  <2> QED BY <1>6, <2>2, <2>3
<1> QED BY <1>3, <1>4, <1>5, <1>7, <1>8

LEMMA HarmlessQueue ==
  ASSUME Harmless(queue') PROVE WaiterIsReady' /\ StoppedIsFinished'
BY DEF Harmless, WaiterIsReady, StoppedIsFinished

\* The choice of the next process stays good, or is about to be reviewed.
LEMMA StaleKept ==
  ASSUME queue \in Seq(Task), queue' \in Seq(Task), StaleChoiceIsReviewed, NEW d \in 0 .. 1, Moves(d),
         kernelState = "RUNNING", nextProcId' = nextProcId,
         d = 1 => queue[1] # Evaluate,
         nextProcId # KERNEL /\ state'[nextProcId] # "READY" => state[nextProcId] # "READY"
  PROVE StaleChoiceIsReviewed'
<1> SUFFICES ASSUME nextProcId # KERNEL, state'[nextProcId] # "READY"
             PROVE \E i \in 1 .. Len(queue') : queue'[i] = Evaluate
  BY DEF StaleChoiceIsReviewed, Queued
<1>0. Len(queue) \in Nat /\ Len(queue') \in Nat
  BY LenProperties
<1>1. PICK i \in 1 .. Len(queue) : queue[i] = Evaluate
  BY DEF StaleChoiceIsReviewed, Queued
<1>2. i - d \in 1 .. Len(queue) - d /\ (i - d) + d = i
  BY <1>0, <1>1
<1>3. queue'[i - d] = queue[i] /\ i - d \in 1 .. Len(queue')
  BY <1>0, <1>2 DEF Moves
<1> QED BY <1>1, <1>3

-----------------------------------------------------------------------------
(* Actions that end with ISR_END, append harmless functions and at most    *)
(* wake processes, in the kernel or in a process.                          *)

LEMMA Owner ==
  ASSUME TypeOK, OneOwner, kernelState = "READY"
  PROVE /\ procCurrent \in Proc /\ nextProcId = procCurrent /\ queue = <<>>
        /\ state[procCurrent] = "RUNNING" /\ addressSpace = procCurrent
BY DEF TypeOK, OneOwner

LEMMA KernelOwns ==
  ASSUME OneOwner, kernelState = "RUNNING"
  PROVE procCurrent = KERNEL /\ \A x \in Proc : state[x] # "RUNNING"
<1>1. procCurrent = KERNEL
  BY DEF OneOwner
<1>2. \A x \in Proc : state[x] # "RUNNING"
  BY <1>1 DEF OneOwner
<1> QED BY <1>1, <1>2

LEMMA KernelGoesOn ==
  ASSUME OneOwner, kernelState = "RUNNING", UNCHANGED <<kernelState, procCurrent>>,
         \A x \in Proc : state'[x] = "RUNNING" => state[x] = "RUNNING"
  PROVE OneOwner'
<1>1. kernelState' = "RUNNING" /\ procCurrent' = KERNEL
  BY KernelOwns
<1>2. \A x \in Proc : state'[x] # "RUNNING"
  BY KernelOwns
<1> QED BY <1>1, <1>2 DEF OneOwner

LEMMA IsrEndKeeps ==
  ASSUME IInv, TypeOK', NEW st \in [Proc -> State], NEW tasks \in Seq(Task), Harmless(tasks),
         IsrEnd(st, queue \o tasks, "none"),
         \A x \in Proc : st[x] = state[x] \/ (state[x] = "BLOCKED" /\ st[x] = "READY"),
         Consistent(st, lockMask'),
         UNCHANGED <<listener, ipcListeners>>
  PROVE IInv'
<1>0. /\ TypeOK /\ OneOwner /\ StaleChoiceIsReviewed /\ WaiterIsReady
      /\ StoppedIsFinished /\ CalledBackIsHatched
      /\ queue \in Seq(Task) /\ queue \o tasks \in Seq(Task) /\ "none" \in Oops
      /\ nextProcId \in ProcOrKernel /\ loading \in ProcOrKernel
  BY ConcatProperties DEF IInv, TypeOK, Oops
<1> DEFINE q == queue \o tasks
<1>1. kernelState = "READY" => st[procCurrent] = "RUNNING"
  BY <1>0, Owner
<1>2. OneOwner'
  BY <1>0, <1>1, IsrEndOwner
<1> HIDE DEF q
<1>3. /\ queue' = q /\ UNCHANGED <<nextProcId, loading>> /\ oops' \in {"none", "queue full"}
      /\ \/ kernelState = "RUNNING" /\ kernelState' = "RUNNING" /\ state' = st
         \/ kernelState = "READY" /\ kernelState' = "READY" /\ state' = st
         \/ /\ kernelState = "READY" /\ kernelState' = "RUNNING"
            /\ procCurrent \in Proc /\ nextProcId = procCurrent
            /\ state' = [st EXCEPT ![procCurrent] = IF @ = "RUNNING" THEN "READY" ELSE @]
  BY <1>0, <1>1, IsrEndCases DEF q
<1>4. \A x \in Proc : state'[x] = st[x] \/ (st[x] = "RUNNING" /\ state'[x] = "READY")
  BY <1>3
<1>5. BlockedByOneLock'
  BY <1>4 DEF BlockedByOneLock, Consistent
<1>6. Moves(0) /\ queue' \in Seq(Task)
  BY <1>0, <1>3, AppendMoves DEF q
<1>7. WaiterIsReady'
  BY <1>0, <1>4, <1>6, WaiterKept
<1>8. StoppedIsFinished'
  BY <1>0, <1>4, <1>6, StoppedKept
<1>9. StaleChoiceIsReviewed'
  <2>1. CASE kernelState = "RUNNING"
    <3>1. nextProcId # KERNEL /\ state'[nextProcId] # "READY" => state[nextProcId] # "READY"
      BY <1>0, <1>4
    <3>2. nextProcId' = nextProcId
      BY <1>3
    <3>3. 0 = 1 => queue[1] # Evaluate
      OBVIOUS
    <3> QED BY <1>0, <1>6, <2>1, <3>1, <3>2, <3>3, StaleKept
  <2>2. CASE kernelState = "READY" /\ kernelState' = "READY"
    BY <2>2 DEF StaleChoiceIsReviewed
  <2>3. CASE kernelState = "READY" /\ kernelState' = "RUNNING"
    <3>1. state'[nextProcId'] = "READY"
      BY <1>1, <1>3, <2>3
    <3> QED BY <3>1 DEF StaleChoiceIsReviewed
  <2> QED BY <1>3, <2>1, <2>2, <2>3
<1>10. CalledBackIsHatched'
  <2>1. \A x \in Proc : state'[x] \in {"NONE", "NEW"} => state[x] = state'[x]
    BY <1>4
  <2>2. \A x \in Proc : state[x] = "NEW" => state'[x] = "NEW"
    BY <1>4
  <2> QED BY <1>0, <1>3, <2>1, <2>2 DEF CalledBackIsHatched
<1>11. NoProcPanic'
  BY <1>3 DEF NoProcPanic
<1> QED BY <1>2, <1>5, <1>7, <1>8, <1>9, <1>10, <1>11 DEF IInv

-----------------------------------------------------------------------------
(* Functions of the kernel's queue.                                        *)

LEMMA KernelKeeps ==
  ASSUME IInv, TypeOK', NEW d \in 0 .. 1, Moves(d), kernelState = "RUNNING",
         UNCHANGED <<kernelState, procCurrent>>, oops' \in {"none", "queue full"},
         \A x \in Proc : state'[x] = "RUNNING" => state[x] = "RUNNING",
         \A x \in Proc : state[x] = "READY" =>
            state'[x] = "READY" \/ (d = 1 /\ queue[1] = Job("waitForEvent", x)),
         \A x \in Proc : state[x] = "FINISHED" =>
            state'[x] = "FINISHED" \/ (d = 1 /\ queue[1] = Job("procCleanup", x)),
         listener' = listener \/ listener' = KERNEL,
         ipcListeners' \subseteq ipcListeners,
         \A x \in Proc : d = 1 /\ queue[1] = Job("devCleanup", x) => listener' # x,
         \A x \in Proc : d = 1 /\ queue[1] = Job("ipcCleanup", x) => x \notin ipcListeners',
         Consistent(state', lockMask'), StaleChoiceIsReviewed', CalledBackIsHatched'
  PROVE IInv'
<1>0. /\ TypeOK /\ OneOwner /\ WaiterIsReady /\ StoppedIsFinished
      /\ queue \in Seq(Task) /\ queue' \in Seq(Task)
  BY DEF IInv, TypeOK
<1>1. WaiterIsReady'
  BY <1>0, WaiterKept
<1>2. StoppedIsFinished'
  BY <1>0, StoppedKept
<1>3. OneOwner'
  BY <1>0, KernelGoesOn
<1>4. NoProcPanic' /\ BlockedByOneLock'
  BY DEF NoProcPanic, BlockedByOneLock, Consistent
<1> QED BY <1>1, <1>2, <1>3, <1>4 DEF IInv

LEMMA IInvParts ==
  ASSUME IInv
  PROVE /\ TypeOK /\ OneOwner /\ BlockedByOneLock /\ NoProcPanic /\ Consistent(state, lockMask)
        /\ StaleChoiceIsReviewed /\ WaiterIsReady /\ StoppedIsFinished /\ CalledBackIsHatched
        /\ state \in [Proc -> State] /\ lockMask \in [Proc -> SUBSET LockType]
        /\ queue \in Seq(Task)
BY DEF IInv, TypeOK, BlockedByOneLock, Consistent

LEMMA TickKeeps == ASSUME IInv, TypeOK', Tick PROVE IInv'
<1> DEFINE tasks == IF executionTimeCounter + 1 < GRANULARITY_MS THEN <<>> ELSE <<Evaluate>>
<1>1. tasks \in Seq(Task) /\ Harmless(tasks)
  <2>1. Harmless(<<>>) /\ Harmless(<<Evaluate>>)
    BY HarmlessTasks
  <2> QED BY <2>1, EvaluateType
<1>2. IsrEnd(state, queue \o tasks, "none")
  <2>1. queue \o <<>> = queue /\ queue \o <<Evaluate>> = Append(queue, Evaluate)
    BY IInvParts, EvaluateType, ConcatProperties, AppendIsConcat, ConcatEmptySeq
  <2> QED BY <2>1 DEF Tick
<1>3. Consistent(state, lockMask') /\ UNCHANGED <<listener, ipcListeners>>
  BY IInvParts DEF Tick, Consistent
<1> HIDE DEF tasks
<1> QED BY <1>1, <1>2, <1>3, IInvParts, IsrEndKeeps

LEMMA DeliverKeeps ==
  ASSUME IInv, TypeOK', NEW h \in Proc, NEW n \in Nat,
         lockMask' = Unlocked(lockMask, h, "EVENT"),
         IsrEnd(Woken(state, lockMask, h, "EVENT"),
                queue \o DeliverTasks(state, lockMask, h, n), "none"),
         UNCHANGED <<listener, ipcListeners>>
  PROVE IInv'
<1> DEFINE st == Woken(state, lockMask, h, "EVENT")
           tasks == DeliverTasks(state, lockMask, h, n)
<1>1. tasks \in Seq(Task) /\ Harmless(tasks)
  BY DeliverType, HarmlessDeliver
<1>2. st \in [Proc -> State] /\ Consistent(st, lockMask')
  BY IInvParts, WokenType, WokenConsistent DEF LockType
<1>3. \A x \in Proc : st[x] = state[x] \/ (state[x] = "BLOCKED" /\ st[x] = "READY")
  BY IInvParts, WokenStates
<1>4. IsrEnd(st, queue \o tasks, "none")
  OBVIOUS
<1> HIDE DEF st, tasks
<1> QED BY <1>1, <1>2, <1>3, <1>4, IsrEndKeeps

LEMMA KeyPressKeeps == ASSUME IInv, TypeOK', KeyPress PROVE IInv'
<1>1. CASE KeyAlarm = "none"
  <2>1. listener \in Proc
    BY <1>1, IInvParts DEF KeyAlarm, TypeOK
  <2> QED BY <1>1, <2>1, DeliverKeeps DEF KeyPress
<1>2. CASE KeyAlarm # "none"
  <2>1. listener # KERNEL => state[listener] \notin {"NONE", "NEW"} /\ state[listener] \in State
    BY IInvParts DEF CalledBackIsHatched, TypeOK
  <2>2. KeyAlarm = "emit"
    BY <1>2, <2>1 DEF KeyAlarm, Alive, State
  <2>3. oops' = "emit" /\ UNCHANGED <<procVars, schedVars, queue, taskVars, userVars>>
    BY <1>2, <2>2 DEF KeyPress
  <2>4. UNCHANGED <<OneOwner, BlockedByOneLock, StaleChoiceIsReviewed, WaiterIsReady,
                    StoppedIsFinished, CalledBackIsHatched>>
    BY <2>3 DEF OneOwner, BlockedByOneLock, StaleChoiceIsReviewed, WaiterIsReady,
          StoppedIsFinished, CalledBackIsHatched, Queued
  <2> QED BY <2>3, <2>4, IInvParts DEF IInv, NoProcPanic
<1> QED BY <1>1, <1>2

LEMMA CallStartKeeps == ASSUME IInv, TypeOK', NEW p \in Proc, CallStart(p) PROVE IInv'
<1> DEFINE tasks == <<Job("start", p)>>
<1>1. tasks \in Seq(Task) /\ Harmless(tasks)
  BY JobType, TaskFields DEF Harmless, Function
<1>2. IsrEnd(state, queue \o tasks, "none")
  <2>1. queue \o tasks = Append(queue, Job("start", p))
    BY IInvParts, JobType, AppendIsConcat DEF Function
  <2> QED BY <2>1 DEF CallStart, Dispatch
<1>3. Consistent(state, lockMask') /\ UNCHANGED <<listener, ipcListeners>>
  BY IInvParts DEF CallStart, Dispatch, Consistent
<1> HIDE DEF tasks
<1> QED BY <1>1, <1>2, <1>3, IInvParts, IsrEndKeeps

LEMMA YieldKeeps == ASSUME IInv, TypeOK', NEW p \in Proc, Yield(p) PROVE IInv'
<1> DEFINE tasks == <<Evaluate>>
<1>1. tasks \in Seq(Task) /\ Harmless(tasks)
  BY EvaluateType, HarmlessTasks
<1>2. IsrEnd(state, queue \o tasks, "none")
  <2>1. queue \o tasks = Append(queue, Evaluate)
    BY IInvParts, EvaluateType, AppendIsConcat
  <2> QED BY <2>1 DEF Yield
<1>3. Consistent(state, lockMask') /\ UNCHANGED <<listener, ipcListeners>>
  BY IInvParts DEF Yield, Consistent
<1> HIDE DEF tasks
<1> QED BY <1>1, <1>2, <1>3, IInvParts, IsrEndKeeps

LEMMA IpcSendKeeps ==
  ASSUME IInv, TypeOK', NEW p \in Proc, NEW h \in Proc, NEW n \in Nat, IpcSend(p, h, n)
  PROVE IInv'
<1>1. CASE Accepts(state, h, n)
  BY <1>1, DeliverKeeps DEF IpcSend
<1>2. CASE ~Accepts(state, h, n)
  <2>1. state[h] \notin {"NONE", "NEW"}
    BY IInvParts DEF IpcSend, CalledBackIsHatched
  <2>2. IsrEnd(state, queue, "none") /\ UNCHANGED <<lockMask, listener, ipcListeners>>
    BY <1>2, <2>1 DEF IpcSend
  <2>3. queue \o <<>> = queue /\ Harmless(<<>>) /\ <<>> \in Seq(Task)
    BY IInvParts, ConcatEmptySeq, HarmlessTasks
  <2>4. Consistent(state, lockMask')
    BY <2>2, IInvParts DEF Consistent
  <2> QED BY <2>2, <2>3, <2>4, IInvParts, IsrEndKeeps
<1> QED BY <1>1, <1>2

LEMMA IpcReplyKeeps ==
  ASSUME IInv, TypeOK', NEW p \in Proc, NEW s \in Proc, NEW n \in 0 .. 1, IpcReply(p, s, n)
  PROVE IInv'
<1> DEFINE told == n = 1
           lm == IF told THEN Unlocked(lockMask, s, "EVENT") ELSE lockMask
           st0 == IF told THEN Woken(state, lockMask, s, "EVENT") ELSE state
           notice == IF told THEN DeliverTasks(state, lockMask, s, 1) ELSE <<>>
           st == Woken(st0, lm, s, "IPC")
           tasks == notice \o WakeTasks(st0, lm, s, "IPC")
<1>0. /\ lockMask' = Unlocked(lm, s, "IPC") /\ IsrEnd(st, queue \o tasks, "none")
      /\ UNCHANGED <<listener, ipcListeners>>
  BY DEF IpcReply
<1>1. /\ lm \in [Proc -> SUBSET LockType] /\ st0 \in [Proc -> State]
      /\ notice \in Seq(Task)
  BY IInvParts, ReplyNoticeType
<1>2. Harmless(notice)
  <2>1. Harmless(DeliverTasks(state, lockMask, s, 1)) /\ Harmless(<<>>)
    BY HarmlessTasks, HarmlessDeliver
  <2> QED BY <2>1
<1>3. Consistent(st0, lm)
  <2>1. Consistent(Woken(state, lockMask, s, "EVENT"), Unlocked(lockMask, s, "EVENT"))
    BY IInvParts, WokenConsistent DEF LockType
  <2> QED BY <2>1, IInvParts
<1>4. \A x \in Proc : st0[x] = state[x] \/ (state[x] = "BLOCKED" /\ st0[x] = "READY")
  BY IInvParts, WokenStates
<1> HIDE DEF told, lm, st0, notice
<1>5. tasks \in Seq(Task) /\ Harmless(tasks)
  <2>1. WakeTasks(st0, lm, s, "IPC") \in Seq(Task) /\ Harmless(WakeTasks(st0, lm, s, "IPC"))
    BY TasksType, HarmlessTasks
  <2> QED BY <1>1, <1>2, <2>1, ConcatProperties, HarmlessConcat
<1>6. st \in [Proc -> State] /\ Consistent(st, lockMask')
  BY <1>0, <1>1, <1>3, WokenType, WokenConsistent DEF LockType
<1>7. \A x \in Proc : st[x] = state[x] \/ (state[x] = "BLOCKED" /\ st[x] = "READY")
  <2>1. \A x \in Proc : st[x] = st0[x] \/ (st0[x] = "BLOCKED" /\ st[x] = "READY")
    BY <1>1, WokenStates
  <2> HIDE DEF st
  <2> QED BY <1>4, <2>1
<1> HIDE DEF st, tasks
<1> QED BY <1>0, <1>5, <1>6, <1>7, IsrEndKeeps

\* A notice that is refused changes nothing but the panic.
LEMMA UnbindPanicsKeeps == ASSUME IInv, TypeOK', NEW p \in Proc, UnbindPanics(p) PROVE IInv'
<1>1. oops' = "notice" /\ UNCHANGED <<procVars, schedVars, queue, taskVars, userVars>>
  BY IInvParts DEF UnbindPanics, NoticeAlarm, CalledBackIsHatched, TypeOK
<1>2. UNCHANGED <<OneOwner, BlockedByOneLock, StaleChoiceIsReviewed, WaiterIsReady,
                  StoppedIsFinished, CalledBackIsHatched>>
  BY <1>1 DEF OneOwner, BlockedByOneLock, StaleChoiceIsReviewed, WaiterIsReady,
        StoppedIsFinished, CalledBackIsHatched, Queued
<1> QED BY <1>1, <1>2, IInvParts DEF IInv, NoProcPanic

-----------------------------------------------------------------------------
(* Calls that lock, stop or queue the process that makes them: the queue   *)
(* was empty, and they leave for the kernel.                               *)

LEMMA Leaves ==
  ASSUME IInv, NEW p \in Proc, Running(p), NEW st \in [Proc -> State],
         NEW q \in Seq(Task), q # <<>>, IsrEnd(st, q, "none"),
         st[p] \in {"RUNNING", "BLOCKED", "FINISHED"},
         \A x \in Proc : st[x] = "RUNNING" => state[x] = "RUNNING"
  PROVE /\ queue' = q /\ kernelState' = "RUNNING" /\ nextProcId' = p /\ loading' = loading
        /\ state' = [st EXCEPT ![p] = IF @ = "RUNNING" THEN "READY" ELSE @]
        /\ OneOwner' /\ NoProcPanic'
<1>1. /\ TypeOK /\ OneOwner /\ "none" \in Oops /\ kernelState = "READY" /\ procCurrent = p
      /\ queue = <<>> /\ nextProcId = p
  BY IInvParts, Owner DEF Running, Oops
<1>2. OneOwner'
  BY <1>1, IsrEndOwner
<1>3. /\ queue' = q /\ UNCHANGED <<nextProcId, loading>> /\ oops' \in {"none", "queue full"}
      /\ kernelState' = "RUNNING"
      /\ state' = [st EXCEPT ![p] = IF @ = "RUNNING" THEN "READY" ELSE @]
  BY <1>1, IsrEndCases
<1> QED BY <1>1, <1>2, <1>3 DEF NoProcPanic

LEMMA CallWaitForEventKeeps ==
  ASSUME IInv, TypeOK', NEW p \in Proc, CallWaitForEvent(p) PROVE IInv'
<1> DEFINE q == <<Job("waitForEvent", p)>>
<1>0. /\ Running(p) /\ IsrEnd(state, Append(queue, Job("waitForEvent", p)), "none")
      /\ UNCHANGED <<lockMask, listener, ipcListeners>>
  BY DEF CallWaitForEvent, Dispatch
<1>1. /\ TypeOK /\ OneOwner /\ kernelState = "READY" /\ procCurrent = p
      /\ queue = <<>> /\ state[p] = "RUNNING"
  BY <1>0, IInvParts, Owner DEF Running
<1>2. q \in Seq(Task) /\ q # <<>> /\ Append(queue, Job("waitForEvent", p)) = q
  BY <1>1, JobType DEF Function
<1>3. /\ queue' = q /\ kernelState' = "RUNNING" /\ nextProcId' = p /\ loading' = loading
      /\ state' = [state EXCEPT ![p] = "READY"] /\ OneOwner' /\ NoProcPanic'
  BY <1>0, <1>1, <1>2, IInvParts, Leaves
<1>4. WaiterIsReady'
  <2>1. /\ Len(queue') = 1 /\ queue'[1].proc = p /\ state'[p] = "READY"
    BY <1>3, IInvParts, TaskFields
  <2> QED BY <2>1 DEF WaiterIsReady
<1>5. StoppedIsFinished'
  <2>1. Len(queue') = 1 /\ queue'[1].fn = "waitForEvent"
    BY <1>3, TaskFields
  <2> QED BY <2>1 DEF StoppedIsFinished
<1>6. StaleChoiceIsReviewed'
  BY <1>3, IInvParts DEF StaleChoiceIsReviewed
<1>7. BlockedByOneLock' /\ CalledBackIsHatched'
  BY <1>0, <1>1, <1>3, IInvParts DEF BlockedByOneLock, CalledBackIsHatched, TypeOK
<1> QED BY <1>3, <1>4, <1>5, <1>6, <1>7 DEF IInv

LEMMA ByeKeeps == ASSUME IInv, TypeOK', NEW p \in Proc, Bye(p) PROVE IInv'
<1> DEFINE q == ByeTasks(p)
           st == [state EXCEPT ![p] = "FINISHED"]
<1>0. /\ Running(p) /\ IsrEnd(st, queue \o q, IF Alive(state, p) THEN "none" ELSE "stop")
      /\ UNCHANGED <<lockMask, listener, ipcListeners>>
  BY DEF Bye
<1>1. /\ TypeOK /\ OneOwner /\ kernelState = "READY" /\ procCurrent = p
      /\ queue = <<>> /\ state[p] = "RUNNING" /\ st \in [Proc -> State] /\ st[p] = "FINISHED"
  BY <1>0, IInvParts, Owner DEF Running, State
<1>2. q \in Seq(Task) /\ q # <<>> /\ queue \o q = q
  BY <1>1, TasksType, ConcatEmptySeq DEF ByeTasks
<1>3. IsrEnd(st, q, "none")
  BY <1>0, <1>1, <1>2 DEF Alive
<1>4. /\ queue' = q /\ kernelState' = "RUNNING" /\ nextProcId' = p /\ loading' = loading
      /\ state' = st /\ OneOwner' /\ NoProcPanic'
  <2>1. \A x \in Proc : st[x] = "RUNNING" => state[x] = "RUNNING"
    BY <1>1
  <2>2. [st EXCEPT ![p] = IF @ = "RUNNING" THEN "READY" ELSE @] = st
    BY <1>1
  <2> QED BY <1>0, <1>1, <1>2, <1>3, <2>1, <2>2, Leaves
<1>5. /\ Len(queue') = 5 /\ queue'[1] = Job("devCleanup", p) /\ queue'[2] = Job("ipcCleanup", p)
      /\ queue'[3] = Job("runloopCleanup", p) /\ queue'[4] = Job("procCleanup", p)
      /\ queue'[5] = Evaluate
  BY <1>4 DEF ByeTasks
<1>6. \A i \in 1 .. Len(queue') :
        queue'[i].fn # "waitForEvent" /\ (queue'[i].fn = "procCleanup" => i = 4)
  BY <1>5, TaskFields
<1>7. WaiterIsReady'
  BY <1>6 DEF WaiterIsReady
<1>8. StoppedIsFinished'
  BY <1>1, <1>4, <1>5, <1>6, TaskFields DEF StoppedIsFinished
<1>9. StaleChoiceIsReviewed'
  BY <1>5 DEF StaleChoiceIsReviewed, Queued
<1>10. BlockedByOneLock' /\ CalledBackIsHatched'
  BY <1>0, <1>1, <1>4, IInvParts DEF BlockedByOneLock, CalledBackIsHatched, TypeOK
<1> QED BY <1>4, <1>7, <1>8, <1>9, <1>10 DEF IInv

LEMMA IpcSendAwaitingKeeps ==
  ASSUME IInv, TypeOK', NEW p \in Proc, NEW h \in Proc, NEW n \in Nat,
         IpcSendAwaiting(p, h, n)
  PROVE IInv'
<1> DEFINE st0 == [state EXCEPT ![p] = "BLOCKED"]
           lm0 == [lockMask EXCEPT ![p] = @ \cup {"IPC"}]
           locking == queue \o LockTasks(state, p)
           st == IF Accepts(st0, h, n) THEN Woken(st0, lm0, h, "EVENT") ELSE st0
           more == IF Accepts(st0, h, n) THEN DeliverTasks(st0, lm0, h, n) ELSE Undelivered(p)
           q == locking \o more
<1>0. Running(p) /\ h \in ipcListeners /\ UNCHANGED <<listener, ipcListeners>>
  BY DEF IpcSendAwaiting
<1>1. /\ TypeOK /\ OneOwner /\ kernelState = "READY" /\ procCurrent = p
      /\ queue = <<>> /\ state[p] = "RUNNING" /\ lockMask[p] = {}
      /\ state[h] \notin {"NONE", "NEW"}
  BY <1>0, IInvParts, Owner DEF Running, BlockedByOneLock, CalledBackIsHatched
<1>2. locking = <<Evaluate>>
  BY <1>1, EvaluateType, ConcatEmptySeq DEF LockTasks
<1>3. st0 \in [Proc -> State] /\ lm0 \in [Proc -> SUBSET LockType] /\ Consistent(st0, lm0)
      /\ lm0[p] = {"IPC"} /\ st0[h] \notin {"NONE", "NEW"}
  BY <1>1, IInvParts DEF Consistent, State, LockType
<1>4. st \in [Proc -> State] /\ lockMask' \in [Proc -> SUBSET LockType] /\ Consistent(st, lockMask')
      /\ st[p] = "BLOCKED"
  <2>1. CASE Accepts(st0, h, n)
    <3>1. lockMask' = Unlocked(lm0, h, "EVENT")
      BY <2>1 DEF IpcSendAwaiting
    <3> HIDE DEF st0, lm0
    <3>2. st = Woken(st0, lm0, h, "EVENT")
      BY <2>1
    <3> HIDE DEF st
    <3>5. st \in [Proc -> State] /\ lockMask' \in [Proc -> SUBSET LockType]
      BY <1>3, <3>1, <3>2, WokenType
    <3>6. "EVENT" \in LockType /\ h \in ProcOrKernel
      BY DEF LockType
    <3>7. Consistent(st, lockMask')
      BY <1>3, <3>1, <3>2, <3>6, WokenConsistent
    <3>3. st \in [Proc -> State] /\ lockMask' \in [Proc -> SUBSET LockType] /\ Consistent(st, lockMask')
      BY <3>5, <3>7
    <3>4. lockMask'[p] # {}
      BY <1>3, <3>1 DEF Unlocked
    <3> QED BY <3>3, <3>4 DEF Consistent
  <2>2. CASE ~Accepts(st0, h, n)
    <3>1. lockMask' = lm0
      BY <2>2 DEF IpcSendAwaiting
    <3> QED BY <1>1, <1>3, <2>2, <3>1, IInvParts
  <2> QED BY <2>1, <2>2
<1>5. IsrEnd(st, q, "none")
  <2>1. CASE Accepts(st0, h, n)
    BY <2>1 DEF IpcSendAwaiting
  <2>2. CASE ~Accepts(st0, h, n)
    <3>1. Lockable(state, p)
      BY <1>1 DEF Lockable, Alive
    <3> QED BY <1>3, <2>2, <3>1 DEF IpcSendAwaiting
  <2> QED BY <2>1, <2>2
<1>6. \A x \in Proc : /\ st[x] = "RUNNING" => state[x] = "RUNNING"
                      /\ st[x] \in {"NONE", "NEW"} => state[x] = st[x]
                      /\ state[x] = "NEW" => st[x] = "NEW"
  <2>1. \A x \in Proc : st[x] = st0[x] \/ (st0[x] = "BLOCKED" /\ st[x] = "READY")
    <3> HIDE DEF st0, lm0
    <3>1. CASE Accepts(st0, h, n)
      <4>1. st = Woken(st0, lm0, h, "EVENT") /\ h \in ProcOrKernel
        BY <3>1
      <4> HIDE DEF st
      <4> QED BY <1>3, <4>1, WokenStates
    <3>2. CASE ~Accepts(st0, h, n)
      BY <3>2
    <3> QED BY <3>1, <3>2
  <2> HIDE DEF st
  <2> QED BY <1>1, <2>1
<1>7. q \in Seq(Task) /\ Harmless(q) /\ q # <<>> /\ q[1] = Evaluate /\ Len(q) \in Nat \ {0}
  <2>1. more \in Seq(Task) /\ Harmless(more)
    BY TasksType, HarmlessTasks, DeliverType, HarmlessDeliver
  <2> HIDE DEF more
  <2>2. <<Evaluate>> \in Seq(Task) /\ Harmless(<<Evaluate>>)
    BY EvaluateType, HarmlessTasks
  <2>3. q = <<Evaluate>> \o more
    BY <1>2
  <2> HIDE DEF q
  <2>4. q \in Seq(Task) /\ Harmless(q)
    BY <2>1, <2>2, <2>3, HarmlessConcat, ConcatProperties
  <2>5. Len(q) = 1 + Len(more) /\ Len(more) \in Nat
    BY <2>1, <2>2, <2>3, ConcatProperties, LenProperties
  <2>6. q[1] = <<Evaluate>>[1]
    BY <2>1, <2>2, <2>3, ConcatProperties
  <2>7. q # <<>>
    BY <2>4, <2>5, EmptySeq
  <2> QED BY <2>4, <2>5, <2>6, <2>7
<1> HIDE DEF st, q, st0, lm0, locking, more
<1>8. /\ queue' = q /\ kernelState' = "RUNNING" /\ nextProcId' = p /\ loading' = loading
      /\ state' = st /\ OneOwner' /\ NoProcPanic'
  <2>1. [st EXCEPT ![p] = IF @ = "RUNNING" THEN "READY" ELSE @] = st
    BY <1>4
  <2> QED BY <1>0, <1>4, <1>5, <1>6, <1>7, <2>1, Leaves
<1>9. WaiterIsReady' /\ StoppedIsFinished'
  BY <1>7, <1>8, HarmlessQueue
<1>10. StaleChoiceIsReviewed'
  BY <1>7, <1>8 DEF StaleChoiceIsReviewed, Queued
<1>11. BlockedByOneLock'
  BY <1>4, <1>8 DEF BlockedByOneLock, Consistent
<1>12. CalledBackIsHatched'
  BY <1>0, <1>6, <1>8, IInvParts DEF CalledBackIsHatched, TypeOK
<1> QED BY <1>8, <1>9, <1>10, <1>11, <1>12 DEF IInv

LEMMA AnsweredKeeps ==
  ASSUME IInv, TypeOK', NEW p \in Proc,
         GetItem(p) \/ IpcRegister(p) \/ DevListen(p) \/ DevRelease(p)
  PROVE IInv'
<1>0. Running(p) /\ UNCHANGED <<procVars, schedVars, queue, taskVars, oops>>
  BY DEF GetItem, IpcRegister, DevListen, DevRelease, Answered
<1>1. kernelState = "READY" /\ queue = <<>> /\ state[p] = "RUNNING"
  BY <1>0, IInvParts, Owner DEF Running
<1>2. /\ listener' \in {listener, p, KERNEL}
      /\ ipcListeners' \in {ipcListeners, ipcListeners \cup {p}}
  BY DEF GetItem, IpcRegister, DevListen, DevRelease
<1>3. OneOwner' /\ BlockedByOneLock' /\ NoProcPanic' /\ StaleChoiceIsReviewed'
  BY <1>0, <1>1, IInvParts
  DEF OneOwner, BlockedByOneLock, NoProcPanic, StaleChoiceIsReviewed
<1>4. WaiterIsReady' /\ StoppedIsFinished'
  BY <1>0, <1>1 DEF WaiterIsReady, StoppedIsFinished
<1>5. CalledBackIsHatched'
  BY <1>0, <1>1, <1>2, IInvParts DEF CalledBackIsHatched
<1> QED BY <1>3, <1>4, <1>5 DEF IInv

LEMMA UserStepKeeps == ASSUME IInv, TypeOK', NEW p \in Proc, UserStep(p) PROVE IInv'
BY CallWaitForEventKeeps, CallStartKeeps, YieldKeeps, ByeKeeps, AnsweredKeeps,
   IpcSendKeeps, IpcSendAwaitingKeeps, IpcReplyKeeps, UnbindPanicsKeeps DEF UserStep

-----------------------------------------------------------------------------
(* The kernel's loop: one lemma per function of the queue.                 *)

LEMMA HeadTask ==
  ASSUME IInv, NEW fn, Executing(fn)
  PROVE /\ kernelState = "RUNNING" /\ queue # <<>> /\ 1 \in 1 .. Len(queue)
        /\ queue[1].fn = fn /\ queue[1].proc = Subject /\ Subject \in ProcOrKernel
        /\ queue[1] = Job(fn, Subject)
        /\ \A f, p : queue[1] = Job(f, p) => f = fn /\ p = Subject
        /\ queue[1] = Evaluate => fn = "schedEvaluate"
<1>1. kernelState = "RUNNING" /\ queue # <<>> /\ queue \in Seq(Task) /\ Head(queue).fn = fn
  BY IInvParts DEF Executing
<1>2. queue[1] = Head(queue) /\ 1 \in 1 .. Len(queue)
  BY <1>1, EmptySeq, LenProperties, HeadTailProperties
<1>3. queue[1] \in Task
  BY <1>1, <1>2, ElementOfSeq
<1>4. queue[1].fn = fn /\ queue[1].proc = Subject /\ Subject \in ProcOrKernel
  BY <1>1, <1>2, <1>3 DEF Subject, Task
<1>5. \A f, p : queue[1] = Job(f, p) => f = fn /\ p = Subject
  BY <1>4, TaskFields
<1>6. queue[1] = Evaluate => fn = "schedEvaluate"
  BY <1>4, TaskFields
<1>7. queue[1] = Job(fn, Subject)
  BY <1>3, <1>4 DEF Task, Job
<1> QED BY <1>1, <1>2, <1>4, <1>5, <1>6, <1>7

\* A function that returns without a further task.
LEMMA ReturnMoves ==
  ASSUME IInv, queue # <<>>,
         queue' = Tail(queue) \/ queue' = Tail(queue) \o <<>>
  PROVE Moves(1) /\ queue' \in Seq(Task)
<1>1. Tail(queue) \in Seq(Task)
  BY IInvParts, HeadTailProperties
<1>2. queue' = Tail(queue) \o <<>>
  BY <1>1, ConcatEmptySeq
<1>3. <<>> \in Seq(Task) /\ Harmless(<<>>)
  BY HarmlessTasks
<1> QED BY <1>2, <1>3, IInvParts, TailMoves

LEMMA OverflowIsNoPanic == ASSUME NEW q PROVE Overflow(q) \in {"none", "queue full"}
BY DEF Overflow

\* A step that queues a review of the schedule may make any choice stale.
LEMMA ReviewQueued ==
  ASSUME NEW q \in Seq(Task), queue' = q \o <<Evaluate>>
  PROVE StaleChoiceIsReviewed'
<1>1. <<Evaluate>> \in Seq(Task) /\ Len(<<Evaluate>>) = 1 /\ <<Evaluate>>[1] = Evaluate
  BY EvaluateType
<1>2. Len(queue') = Len(q) + 1 /\ Len(q) \in Nat
  BY <1>1, ConcatProperties, LenProperties
<1>3. queue'[Len(q) + 1] = <<Evaluate>>[Len(q) + 1 - Len(q)]
  BY <1>1, <1>2, ConcatProperties
<1> QED BY <1>1, <1>2, <1>3 DEF StaleChoiceIsReviewed, Queued

LEMMA ZeroOne == 0 \in 0 .. 1 /\ 1 \in 0 .. 1 /\ 0 # 1
OBVIOUS

LEMMA WokenMoves ==
  ASSUME state \in [Proc -> State], NEW p \in ProcOrKernel, state' = Woken(state, lockMask, p, "IPC")
  PROVE \A x \in Proc : state'[x] = state[x] \/ (state[x] = "BLOCKED" /\ state'[x] = "READY")
BY WokenStates

\* A function that returns, and one that goes on, and what each must show.
LEMMA ReturnKeeps ==
  ASSUME IInv, TypeOK', NEW fn, Executing(fn), Moves(1),
         kernelState' = kernelState, procCurrent' = procCurrent,
         oops' \in {"none", "queue full"},
         \A x \in Proc : state'[x] = "RUNNING" => state[x] = "RUNNING",
         \A x \in Proc : state[x] = "READY" =>
            state'[x] = "READY" \/ (fn = "waitForEvent" /\ x = Subject),
         \A x \in Proc : state[x] = "FINISHED" =>
            state'[x] = "FINISHED" \/ (fn = "procCleanup" /\ x = Subject),
         listener' = listener \/ listener' = KERNEL,
         ipcListeners' \subseteq ipcListeners,
         \A x \in Proc : fn = "devCleanup" /\ x = Subject => listener' # x,
         \A x \in Proc : fn = "ipcCleanup" /\ x = Subject => x \notin ipcListeners',
         Consistent(state', lockMask'), StaleChoiceIsReviewed', CalledBackIsHatched'
  PROVE IInv'
<1>0. 1 \in 0 .. 1
  BY ZeroOne
<1>1. kernelState = "RUNNING" /\ queue[1] = Job(fn, Subject)
  BY HeadTask
<1>2. \A f, p : queue[1] = Job(f, p) => f = fn /\ p = Subject
  BY HeadTask
<1>3. \A x \in Proc : queue[1] = Job("devCleanup", x) => listener' # x
  BY <1>2
<1>4. \A x \in Proc : queue[1] = Job("ipcCleanup", x) => x \notin ipcListeners'
  BY <1>2
<1>5. \A x \in Proc : state[x] = "READY" =>
            state'[x] = "READY" \/ queue[1] = Job("waitForEvent", x)
  BY <1>1
<1>6. \A x \in Proc : state[x] = "FINISHED" =>
            state'[x] = "FINISHED" \/ queue[1] = Job("procCleanup", x)
  BY <1>1
<1> QED BY <1>0, <1>1, <1>3, <1>4, <1>5, <1>6, KernelKeeps

LEMMA StaleReturn ==
  ASSUME IInv, TypeOK', NEW fn, Executing(fn), fn # "schedEvaluate", Moves(1),
         nextProcId' = nextProcId,
         \A x \in Proc : state'[x] # "READY" => state[x] # "READY"
  PROVE StaleChoiceIsReviewed'
<1>1. kernelState = "RUNNING" /\ queue[1] # Evaluate /\ 1 \in 0 .. 1
  BY HeadTask
<1>2. queue \in Seq(Task) /\ queue' \in Seq(Task) /\ StaleChoiceIsReviewed
  BY IInvParts DEF TypeOK
<1>3. nextProcId # KERNEL /\ state'[nextProcId] # "READY" => state[nextProcId] # "READY"
  BY IInvParts DEF TypeOK
<1> QED BY <1>1, <1>2, <1>3, StaleKept

LEMMA GoesOnKeeps ==
  ASSUME IInv, TypeOK', NEW fn, Executing(fn), Moves(0),
         kernelState' = kernelState, procCurrent' = procCurrent, nextProcId' = nextProcId,
         oops' \in {"none", "queue full"},
         \A x \in Proc : state'[x] = "RUNNING" => state[x] = "RUNNING",
         \A x \in Proc : state[x] = "READY" => state'[x] = "READY",
         \A x \in Proc : state[x] = "FINISHED" => state'[x] = "FINISHED",
         listener' = listener,
         ipcListeners' \subseteq ipcListeners,
         Consistent(state', lockMask'), CalledBackIsHatched'
  PROVE IInv'
<1>0. 0 \in 0 .. 1 /\ 0 # 1
  BY ZeroOne
<1>1. kernelState = "RUNNING"
  BY DEF Executing
<1>2. queue \in Seq(Task) /\ queue' \in Seq(Task) /\ StaleChoiceIsReviewed
  BY IInvParts DEF TypeOK
<1>3. nextProcId # KERNEL /\ state'[nextProcId] # "READY" => state[nextProcId] # "READY"
  BY IInvParts DEF TypeOK
<1>4. StaleChoiceIsReviewed'
  BY <1>0, <1>1, <1>2, <1>3, StaleKept
<1> QED BY <1>0, <1>1, <1>4, KernelKeeps

LEMMA SwitchKeeps == ASSUME IInv, TypeOK', Switch PROVE IInv'
<1>0. /\ kernelState = "RUNNING" /\ queue = <<>> /\ nextProcId \in Proc
      /\ kernelState' = "READY" /\ state' = [state EXCEPT ![nextProcId] = "RUNNING"]
      /\ procCurrent' = nextProcId /\ addressSpace' = nextProcId
      /\ UNCHANGED <<lockMask, nextProcId, queue, loading, listener, ipcListeners>>
  BY IInvParts DEF Switch, SwitchTo, Drained, TypeOK
<1>1. state[nextProcId] = "READY" /\ lockMask[nextProcId] = {}
  BY <1>0, IInvParts DEF StaleChoiceIsReviewed, Queued, BlockedByOneLock
<1>2. oops' = "none"
  BY <1>1 DEF Switch, SwitchTo
<1>3. OneOwner'
  <2>1. \A x \in Proc : state[x] # "RUNNING"
    BY <1>0, IInvParts, KernelOwns
  <2>2. \A x \in Proc : state'[x] = "RUNNING" <=> procCurrent' = x
    BY <1>0, <2>1, IInvParts
  <2> QED BY <1>0, <2>2 DEF OneOwner
<1>4. WaiterIsReady' /\ StoppedIsFinished' /\ StaleChoiceIsReviewed'
  BY <1>0 DEF WaiterIsReady, StoppedIsFinished, StaleChoiceIsReviewed
<1>5. BlockedByOneLock' /\ CalledBackIsHatched'
  BY <1>0, <1>1, IInvParts DEF BlockedByOneLock, CalledBackIsHatched, TypeOK
<1> QED BY <1>2, <1>3, <1>4, <1>5 DEF IInv, NoProcPanic

LEMMA SchedEvaluateKeeps == ASSUME IInv, TypeOK', SchedEvaluate PROVE IInv'
<1>0. /\ Executing("schedEvaluate")
      /\ UNCHANGED <<procVars, loading, listener, ipcListeners>>
  BY DEF SchedEvaluate
<1>1. CASE Ready(state, Slot(scanned)) \/ scanned = MAX_PROC - 1
  <2>1. /\ nextProcId' = IF Ready(state, Slot(scanned)) THEN Slot(scanned) ELSE KERNEL
        /\ queue' = Tail(queue) \o <<>> /\ oops' \in {"none", "queue full"}
    BY <1>1, OverflowIsNoPanic DEF SchedEvaluate, Return
  <2>2. Moves(1) /\ queue' \in Seq(Task)
    BY <1>0, <2>1, HeadTask, ReturnMoves
  <2>3. StaleChoiceIsReviewed'
    BY <1>0, <2>1 DEF StaleChoiceIsReviewed, Ready
  <2>4. CalledBackIsHatched' /\ Consistent(state', lockMask')
    BY <1>0, IInvParts DEF CalledBackIsHatched, Consistent
  <2> QED BY <1>0, <2>1, <2>2, <2>3, <2>4, ReturnKeeps
<1>2. CASE ~(Ready(state, Slot(scanned)) \/ scanned = MAX_PROC - 1)
  <2>1. UNCHANGED <<nextProcId, queue, oops>>
    BY <1>2 DEF SchedEvaluate
  <2>2. OneOwner' /\ BlockedByOneLock' /\ NoProcPanic'
    BY <1>0, <2>1, IInvParts DEF OneOwner, BlockedByOneLock, NoProcPanic
  <2>3. StaleChoiceIsReviewed' /\ WaiterIsReady'
    BY <1>0, <2>1, IInvParts DEF StaleChoiceIsReviewed, Queued, WaiterIsReady
  <2>4. StoppedIsFinished' /\ CalledBackIsHatched'
    BY <1>0, <2>1, IInvParts DEF StoppedIsFinished, CalledBackIsHatched
  <2> QED BY <2>2, <2>3, <2>4 DEF IInv
<1> QED BY <1>1, <1>2

LEMMA WaitForEventKeeps == ASSUME IInv, TypeOK', WaitForEvent PROVE IInv'
<1> DEFINE p == Subject
<1>0. /\ Executing("waitForEvent")
      /\ UNCHANGED <<kernelState, procCurrent, nextProcId, loading, listener, ipcListeners>>
  BY DEF WaitForEvent
<1>1. /\ p \in Proc /\ state[p] = "READY" /\ lockMask[p] = {}
  <2>1. 1 \in 1 .. Len(queue) /\ queue[1].fn = "waitForEvent" /\ queue[1].proc = p /\ p \in ProcOrKernel
    BY <1>0, HeadTask
  <2>2. p # KERNEL /\ state[p] = "READY"
    BY <2>1, IInvParts DEF WaiterIsReady
  <2> QED BY <2>1, <2>2, IInvParts DEF BlockedByOneLock
<1>2. queue # <<>>
  BY <1>0, HeadTask
<1>3. CASE RunloopEmpty(p)
  <2>1. /\ lockMask' = [lockMask EXCEPT ![p] = @ \cup {"EVENT"}]
        /\ state' = [state EXCEPT ![p] = "BLOCKED"]
        /\ queue' = Tail(queue) \o <<Evaluate>> /\ oops' \in {"none", "queue full"}
    BY <1>1, <1>3, OverflowIsNoPanic DEF WaitForEvent, LockTasks, Lockable, Alive
  <2>2. <<Evaluate>> \in Seq(Task) /\ Harmless(<<Evaluate>>)
    BY EvaluateType, HarmlessTasks
  <2>3. Moves(1) /\ queue' \in Seq(Task)
    BY <1>2, <2>1, <2>2, IInvParts, TailMoves
  <2>4. StaleChoiceIsReviewed'
    <3>1. Tail(queue) \in Seq(Task)
      BY <1>2, IInvParts, HeadTailProperties
    <3> QED BY <2>1, <3>1, ReviewQueued
  <2>5. CalledBackIsHatched' /\ Consistent(state', lockMask')
    <3>1. \A x \in Proc : x # p => state'[x] = state[x] /\ lockMask'[x] = lockMask[x]
      BY <1>1, <2>1, IInvParts
    <3>2. state'[p] = "BLOCKED" /\ lockMask'[p] = lockMask[p] \cup {"EVENT"}
      BY <1>1, <2>1, IInvParts
    <3>5. lockMask'[p] = {"EVENT"}
      BY <1>1, <3>2
    <3>3. Consistent(state', lockMask')
      <4>1. {"EVENT"} # LockType /\ {"EVENT"} # {}
        BY DEF LockType
      <4>2. Consistent(state, lockMask)
        BY IInvParts
      <4> HIDE DEF p
      <4> QED BY <3>1, <3>2, <3>5, <4>1, <4>2 DEF Consistent
    <3>4. CalledBackIsHatched'
      BY <1>0, <1>1, <3>1, <3>2, IInvParts DEF CalledBackIsHatched, TypeOK
    <3> QED BY <3>3, <3>4
  <2>6. \A x \in Proc : /\ state'[x] = "RUNNING" => state[x] = "RUNNING"
                        /\ state[x] = "READY" => state'[x] = "READY" \/ x = p
                        /\ state[x] = "FINISHED" => state'[x] = "FINISHED"
    BY <1>1, <2>1, IInvParts
  <2> QED BY <1>0, <2>1, <2>3, <2>4, <2>5, <2>6, ReturnKeeps
<1>4. CASE ~RunloopEmpty(p)
  <2>1. /\ UNCHANGED <<lockMask, state>> /\ queue' = Tail(queue) \o <<>>
        /\ oops' \in {"none", "queue full"}
    BY <1>4, OverflowIsNoPanic DEF WaitForEvent, Return
  <2>2. Moves(1)
    BY <1>2, <2>1, ReturnMoves
  <2>3. StaleChoiceIsReviewed'
    BY <1>0, <2>1, <2>2, StaleReturn
  <2>4. CalledBackIsHatched' /\ Consistent(state', lockMask')
    BY <1>0, <2>1, IInvParts DEF CalledBackIsHatched, Consistent
  <2> QED BY <1>0, <2>1, <2>2, <2>3, <2>4, ReturnKeeps
<1> QED BY <1>3, <1>4

LEMMA StartFailsKeeps == ASSUME IInv, TypeOK', StartFails PROVE IInv'
<1>1. /\ Executing("start") /\ UNCHANGED <<procVars, schedVars, taskVars, userVars>>
      /\ queue' = Tail(queue) \o <<>> /\ oops' \in {"none", "queue full"}
  BY OverflowIsNoPanic DEF StartFails, Return
<1>2. Moves(1)
  BY <1>1, HeadTask, ReturnMoves
<1>3. StaleChoiceIsReviewed'
  BY <1>1, <1>2, StaleReturn
<1>4. CalledBackIsHatched' /\ Consistent(state', lockMask')
  BY <1>1, IInvParts DEF CalledBackIsHatched, Consistent
<1> QED BY <1>1, <1>2, <1>3, <1>4, ReturnKeeps

LEMMA SpawnKeeps == ASSUME IInv, TypeOK', Spawn PROVE IInv'
<1>1. PICK p \in Proc : /\ state[p] = "NONE" /\ loading' = p
                        /\ state' = [state EXCEPT ![p] = "NEW"]
  BY DEF Spawn
<1>2. /\ Executing("start")
      /\ UNCHANGED <<kernelState, procCurrent, nextProcId, lockMask, queue, oops,
                     listener, ipcListeners>>
  BY DEF Spawn
<1>3. oops = "none"
  BY <1>2 DEF Executing
<1>4. Moves(0)
  <2>1. queue' = queue \o <<>> /\ <<>> \in Seq(Task) /\ Harmless(<<>>)
    BY <1>2, IInvParts, ConcatEmptySeq, HarmlessTasks
  <2> QED BY <2>1, IInvParts, AppendMoves
<1>5. \A x \in Proc : /\ x # p => state'[x] = state[x]
                      /\ x = p => state'[x] = "NEW"
  BY <1>1, IInvParts
<1>6. CalledBackIsHatched' /\ Consistent(state', lockMask')
  BY <1>1, <1>2, <1>5, IInvParts DEF CalledBackIsHatched, Consistent
<1> QED BY <1>1, <1>2, <1>3, <1>4, <1>5, <1>6, GoesOnKeeps

LEMMA AbandonSpawnedKeeps == ASSUME IInv, TypeOK', AbandonSpawned PROVE IInv'
<1>1. /\ Executing("start") /\ loading \in Proc /\ state[loading] = "NEW"
      /\ state' = [state EXCEPT ![loading] = "NONE"]
      /\ lockMask' = [lockMask EXCEPT ![loading] = {}]
      /\ loading' = KERNEL /\ queue' = Tail(queue)
      /\ UNCHANGED <<kernelState, procCurrent, nextProcId, listener, ipcListeners>>
  BY IInvParts DEF AbandonSpawned, TypeOK, CalledBackIsHatched
<1>2. oops' = "none"
  BY <1>1 DEF AbandonSpawned, Alive
<1>3. Moves(1)
  BY <1>1, HeadTask, ReturnMoves
<1>4. \A x \in Proc : \/ x # loading /\ state'[x] = state[x] /\ lockMask'[x] = lockMask[x]
                      \/ x = loading /\ state'[x] = "NONE" /\ lockMask'[x] = {}
  BY <1>1, IInvParts
<1>5. StaleChoiceIsReviewed'
  BY <1>1, <1>3, <1>4, StaleReturn
<1>6. CalledBackIsHatched' /\ Consistent(state', lockMask')
  BY <1>1, <1>4, IInvParts DEF CalledBackIsHatched, Consistent, LockType
<1> QED BY <1>1, <1>2, <1>3, <1>4, <1>5, <1>6, ReturnKeeps

LEMMA HatchKeeps == ASSUME IInv, TypeOK', Hatch PROVE IInv'
<1>1. /\ Executing("start") /\ loading \in Proc /\ state[loading] = "NEW"
      /\ state' = [state EXCEPT ![loading] = "READY"]
      /\ loading' = KERNEL /\ queue' = Tail(queue) \o <<>>
      /\ oops' \in {"none", "queue full"}
      /\ UNCHANGED <<kernelState, procCurrent, lockMask, listener, ipcListeners>>
  BY IInvParts, OverflowIsNoPanic DEF Hatch, Return, TypeOK, CalledBackIsHatched
<1>2. Moves(1)
  BY <1>1, HeadTask, ReturnMoves
<1>3. \A x \in Proc : \/ x # loading /\ state'[x] = state[x]
                      \/ x = loading /\ state'[x] = "READY"
  BY <1>1, IInvParts
<1>4. StaleChoiceIsReviewed'
  <2>1. CASE nextProcId < 0
    BY <2>1 DEF Hatch, Selects, Ready, StaleChoiceIsReviewed
  <2>2. CASE ~(nextProcId < 0)
    <3>1. nextProcId' = nextProcId
      BY <2>2 DEF Hatch
    <3> QED BY <1>1, <1>2, <1>3, <3>1, StaleReturn
  <2> QED BY <2>1, <2>2
<1>5. CalledBackIsHatched' /\ Consistent(state', lockMask')
  BY <1>1, <1>3, IInvParts DEF CalledBackIsHatched, Consistent
<1> QED BY <1>1, <1>2, <1>3, <1>4, <1>5, ReturnKeeps

LEMMA ReturnedKeeps ==
  ASSUME IInv, TypeOK', DevCleanup \/ IpcCleanup \/ RunloopCleanup PROVE IInv'
<1>1. PICK fn \in {"devCleanup", "ipcCleanup", "runloopCleanup"} :
        /\ Executing(fn)
        /\ fn = "devCleanup" => listener' # Subject \/ Subject = KERNEL
        /\ fn = "ipcCleanup" => Subject \notin ipcListeners'
  BY DEF DevCleanup, IpcCleanup, RunloopCleanup
<1>2. /\ listener' = listener \/ listener' = KERNEL
      /\ ipcListeners' \subseteq ipcListeners
      /\ queue' = Tail(queue) \o <<>> /\ oops' \in {"none", "queue full"}
      /\ kernelState' = kernelState /\ procCurrent' = procCurrent /\ nextProcId' = nextProcId
      /\ state' = state /\ lockMask' = lockMask /\ loading' = loading
  BY OverflowIsNoPanic DEF DevCleanup, IpcCleanup, RunloopCleanup, Return
<1>3. Moves(1)
  BY <1>1, <1>2, HeadTask, ReturnMoves
<1>4. StaleChoiceIsReviewed'
  BY <1>1, <1>2, <1>3, StaleReturn
<1>5. CalledBackIsHatched' /\ Consistent(state', lockMask')
  <2>1. CalledBackIsHatched /\ Consistent(state, lockMask)
    BY IInvParts
  <2>2. \A x \in Proc : x = listener' => x = listener
    <3>1. \A x \in Proc : x # KERNEL
      OBVIOUS
    <3>2. listener' = listener \/ listener' = KERNEL
      BY <1>2
    <3> QED BY <3>1, <3>2
  <2>3. \A x \in Proc : x \in ipcListeners' => x \in ipcListeners
    BY <1>2
  <2> QED BY <1>2, <2>1, <2>2, <2>3 DEF CalledBackIsHatched, Consistent
<1>6. \A x \in Proc : /\ fn = "devCleanup" /\ x = Subject => listener' # x
                      /\ fn = "ipcCleanup" /\ x = Subject => x \notin ipcListeners'
  BY <1>1
<1>7. \A x \in Proc : state'[x] = state[x]
  BY <1>2
<1> QED BY <1>1, <1>2, <1>3, <1>4, <1>5, <1>6, <1>7, ReturnKeeps

LEMMA FailReplyKeeps == ASSUME IInv, TypeOK', FailReply PROVE IInv'
<1>0. PICK s \in Proc : /\ lockMask' = Unlocked(lockMask, s, "IPC")
                        /\ state' = Woken(state, lockMask, s, "IPC")
                        /\ queue' = queue \o WakeTasks(state, lockMask, s, "IPC")
  BY DEF FailReply
<1>1. /\ Executing("ipcCleanup") /\ oops' \in {"none", "queue full"}
      /\ ipcListeners' \subseteq ipcListeners
      /\ UNCHANGED <<kernelState, procCurrent, nextProcId, loading, listener>>
  BY OverflowIsNoPanic DEF FailReply
<1>2. Moves(0)
  BY <1>0, TasksType, HarmlessTasks, IInvParts, AppendMoves
<1>3. \A x \in Proc : state'[x] = state[x] \/ (state[x] = "BLOCKED" /\ state'[x] = "READY")
  BY <1>0, IInvParts, WokenMoves
<1>4. Consistent(state', lockMask')
  BY <1>0, IInvParts, WokenConsistent DEF LockType
<1>5. CalledBackIsHatched'
  <2>1. loading' # KERNEL => state'[loading'] = "NEW"
    BY <1>1, <1>3, IInvParts DEF CalledBackIsHatched, TypeOK
  <2> QED BY <1>1, <1>3, <2>1, IInvParts DEF CalledBackIsHatched
<1> QED BY <1>1, <1>2, <1>3, <1>4, <1>5, GoesOnKeeps

LEMMA NotifyUnboundKeeps == ASSUME IInv, TypeOK', NotifyUnbound PROVE IInv'
<1>0. /\ Executing("ipcCleanup") /\ ipcListeners' \subseteq ipcListeners
      /\ UNCHANGED <<kernelState, procCurrent, nextProcId, loading, listener>>
  BY DEF NotifyUnbound
<1>1. PICK r \in ipcListeners :
        IF Accepts(state, r, 1)
        THEN /\ lockMask' = Unlocked(lockMask, r, "EVENT")
             /\ state' = Woken(state, lockMask, r, "EVENT")
             /\ queue' = queue \o DeliverTasks(state, lockMask, r, 1)
             /\ oops' = Overflow(queue')
        ELSE /\ oops' = NoticeAlarm(r)
             /\ UNCHANGED <<lockMask, state, queue>>
  BY DEF NotifyUnbound
<1>2. r \in Proc /\ state[r] \notin {"NONE", "NEW"}
  BY IInvParts DEF CalledBackIsHatched, TypeOK
<1>3. CASE Accepts(state, r, 1)
  <2>1. Moves(0) /\ oops' \in {"none", "queue full"}
    BY <1>1, <1>2, <1>3, DeliverType, HarmlessDeliver, IInvParts, AppendMoves, OverflowIsNoPanic
  <2>2. \A x \in Proc : state'[x] = state[x] \/ (state[x] = "BLOCKED" /\ state'[x] = "READY")
    BY <1>1, <1>2, <1>3, IInvParts, WokenStates
  <2>3. Consistent(state', lockMask')
    BY <1>1, <1>2, <1>3, IInvParts, WokenConsistent DEF LockType
  <2>4. CalledBackIsHatched'
    <3>1. loading' # KERNEL => state'[loading'] = "NEW"
      BY <1>0, <2>2, IInvParts DEF CalledBackIsHatched, TypeOK
    <3> QED BY <1>0, <2>2, <3>1, IInvParts DEF CalledBackIsHatched
  <2> QED BY <1>0, <2>1, <2>2, <2>3, <2>4, GoesOnKeeps
<1>4. CASE ~Accepts(state, r, 1)
  <2>1. oops' = "notice" /\ UNCHANGED <<lockMask, state, queue>>
    BY <1>1, <1>2, <1>4 DEF NoticeAlarm
  <2>2. OneOwner' /\ BlockedByOneLock' /\ NoProcPanic'
    <3>1. kernelState' = "RUNNING" /\ OneOwner'
      BY <1>0, <2>1, HeadTask, IInvParts, KernelGoesOn
    <3> QED BY <2>1, <3>1, IInvParts DEF BlockedByOneLock, NoProcPanic
  <2>3. StaleChoiceIsReviewed' /\ WaiterIsReady'
    BY <1>0, <2>1, IInvParts DEF StaleChoiceIsReviewed, Queued, WaiterIsReady
  <2>4. CalledBackIsHatched'
    BY <1>0, <2>1, IInvParts DEF CalledBackIsHatched
  <2>5. StoppedIsFinished'
    BY <1>0, <2>1, IInvParts DEF StoppedIsFinished
  <2> QED BY <2>2, <2>3, <2>4, <2>5 DEF IInv
<1> QED BY <1>3, <1>4

LEMMA ProcCleanupKeeps == ASSUME IInv, TypeOK', ProcCleanup PROVE IInv'
<1> DEFINE p == Subject
<1>0. /\ Executing("procCleanup")
      /\ state' = [state EXCEPT ![p] = "NONE"] /\ lockMask' = [lockMask EXCEPT ![p] = {}]
      /\ queue' = Tail(queue)
      /\ UNCHANGED <<kernelState, procCurrent, nextProcId, loading, listener, ipcListeners>>
  BY DEF ProcCleanup
<1>1. p \in Proc /\ state[p] = "FINISHED" /\ listener # p /\ p \notin ipcListeners
  <2>1. 1 \in 1 .. Len(queue) /\ queue[1].fn = "procCleanup" /\ queue[1].proc = p /\ p \in ProcOrKernel
    BY <1>0, HeadTask
  <2> QED BY <2>1, IInvParts DEF StoppedIsFinished
<1>2. oops' = "none"
  BY <1>1 DEF ProcCleanup, Alive
<1>3. Moves(1)
  BY <1>0, HeadTask, ReturnMoves
<1>4. \A x \in Proc : \/ x # p /\ state'[x] = state[x] /\ lockMask'[x] = lockMask[x]
                      \/ x = p /\ state'[x] = "NONE" /\ lockMask'[x] = {}
  BY <1>0, <1>1, IInvParts
<1>5. StaleChoiceIsReviewed'
  BY <1>0, <1>1, <1>3, <1>4, StaleReturn
<1>6. CalledBackIsHatched'
  <2>1. loading # KERNEL => loading \in Proc /\ loading # p
    BY <1>1, IInvParts DEF CalledBackIsHatched, TypeOK
  <2> QED BY <1>0, <1>1, <1>4, <2>1, IInvParts DEF CalledBackIsHatched
<1>7. Consistent(state', lockMask')
  BY <1>4, IInvParts DEF Consistent, LockType
<1> QED BY <1>0, <1>1, <1>2, <1>3, <1>4, <1>5, <1>6, <1>7, ReturnKeeps

LEMMA UnlockIfAbleKeeps == ASSUME IInv, TypeOK', UnlockIfAble PROVE IInv'
<1> DEFINE p == Subject
<1>0. /\ Executing("unlockIfAble") /\ p \in ProcOrKernel /\ queue # <<>>
      /\ UNCHANGED <<kernelState, procCurrent, nextProcId, loading, listener, ipcListeners>>
  BY HeadTask DEF UnlockIfAble
<1>1. /\ Moves(1) /\ oops' \in {"none", "queue full"}
      /\ \A x \in Proc : state'[x] = state[x] \/ (state[x] = "BLOCKED" /\ state'[x] = "READY")
      /\ Consistent(state', lockMask')
  <2>1. CASE awaiting[p] = KERNEL
    <3>1. /\ lockMask' = Unlocked(lockMask, p, "IPC") /\ state' = Woken(state, lockMask, p, "IPC")
          /\ queue' = Tail(queue) \o WakeTasks(state, lockMask, p, "IPC")
          /\ oops' \in {"none", "queue full"}
      BY <2>1, OverflowIsNoPanic DEF UnlockIfAble, Return
    <3>2. Moves(1)
      BY <1>0, <3>1, TasksType, HarmlessTasks, IInvParts, TailMoves
    <3>3. \A x \in Proc : state'[x] = state[x] \/ (state[x] = "BLOCKED" /\ state'[x] = "READY")
      BY <1>0, <3>1, IInvParts, WokenMoves
    <3>4. Consistent(state', lockMask')
      BY <1>0, <3>1, IInvParts, WokenConsistent DEF LockType
    <3> QED BY <3>1, <3>2, <3>3, <3>4
  <2>2. CASE awaiting[p] # KERNEL
    <3>1. /\ UNCHANGED <<lockMask, state>> /\ queue' = Tail(queue) \o <<>>
          /\ oops' \in {"none", "queue full"}
      BY <2>2, OverflowIsNoPanic DEF UnlockIfAble, Return
    <3>2. Moves(1)
      BY <1>0, <3>1, ReturnMoves
    <3> QED BY <3>1, <3>2, IInvParts DEF Consistent
  <2> QED BY <2>1, <2>2
<1>2. StaleChoiceIsReviewed'
  BY <1>0, <1>1, StaleReturn
<1>3. CalledBackIsHatched'
  <2>1. loading' # KERNEL => state'[loading'] = "NEW"
    BY <1>0, <1>1, IInvParts DEF CalledBackIsHatched, TypeOK
  <2> QED BY <1>0, <1>1, <2>1, IInvParts DEF CalledBackIsHatched
<1> QED BY <1>0, <1>1, <1>2, <1>3, ReturnKeeps

-----------------------------------------------------------------------------

LEMMA InitKeeps == Init => IInv
<1> SUFFICES ASSUME Init PROVE IInv
  OBVIOUS
<1>1. TypeOK
  BY InitType
<1>2. OneOwner /\ BlockedByOneLock /\ NoProcPanic
  BY DEF Init, OneOwner, BlockedByOneLock, NoProcPanic, LockType
<1>3. StaleChoiceIsReviewed
  BY DEF Init, StaleChoiceIsReviewed
<1>4. WaiterIsReady /\ StoppedIsFinished /\ CalledBackIsHatched
  BY DEF Init, WaiterIsReady, StoppedIsFinished, CalledBackIsHatched
<1> QED BY <1>1, <1>2, <1>3, <1>4 DEF IInv

LEMMA NextKeeps == IInv /\ [Next]_vars => IInv'
<1> SUFFICES ASSUME IInv, [Next]_vars PROVE IInv'
  OBVIOUS
<1>1. TypeOK'
  BY NextType, IInvParts
<1>2. CASE KernelStep
  BY <1>1, <1>2, SwitchKeeps, SchedEvaluateKeeps, WaitForEventKeeps, StartFailsKeeps,
     SpawnKeeps, AbandonSpawnedKeeps, HatchKeeps, ReturnedKeeps, FailReplyKeeps,
     NotifyUnboundKeeps, ProcCleanupKeeps, UnlockIfAbleKeeps DEF KernelStep
<1>3. CASE Tick \/ KeyPress
  BY <1>1, <1>3, TickKeeps, KeyPressKeeps
<1>4. CASE \E p \in Proc : UserStep(p)
  BY <1>1, <1>4, UserStepKeeps
<1>5. CASE UNCHANGED vars
  <2>1. UNCHANGED <<procVars, schedVars, queue, taskVars, userVars, oops>>
    BY <1>5 DEF vars
  <2>2. OneOwner' /\ BlockedByOneLock' /\ NoProcPanic'
    BY <2>1, IInvParts DEF OneOwner, BlockedByOneLock, NoProcPanic
  <2>3. StaleChoiceIsReviewed' /\ WaiterIsReady'
    BY <2>1, IInvParts DEF StaleChoiceIsReviewed, Queued, WaiterIsReady
  <2>4. StoppedIsFinished' /\ CalledBackIsHatched'
    BY <2>1, IInvParts DEF StoppedIsFinished, CalledBackIsHatched
  <2> QED BY <1>1, <2>2, <2>3, <2>4 DEF IInv
<1> QED BY <1>2, <1>3, <1>4, <1>5 DEF Next

\* IInv holds always: what each action of the kernel may assume of the process
\* table and of the queue when it starts, whatever ran before it.
THEOREM Safe == Spec => []IInv
<1>1. Init => IInv
  BY InitKeeps
<1>2. IInv /\ [Next]_vars => IInv'
  BY NextKeeps
<1> QED BY <1>1, <1>2, PTL DEF Spec

\* The CPU has one owner: the kernel, or the process that procCurrent, the
\* scheduler and the page directory name alike (OneOwner).
THEOREM CpuHasOneOwner == Spec => []OneOwner
<1>1. IInv => OneOwner
  BY DEF IInv
<1> QED BY <1>1, Safe, PTL

\* proc.c never panics: k_proc_switch, ISR_END, k_proc_lock, k_proc_stop,
\* k_proc_cleanup and k_proc_callback only meet states they expect (NoProcPanic).
THEOREM ProcNeverPanics == Spec => []NoProcPanic
<1>1. IInv => NoProcPanic
  BY DEF IInv
<1> QED BY <1>1, Safe, PTL

\* A live process is BLOCKED exactly while it holds a lock, and it holds one at
\* a time (BlockedByOneLock).
THEOREM OneLockAtATime == Spec => []BlockedByOneLock
<1>1. IInv => BlockedByOneLock
  BY DEF IInv
<1> QED BY <1>1, Safe, PTL

=============================================================================
