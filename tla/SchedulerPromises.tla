--------------------------- MODULE SchedulerPromises ---------------------------
(***************************************************************************)
(* What the kernel promises the processes, for every number of processes   *)
(* and of slots: that it implements ProcessTable, that no wakeup, no       *)
(* schedule and no reply is lost, that a slot is handed out clean, and     *)
(* that the queue is bounded.  The promises follow from what the kernel's  *)
(* queue owes to each process: OwedInv is inductive once IInv is known of  *)
(* both states of a step.  The bound follows from BurstInv, inductive with *)
(* the two: what may still come only falls while the kernel goes on.       *)
(***************************************************************************)
EXTENDS SchedulerProofs, FiniteSetTheorems

USE SchedulerAssumption
USE DEF KERNEL, Proc, ProcOrKernel, schedVars, procVars, taskVars, userVars

-----------------------------------------------------------------------------
(* Tasks that only have the schedule reviewed.                             *)

AllReviews(q) == \A i \in 1 .. Len(q) : q[i] = Evaluate

LEMMA ConcatReviews ==
  ASSUME NEW a \in Seq(Task), NEW b \in Seq(Task), AllReviews(a), AllReviews(b)
  PROVE a \o b \in Seq(Task) /\ AllReviews(a \o b) /\ Len(a \o b) = Len(a) + Len(b)
<1> DEFINE q == a \o b
<1>1. /\ q \in Seq(Task) /\ Len(q) = Len(a) + Len(b) /\ Len(a) \in Nat /\ Len(b) \in Nat
      /\ \A i \in 1 .. Len(q) : q[i] = IF i <= Len(a) THEN a[i] ELSE b[i - Len(a)]
  BY ConcatProperties, LenProperties
<1> HIDE DEF q
<1>2. ASSUME NEW i \in 1 .. Len(q) PROVE q[i] = Evaluate
  <2>1. CASE i <= Len(a)
    <3>1. i \in 1 .. Len(a) /\ q[i] = a[i]
      BY <1>1, <2>1
    <3> QED BY <3>1 DEF AllReviews
  <2>2. CASE ~ (i <= Len(a))
    <3>1. i - Len(a) \in 1 .. Len(b) /\ q[i] = b[i - Len(a)]
      BY <1>1, <2>2
    <3> QED BY <3>1 DEF AllReviews
  <2> QED BY <2>1, <2>2
<1>3. AllReviews(q)
  BY <1>2 DEF AllReviews
<1> QED BY <1>1, <1>3 DEF q

LEMMA ReviewTasks ==
  ASSUME NEW p \in ProcOrKernel, NEW st, NEW lm, NEW type
  PROVE /\ AllReviews(<<>>) /\ AllReviews(<<Evaluate>>) /\ AllReviews(LockTasks(st, p))
        /\ AllReviews(WakeTasks(st, lm, p, type))
        /\ <<>> \in Seq(Task) /\ <<Evaluate>> \in Seq(Task)
        /\ WakeTasks(st, lm, p, type) \in Seq(Task)
        /\ Len(<<>>) = 0 /\ Len(<<Evaluate>>) = 1
        /\ Wakes(st, lm, p, type) => Len(WakeTasks(st, lm, p, type)) = 1
        /\ ~Wakes(st, lm, p, type) => Len(WakeTasks(st, lm, p, type)) = 0
<1>1. /\ AllReviews(<<>>) /\ AllReviews(<<Evaluate>>) /\ <<>> \in Seq(Task) /\ <<Evaluate>> \in Seq(Task)
      /\ Len(<<>>) = 0 /\ Len(<<Evaluate>>) = 1
  BY EvaluateType DEF AllReviews
<1>2. AllReviews(LockTasks(st, p)) /\ AllReviews(WakeTasks(st, lm, p, type))
  BY <1>1 DEF LockTasks, WakeTasks
<1>3. /\ Wakes(st, lm, p, type) => Len(WakeTasks(st, lm, p, type)) = 1
      /\ ~Wakes(st, lm, p, type) => Len(WakeTasks(st, lm, p, type)) = 0
  BY <1>1 DEF WakeTasks
<1> QED BY <1>1, <1>2, <1>3, TasksType

LEMMA OneOrTwo == \A l \in Nat : l >= 1 /\ l <= 2 => l \in 0 .. 2 /\ l \in 1 .. 2
OBVIOUS

LEMMA DeliverReviews ==
  ASSUME NEW p \in ProcOrKernel, NEW st, NEW lm, NEW n \in Nat
  PROVE /\ DeliverTasks(st, lm, p, n) \in Seq(Task) /\ AllReviews(DeliverTasks(st, lm, p, n))
        /\ Len(DeliverTasks(st, lm, p, n)) \in Nat /\ Len(DeliverTasks(st, lm, p, n)) >= n
        /\ Len(DeliverTasks(st, lm, p, n)) <= n + 1
        /\ ~Wakes(st, lm, p, "EVENT") => Len(DeliverTasks(st, lm, p, n)) = n
<1> DEFINE w == WakeTasks(st, lm, p, "EVENT")
<1>1. /\ w \in Seq(Task) /\ AllReviews(w) /\ Len(w) \in 0 .. 1
      /\ ~Wakes(st, lm, p, "EVENT") => Len(w) = 0
  BY ReviewTasks
<1>2. Reviews(n) \in Seq(Task) /\ AllReviews(Reviews(n)) /\ Len(Reviews(n)) = n
  BY ReviewsType DEF AllReviews
<1> HIDE DEF w
<1>3. /\ w \o Reviews(n) \in Seq(Task) /\ AllReviews(w \o Reviews(n))
      /\ Len(w \o Reviews(n)) = Len(w) + n
  BY <1>1, <1>2, ConcatReviews
<1>4. DeliverTasks(st, lm, p, n) = w \o Reviews(n)
  BY DEF DeliverTasks, w
<1>5. \A l \in 0 .. 1 : l + n \in Nat /\ l + n >= n /\ l + n <= n + 1 /\ 0 + n = n
  OBVIOUS
<1>6. /\ Len(w \o Reviews(n)) \in Nat /\ Len(w \o Reviews(n)) >= n
      /\ Len(w \o Reviews(n)) <= n + 1
  BY <1>1, <1>3, <1>5
<1>7. ~Wakes(st, lm, p, "EVENT") => Len(w \o Reviews(n)) = n
  <2> SUFFICES ASSUME ~Wakes(st, lm, p, "EVENT") PROVE Len(w \o Reviews(n)) = n
    OBVIOUS
  <2>1. Len(w) = 0
    BY <1>1, Zenon
  <2> QED BY <1>3, <1>5, <2>1
<1> QED BY <1>3, <1>4, <1>6, <1>7, Zenon

-----------------------------------------------------------------------------
(* How the processes and the owner of the CPU change: a step of the        *)
(* process table, and but for bye and the cleanup of a slot the processes  *)
(* that are FINISHED stay the same.                                        *)

TableStep == Table!Next \/ UNCHANGED <<state, procCurrent>>
NobodyEnds == \A x \in Proc : state'[x] = "FINISHED" <=> state[x] = "FINISHED"

LEMMA ChangeStep ==
  ASSUME NEW p \in Proc, NEW to \in {"NONE", "NEW", "READY", "BLOCKED"},
         procCurrent = KERNEL, procCurrent' = KERNEL, state \in [Proc -> State],
         <<state[p], to>> \in Table!Step, state' = [state EXCEPT ![p] = to]
  PROVE TableStep /\ (state[p] # "FINISHED" => NobodyEnds)
<1>1. Table!Change(p, to)
  BY DEF Table!Change
<1>2. state[p] # "FINISHED" => NobodyEnds
  BY DEF NobodyEnds
<1> QED BY <1>1, <1>2 DEF TableStep, Table!Next

LEMMA StutterStep ==
  ASSUME UNCHANGED <<state, procCurrent>> PROVE TableStep /\ NobodyEnds
BY DEF TableStep, NobodyEnds

LEMMA GiveBackStep ==
  ASSUME NEW p \in Proc, NEW q \in Proc, NEW to \in {"READY", "BLOCKED", "FINISHED"},
         procCurrent = p, procCurrent' = KERNEL, q # p => state[q] = "BLOCKED",
         state' = [state EXCEPT ![q] = "READY", ![p] = to]
  PROVE TableStep
<1>1. Table!GiveBack(p, q, to)
  BY DEF Table!GiveBack
<1> QED BY <1>1 DEF TableStep, Table!Next

\* Waking h, if it is to be woken, in the kernel or on the way back to it.
LEMMA IsrEndStep ==
  ASSUME IInv, NEW st \in [Proc -> State], NEW q \in Seq(Task), IsrEnd(st, q, "none"),
         NEW h \in Proc, st = state \/ (state[h] = "BLOCKED" /\ st = [state EXCEPT ![h] = "READY"]),
         q = <<>> => st = state
  PROVE TableStep /\ NobodyEnds
<1>0. /\ TypeOK /\ OneOwner /\ "none" \in Oops /\ state \in [Proc -> State]
  BY IInvParts DEF Oops
<1>1. kernelState = "READY" =>
        procCurrent \in Proc /\ state[procCurrent] = "RUNNING" /\ st[procCurrent] = "RUNNING"
  BY <1>0, Owner
<1>2. CASE /\ kernelState = "RUNNING" /\ procCurrent = KERNEL /\ procCurrent' = KERNEL /\ state' = st
  <2>1. CASE st = state
    BY <1>2, <2>1, StutterStep
  <2>2. CASE state[h] = "BLOCKED" /\ st = [state EXCEPT ![h] = "READY"]
    <3>1. <<state[h], "READY">> \in Table!Step
      BY <2>2 DEF Table!Step
    <3> QED BY <1>0, <1>2, <2>2, <3>1, ChangeStep
  <2> QED BY <2>1, <2>2
<1>3. CASE procCurrent' = procCurrent /\ q = <<>> /\ state' = st
  BY <1>3, StutterStep
<1>4. CASE /\ kernelState = "READY" /\ procCurrent \in Proc /\ procCurrent' = KERNEL
           /\ state' = [st EXCEPT ![procCurrent] = IF @ = "RUNNING" THEN "READY" ELSE @]
  <2> DEFINE p == procCurrent
  <2>1. state' = [st EXCEPT ![p] = "READY"]
    BY <1>1, <1>4
  <2>2. PICK g \in Proc : /\ g # p => state[g] = "BLOCKED"
                          /\ state' = [state EXCEPT ![g] = "READY", ![p] = "READY"]
    <3>1. CASE st = state
      BY <1>0, <1>4, <2>1, <3>1
    <3>2. CASE state[h] = "BLOCKED" /\ st = [state EXCEPT ![h] = "READY"]
      BY <1>0, <1>4, <2>1, <3>2
    <3> QED BY <3>1, <3>2
  <2>3. TableStep
    BY <1>4, <2>2, GiveBackStep
  <2>4. NobodyEnds
    BY <1>0, <1>1, <1>4, <2>2 DEF NobodyEnds
  <2> QED BY <2>3, <2>4
<1>5. kernelState = "READY" => st[procCurrent] \in {"RUNNING", "BLOCKED", "FINISHED"}
  BY <1>1
<1> QED BY <1>0, <1>2, <1>3, <1>4, <1>5, IsrEndCases

LEMMA DeliverStep ==
  ASSUME IInv, NEW h \in Proc, NEW n \in Nat \ {0},
         IsrEnd(Woken(state, lockMask, h, "EVENT"), queue \o DeliverTasks(state, lockMask, h, n), "none")
  PROVE TableStep /\ NobodyEnds
<1> DEFINE st == Woken(state, lockMask, h, "EVENT")
           tasks == DeliverTasks(state, lockMask, h, n)
           q == queue \o tasks
<1>1. queue \in Seq(Task) /\ tasks \in Seq(Task) /\ Len(tasks) >= 1
  BY IInvParts, DeliverReviews
<1>2. st \in [Proc -> State]
  BY IInvParts, WokenType
<1>3. st = state \/ (state[h] = "BLOCKED" /\ st = [state EXCEPT ![h] = "READY"])
  BY DEF Woken, Wakes
<1> HIDE DEF tasks
<1>4. q \in Seq(Task) /\ q # <<>>
  <2>1. q \in Seq(Task) /\ Len(q) >= 1
    BY <1>1, ConcatProperties, LenProperties
  <2> QED BY <2>1, EmptySeq
<1>5. IsrEnd(st, q, "none")
  BY DEF tasks
<1> HIDE DEF st, q
<1> QED BY <1>2, <1>3, <1>4, <1>5, IsrEndStep

LEMMA InterruptStep == ASSUME IInv, IInv', Tick \/ KeyPress PROVE TableStep /\ NobodyEnds
<1>0. 0 \in Proc /\ state \in [Proc -> State]
  BY IInvParts
<1>1. CASE Tick
  <2> DEFINE q == IF executionTimeCounter + 1 < GRANULARITY_MS
                  THEN queue ELSE Append(queue, Evaluate)
  <2>1. q \in Seq(Task) /\ IsrEnd(state, q, "none")
    BY <1>1, IInvParts, EvaluateType, AppendProperties DEF Tick
  <2> HIDE DEF q
  <2> QED BY <1>0, <2>1, IsrEndStep
<1>2. CASE KeyPress /\ KeyAlarm = "none"
  <2>1. listener \in Proc /\ 1 \in Nat \ {0}
    BY <1>2, IInvParts DEF KeyAlarm, TypeOK
  <2> QED BY <1>2, <2>1, DeliverStep DEF KeyPress
<1>3. CASE KeyPress /\ KeyAlarm # "none"
  BY <1>3, StutterStep DEF KeyPress
<1> QED BY <1>1, <1>2, <1>3

\* The calls after which the caller is still the process it was.
LEMMA CallStep ==
  ASSUME IInv, NEW p \in Proc,
         \/ CallWaitForEvent(p) \/ CallStart(p) \/ Yield(p)
         \/ GetItem(p) \/ IpcRegister(p) \/ DevListen(p) \/ DevRelease(p)
  PROVE TableStep /\ NobodyEnds
<1>1. CASE CallWaitForEvent(p) \/ CallStart(p) \/ Yield(p)
  <2>1. PICK t \in Task : IsrEnd(state, Append(queue, t), "none")
    BY <1>1, JobType, EvaluateType DEF CallWaitForEvent, CallStart, Dispatch, Yield, Function
  <2>2. Append(queue, t) \in Seq(Task) /\ Append(queue, t) # <<>>
    BY IInvParts, AppendProperties
  <2> QED BY <2>1, <2>2, IInvParts, IsrEndStep
<1>2. CASE GetItem(p) \/ IpcRegister(p) \/ DevListen(p) \/ DevRelease(p)
  BY <1>2, StutterStep DEF GetItem, IpcRegister, DevListen, DevRelease, Answered
<1> QED BY <1>1, <1>2

LEMMA IpcSendStep ==
  ASSUME IInv, NEW p \in Proc, NEW h \in Proc, NEW n \in 1 .. 2, IpcSend(p, h, n)
  PROVE TableStep /\ NobodyEnds
<1>1. CASE Accepts(state, h, n)
  BY <1>1, DeliverStep DEF IpcSend
<1>2. CASE ~Accepts(state, h, n)
  <2>1. state[h] \notin {"NONE", "NEW"}
    BY IInvParts DEF IpcSend, CalledBackIsHatched
  <2>2. IsrEnd(state, queue, "none")
    BY <1>2, <2>1 DEF IpcSend
  <2> QED BY <2>2, IInvParts, IsrEndStep
<1> QED BY <1>1, <1>2

\* What a reply does to the processes, and the tasks it queues: with a notice, the
\* sender is woken once at most, as it holds one of the locks only.
LEMMA IpcReplyShape ==
  ASSUME IInv, NEW p \in Proc, NEW s \in Proc, NEW n \in 0 .. 1, IpcReply(p, s, n)
  PROVE \E st \in [Proc -> State], tasks \in Seq(Task) :
          /\ IsrEnd(st, queue \o tasks, "none")
          /\ st = state \/ (state[s] = "BLOCKED" /\ st = [state EXCEPT ![s] = "READY"])
          /\ st # state => Len(tasks) > 0
          /\ AllReviews(tasks) /\ Len(tasks) <= 3
<1> DEFINE told == n = 1
           lm == IF told THEN Unlocked(lockMask, s, "EVENT") ELSE lockMask
           st0 == IF told THEN Woken(state, lockMask, s, "EVENT") ELSE state
           notice == IF told THEN DeliverTasks(state, lockMask, s, 1) ELSE <<>>
           st == Woken(st0, lm, s, "IPC")
           wake == WakeTasks(st0, lm, s, "IPC")
           tasks == notice \o wake
<1>0. state \in [Proc -> State] /\ lockMask \in [Proc -> SUBSET LockType]
  BY DEF IInv, TypeOK
<1>1. IsrEnd(st, queue \o tasks, "none")
  BY DEF IpcReply
<1>2. /\ st0 \in [Proc -> State] /\ lm \in [Proc -> SUBSET LockType]
      /\ st0 = state \/ (state[s] = "BLOCKED" /\ st0 = [state EXCEPT ![s] = "READY"])
      /\ st0 # state => told
  BY <1>0, ReplyNoticeType DEF Woken, Wakes
<1>3. /\ notice \in Seq(Task) /\ AllReviews(notice) /\ Len(notice) \in 0 .. 2
      /\ told => Len(notice) >= 1
  <2>1. CASE told
    <3> DEFINE d == DeliverTasks(state, lockMask, s, 1)
    <3>1. d \in Seq(Task) /\ AllReviews(d) /\ Len(d) \in Nat /\ Len(d) >= 1 /\ Len(d) <= 2
      BY DeliverReviews
    <3>2. notice = d
      BY <2>1
    <3> HIDE DEF d, notice, told
    <3>3. Len(d) \in 0 .. 2
      BY <3>1, OneOrTwo, Zenon
    <3> QED BY <3>1, <3>2, <3>3, Zenon
  <2>2. CASE ~told
    <3>1. notice = <<>>
      BY <2>2
    <3> HIDE DEF notice, told
    <3> QED BY <2>2, <3>1, ReviewTasks
  <2> QED BY <2>1, <2>2
<1> HIDE DEF lm, st0, notice
<1>4. /\ wake \in Seq(Task) /\ AllReviews(wake) /\ Len(wake) \in 0 .. 1
      /\ Wakes(st0, lm, s, "IPC") => Len(wake) = 1
  BY ReviewTasks
<1>5. /\ st \in [Proc -> State]
      /\ st = state \/ (state[s] = "BLOCKED" /\ st = [state EXCEPT ![s] = "READY"])
      /\ st # state => told \/ Wakes(st0, lm, s, "IPC")
  <2>1. CASE Wakes(st0, lm, s, "IPC")
    <3>1. st0[s] = "BLOCKED" /\ st = [st0 EXCEPT ![s] = "READY"]
      BY <2>1 DEF Woken, Wakes
    <3>2. st0 = state
      BY <1>0, <1>2, <3>1
    <3> QED BY <1>0, <2>1, <3>1, <3>2 DEF State
  <2>2. CASE ~Wakes(st0, lm, s, "IPC")
    <3>1. st = st0
      BY <2>2 DEF Woken
    <3> QED BY <1>2, <3>1
  <2> QED BY <2>1, <2>2
<1> HIDE DEF st, wake, told
<1>6. tasks \in Seq(Task) /\ AllReviews(tasks) /\ Len(tasks) = Len(notice) + Len(wake)
  BY <1>3, <1>4, ConcatReviews
<1> HIDE DEF tasks
<1>7. Len(tasks) <= 3 /\ (st # state => Len(tasks) > 0)
  <2> DEFINE a == Len(notice)  b == Len(wake)  c == Len(tasks)
  <2>1. a \in 0 .. 2 /\ b \in 0 .. 1 /\ c = a + b
    BY <1>3, <1>4, <1>6
  <2>2. told => a >= 1
    BY <1>3
  <2>3. Wakes(st0, lm, s, "IPC") => b = 1
    BY <1>4
  <2>4. st # state => told \/ Wakes(st0, lm, s, "IPC")
    BY <1>5
  <2> HIDE DEF a, b, c
  <2>5. st # state => a >= 1 \/ b = 1
    BY <2>2, <2>3, <2>4, Zenon
  <2>6. c <= 3 /\ (st # state => c > 0)
    BY <2>1, <2>5
  <2> QED BY <2>6 DEF c
<1> QED BY <1>1, <1>5, <1>6, <1>7

LEMMA IpcReplyStep ==
  ASSUME IInv, NEW p \in Proc, NEW s \in Proc, NEW n \in 0 .. 1, IpcReply(p, s, n)
  PROVE TableStep /\ NobodyEnds
<1>1. PICK st \in [Proc -> State], tasks \in Seq(Task) :
        /\ IsrEnd(st, queue \o tasks, "none")
        /\ st = state \/ (state[s] = "BLOCKED" /\ st = [state EXCEPT ![s] = "READY"])
        /\ st # state => Len(tasks) > 0
  BY IpcReplyShape
<1> DEFINE q == queue \o tasks
<1>2. q \in Seq(Task) /\ (q = <<>> => st = state)
  <2>1. q \in Seq(Task) /\ Len(q) = Len(queue) + Len(tasks) /\ Len(queue) \in Nat /\ Len(tasks) \in Nat
    BY IInvParts, ConcatProperties, LenProperties
  <2> HIDE DEF q
  <2> QED BY <1>1, <2>1, EmptySeq
<1>3. IsrEnd(st, q, "none")
  BY <1>1
<1> HIDE DEF q
<1> QED BY <1>1, <1>2, <1>3, IsrEndStep

LEMMA ByeStep == ASSUME IInv, NEW p \in Proc, Bye(p) PROVE TableStep
<1>0. /\ Running(p) /\ kernelState = "READY" /\ procCurrent = p /\ queue = <<>>
      /\ state[p] = "RUNNING" /\ state \in [Proc -> State] /\ TypeOK /\ OneOwner
  BY IInvParts, Owner DEF Bye, Running
<1> DEFINE q == ByeTasks(p)
           st == [state EXCEPT ![p] = "FINISHED"]
<1>1. q \in Seq(Task) /\ q # <<>> /\ queue \o q = q
  BY <1>0, TasksType, ConcatEmptySeq DEF ByeTasks
<1>2. st \in [Proc -> State] /\ st[p] = "FINISHED" /\ IsrEnd(st, q, "none") /\ "none" \in Oops
  BY <1>0, <1>1 DEF Bye, Alive, State, Oops
<1> HIDE DEF q
<1>3. procCurrent' = KERNEL /\ state' = [st EXCEPT ![p] = IF @ = "RUNNING" THEN "READY" ELSE @]
  BY <1>0, <1>1, <1>2, IsrEndCases
<1>4. state' = [state EXCEPT ![p] = "READY", ![p] = "FINISHED"]
  BY <1>0, <1>2, <1>3
<1> QED BY <1>0, <1>3, <1>4, GiveBackStep

LEMMA ConcatTasks ==
  ASSUME NEW a \in Task, NEW b \in Task
  PROVE <<a>> \o <<b>> = <<a, b>> /\ <<a, b>> \in Seq(Task) /\ <<a, b>> # <<>>
<1>1. /\ <<a>> \in Seq(Task) /\ <<b>> \in Seq(Task) /\ <<a, b>> \in Seq(Task) /\ <<a, b>> # <<>>
      /\ Len(<<a>>) = 1 /\ Len(<<b>>) = 1 /\ Len(<<a, b>>) = 2
  OBVIOUS
<1> DEFINE q == <<a>> \o <<b>>
           t == <<a, b>>
<1>2. q \in Seq(Task) /\ Len(q) = 2 /\ q[1] = a /\ q[2] = b
  BY <1>1, ConcatProperties
<1>3. t \in Seq(Task) /\ Len(t) = 2 /\ t[1] = a /\ t[2] = b
  BY <1>1
<1> HIDE DEF q, t
<1>4. \A i \in 1 .. Len(q) : q[i] = t[i]
  BY <1>2, <1>3
<1>5. q = t
  BY <1>2, <1>3, <1>4, SeqEqual
<1> QED BY <1>1, <1>5 DEF q, t

\* The caller is BLOCKED, and the handler woken: they are not the same process.
LEMMA IpcSendAwaitingShape ==
  ASSUME IInv, NEW p \in Proc, NEW h \in Proc, NEW n \in 1 .. 2, IpcSendAwaiting(p, h, n)
  PROVE /\ kernelState = "READY" /\ kernelState' = "RUNNING" /\ procCurrent = p /\ procCurrent' = KERNEL
        /\ queue = <<>> /\ state[p] = "RUNNING" /\ lockMask[p] = {}
        /\ \E g \in Proc : /\ g # p => state[g] = "BLOCKED"
                           /\ state' = [state EXCEPT ![g] = "READY", ![p] = "BLOCKED"]
        /\ \/ /\ Alive(state', h) /\ awaiting' = [awaiting EXCEPT ![p] = h]
              /\ pending' = [pending EXCEPT ![h] = @ + n] /\ "EVENT" \notin lockMask'[h]
              /\ AllReviews(queue') /\ Len(queue') \in 2 .. 4
           \/ UNCHANGED <<awaiting, pending>> /\ queue' = <<Evaluate, Job("unlockIfAble", p)>>
        /\ \A x \in Proc : "IPC" \in lockMask'[x] <=> x = p \/ "IPC" \in lockMask[x]
        /\ \A x \in Proc : "EVENT" \in lockMask'[x] => "EVENT" \in lockMask[x]
<1> DEFINE st0 == [state EXCEPT ![p] = "BLOCKED"]
           lm0 == [lockMask EXCEPT ![p] = @ \cup {"IPC"}]
           locking == queue \o LockTasks(state, p)
<1>0. /\ Running(p) /\ kernelState = "READY" /\ procCurrent = p /\ queue = <<>>
      /\ state[p] = "RUNNING" /\ state \in [Proc -> State] /\ TypeOK /\ OneOwner
      /\ lockMask[p] = {} /\ lockMask \in [Proc -> SUBSET LockType] /\ "none" \in Oops
      /\ state[h] \notin {"NONE", "NEW"}
  BY IInvParts, Owner DEF IpcSendAwaiting, Running, BlockedByOneLock, CalledBackIsHatched, Oops
<1>1. /\ st0 \in [Proc -> State] /\ lm0 \in [Proc -> SUBSET LockType]
      /\ st0[p] = "BLOCKED" /\ lm0[p] = {"IPC"}
      /\ \A x \in Proc : x # p => st0[x] = state[x] /\ lm0[x] = lockMask[x]
  BY <1>0 DEF State, LockType
<1>2. locking = <<Evaluate>> /\ Evaluate \in Task
  BY <1>0, EvaluateType DEF LockTasks
<1>3. CASE Accepts(st0, h, n)
  <2> DEFINE st == Woken(st0, lm0, h, "EVENT")
             tasks == DeliverTasks(st0, lm0, h, n)
             q == locking \o tasks
  <2>1. /\ awaiting' = [awaiting EXCEPT ![p] = h] /\ pending' = [pending EXCEPT ![h] = @ + n]
        /\ lockMask' = Unlocked(lm0, h, "EVENT") /\ IsrEnd(st, q, "none")
    BY <1>3 DEF IpcSendAwaiting
  <2>2. \/ st = st0
        \/ h # p /\ st = [st0 EXCEPT ![h] = "READY"] /\ state[h] = "BLOCKED"
    <3> HIDE DEF st0, lm0
    <3>1. CASE Wakes(st0, lm0, h, "EVENT")
      <4>1. h # p
        BY <1>1, <3>1 DEF Wakes
      <4> QED BY <1>1, <3>1, <4>1 DEF Woken, Wakes
    <3>2. CASE ~Wakes(st0, lm0, h, "EVENT")
      BY <3>2 DEF Woken
    <3> QED BY <3>1, <3>2
  <2>9. AllReviews(q) /\ q \in Seq(Task) /\ Len(q) \in 2 .. 4
    <3>1. /\ tasks \in Seq(Task) /\ AllReviews(tasks) /\ Len(tasks) \in Nat
          /\ Len(tasks) >= n /\ Len(tasks) <= n + 1
      BY DeliverReviews
    <3>2. locking \in Seq(Task) /\ AllReviews(locking) /\ Len(locking) = 1
      <4>1. <<Evaluate>> \in Seq(Task) /\ AllReviews(<<Evaluate>>) /\ Len(<<Evaluate>>) = 1
        BY ReviewTasks
      <4> HIDE DEF locking
      <4> QED BY <1>2, <4>1
    <3> HIDE DEF tasks, locking
    <3>3. q \in Seq(Task) /\ AllReviews(q) /\ Len(q) = 1 + Len(tasks)
      BY <3>1, <3>2, ConcatReviews
    <3> QED BY <3>1, <3>3
  <2>3. q # <<>> /\ st \in [Proc -> State] /\ st[p] = "BLOCKED"
    <3> HIDE DEF q
    <3>1. q # <<>>
      BY <2>9, EmptySeq
    <3>2. st \in [Proc -> State] /\ st[p] = "BLOCKED"
      <4> HIDE DEF st, st0, lm0
      <4> QED BY <1>1, <2>2 DEF State
    <3> QED BY <3>1, <3>2
  <2> HIDE DEF q, st
  <2>4. /\ queue' = q /\ kernelState' = "RUNNING" /\ procCurrent' = KERNEL
        /\ state' = [st EXCEPT ![p] = IF @ = "RUNNING" THEN "READY" ELSE @]
    BY <1>0, <2>1, <2>3, <2>9, IsrEndCases
  <2>5. state' = st
    BY <2>3, <2>4
  <2>6. \E g \in Proc : /\ g # p => state[g] = "BLOCKED"
                        /\ state' = [state EXCEPT ![g] = "READY", ![p] = "BLOCKED"]
    <3>1. CASE st = st0
      <4>1. state' = [state EXCEPT ![p] = "READY", ![p] = "BLOCKED"]
        BY <1>0, <2>5, <3>1
      <4> QED BY <4>1
    <3>2. CASE h # p /\ st = [st0 EXCEPT ![h] = "READY"] /\ state[h] = "BLOCKED"
      <4>1. state' = [state EXCEPT ![h] = "READY", ![p] = "BLOCKED"]
        BY <1>0, <2>5, <3>2
      <4> QED BY <3>2, <4>1
    <3> QED BY <2>2, <3>1, <3>2
  <2>7. Alive(state', h)
    <3>1. Alive(st0, h)
      BY <1>3 DEF Accepts
    <3>2. st[h] = st0[h] \/ st[h] = "READY"
      BY <1>1, <2>2
    <3> QED BY <2>5, <3>1, <3>2 DEF Alive
  <2>8. \A x \in Proc : /\ "IPC" \in lockMask'[x] <=> "IPC" \in lm0[x]
                        /\ "EVENT" \in lockMask'[x] => "EVENT" \in lm0[x] /\ x # h
    <3> HIDE DEF lm0
    <3> QED BY <1>1, <2>1 DEF Unlocked
  <2> QED BY <1>0, <1>1, <2>1, <2>2, <2>4, <2>6, <2>7, <2>8, <2>9
<1>4. CASE ~Accepts(st0, h, n)
  <2> DEFINE q == locking \o Undelivered(p)
  <2>1. q = <<Evaluate, Job("unlockIfAble", p)>> /\ q \in Seq(Task)
    <3> DEFINE t == Job("unlockIfAble", p)
    <3>1. t \in Task /\ q = <<Evaluate>> \o <<t>>
      BY <1>2, JobType DEF Undelivered, Function
    <3> HIDE DEF t
    <3>2. <<Evaluate>> \o <<t>> = <<Evaluate, t>> /\ <<Evaluate, t>> \in Seq(Task)
      BY <1>2, <3>1, ConcatTasks
    <3>3. q = <<Evaluate, t>> /\ q \in Seq(Task)
      BY <3>1, <3>2, Zenon
    <3> QED BY <3>3, Zenon DEF t
  <2>2. IsrEnd(st0, q, "none") /\ UNCHANGED <<awaiting, pending>> /\ lockMask' = lm0
    <3>1. Lockable(state, p) /\ st0[h] \notin {"NONE", "NEW"}
      BY <1>0 DEF Lockable, Alive
    <3> QED BY <1>4, <3>1 DEF IpcSendAwaiting
  <2>3. q # <<>>
    BY <2>1
  <2> HIDE DEF q, st0
  <2>4. /\ queue' = q /\ kernelState' = "RUNNING" /\ procCurrent' = KERNEL
        /\ state' = [st0 EXCEPT ![p] = IF @ = "RUNNING" THEN "READY" ELSE @]
    BY <1>0, <1>1, <2>1, <2>2, <2>3, IsrEndCases
  <2>5. state' = [state EXCEPT ![p] = "READY", ![p] = "BLOCKED"]
    BY <1>0, <1>1, <2>4 DEF st0
  <2> QED BY <1>0, <1>1, <2>1, <2>2, <2>4, <2>5
<1> QED BY <1>3, <1>4

LEMMA IpcSendAwaitingStep ==
  ASSUME IInv, NEW p \in Proc, NEW h \in Proc, NEW n \in 1 .. 2, IpcSendAwaiting(p, h, n)
  PROVE TableStep /\ NobodyEnds
<1>1. PICK g \in Proc : /\ g # p => state[g] = "BLOCKED"
                        /\ state' = [state EXCEPT ![g] = "READY", ![p] = "BLOCKED"]
  BY IpcSendAwaitingShape
<1>2. procCurrent = p /\ procCurrent' = KERNEL /\ state \in [Proc -> State]
  BY IpcSendAwaitingShape, IInvParts
<1>3. TableStep
  BY <1>1, <1>2, GiveBackStep
<1>4. NobodyEnds
  <2>1. state[p] = "RUNNING"
    BY IpcSendAwaitingShape
  <2> QED BY <1>1, <1>2, <2>1 DEF NobodyEnds
<1> QED BY <1>3, <1>4

LEMMA SwitchStep == ASSUME IInv, IInv', Switch PROVE TableStep /\ NobodyEnds
<1>1. /\ nextProcId \in Proc /\ state' = [state EXCEPT ![nextProcId] = "RUNNING"]
      /\ procCurrent' = nextProcId /\ procCurrent = KERNEL /\ state \in [Proc -> State]
      /\ state[nextProcId] = "READY"
  BY IInvParts, KernelOwns DEF Switch, SwitchTo, Drained, TypeOK, StaleChoiceIsReviewed, Queued
<1>2. Table!Run(nextProcId)
  BY <1>1 DEF Table!Run
<1>3. TableStep
  BY <1>1, <1>2 DEF TableStep, Table!Next
<1> QED BY <1>1, <1>3 DEF NobodyEnds

LEMMA InKernel ==
  ASSUME IInv, NEW fn, Executing(fn), UNCHANGED <<kernelState, procCurrent>>
  PROVE procCurrent = KERNEL /\ procCurrent' = KERNEL /\ state \in [Proc -> State]
BY IInvParts, KernelOwns DEF Executing

LEMMA StartStep ==
  ASSUME IInv, IInv', StartFails \/ Spawn \/ AbandonSpawned \/ Hatch PROVE TableStep /\ NobodyEnds
<1>0. procCurrent = KERNEL /\ procCurrent' = KERNEL /\ state \in [Proc -> State]
  BY InKernel DEF StartFails, Spawn, AbandonSpawned, Hatch
<1>1. CASE StartFails
  BY <1>1, StutterStep DEF StartFails
<1>2. CASE Spawn
  <2>1. PICK p \in Proc : state[p] = "NONE" /\ state' = [state EXCEPT ![p] = "NEW"]
    BY <1>2 DEF Spawn
  <2>2. <<state[p], "NEW">> \in Table!Step
    BY <2>1 DEF Table!Step
  <2> QED BY <1>0, <2>1, <2>2, ChangeStep
<1>3. CASE AbandonSpawned
  <2>1. loading \in Proc /\ state[loading] = "NEW" /\ state' = [state EXCEPT ![loading] = "NONE"]
    BY <1>3, IInvParts DEF AbandonSpawned, TypeOK, CalledBackIsHatched
  <2>2. <<state[loading], "NONE">> \in Table!Step
    BY <2>1 DEF Table!Step
  <2> QED BY <1>0, <2>1, <2>2, ChangeStep
<1>4. CASE Hatch
  <2>1. loading \in Proc /\ state[loading] = "NEW" /\ state' = [state EXCEPT ![loading] = "READY"]
    BY <1>4, IInvParts DEF Hatch, TypeOK, CalledBackIsHatched
  <2>2. <<state[loading], "READY">> \in Table!Step
    BY <2>1 DEF Table!Step
  <2> QED BY <1>0, <2>1, <2>2, ChangeStep
<1> QED BY <1>1, <1>2, <1>3, <1>4

LEMMA WokenStep ==
  ASSUME procCurrent = KERNEL, procCurrent' = KERNEL, state \in [Proc -> State],
         NEW s \in Proc, NEW type, state' = Woken(state, lockMask, s, type)
  PROVE TableStep /\ NobodyEnds
<1>1. CASE Wakes(state, lockMask, s, type)
  <2>1. /\ state' = [state EXCEPT ![s] = "READY"] /\ <<state[s], "READY">> \in Table!Step
        /\ state[s] # "FINISHED"
    BY <1>1 DEF Woken, Wakes, Table!Step
  <2> QED BY <2>1, ChangeStep
<1>2. CASE ~Wakes(state, lockMask, s, type)
  BY <1>2, StutterStep DEF Woken
<1> QED BY <1>1, <1>2

\* The process of the function that runs, as StoppedIsFinished and WaiterIsReady tell.
LEMMA WaiterAtHead ==
  ASSUME IInv, Executing("waitForEvent")
  PROVE Subject \in Proc /\ state[Subject] = "READY" /\ lockMask[Subject] = {}
<1>1. 1 \in 1 .. Len(queue) /\ queue[1].fn = "waitForEvent" /\ queue[1].proc = Subject
      /\ Subject \in ProcOrKernel
  BY HeadTask
<1>2. Subject # KERNEL /\ state[Subject] = "READY"
  BY <1>1, IInvParts DEF WaiterIsReady
<1> QED BY <1>1, <1>2, IInvParts DEF BlockedByOneLock

LEMMA StoppedAtHead ==
  ASSUME IInv, Executing("procCleanup") PROVE Subject \in Proc /\ state[Subject] = "FINISHED"
<1>1. 1 \in 1 .. Len(queue) /\ queue[1].fn = "procCleanup" /\ queue[1].proc = Subject
      /\ Subject \in ProcOrKernel
  BY HeadTask
<1> QED BY <1>1, IInvParts DEF StoppedIsFinished

LEMMA FunctionStep ==
  ASSUME IInv, IInv',
         \/ SchedEvaluate \/ WaitForEvent \/ DevCleanup \/ FailReply \/ NotifyUnbound
         \/ IpcCleanup \/ RunloopCleanup \/ ProcCleanup \/ UnlockIfAble
  PROVE TableStep /\ (NobodyEnds \/ ProcCleanup)
<1>0. procCurrent = KERNEL /\ procCurrent' = KERNEL /\ state \in [Proc -> State]
  <2>1. PICK fn \in Function : Executing(fn)
    BY DEF SchedEvaluate, WaitForEvent, DevCleanup, FailReply, NotifyUnbound, IpcCleanup,
           RunloopCleanup, ProcCleanup, UnlockIfAble, Function
  <2>2. UNCHANGED <<kernelState, procCurrent>>
    BY DEF SchedEvaluate, WaitForEvent, DevCleanup, FailReply, NotifyUnbound, IpcCleanup,
           RunloopCleanup, ProcCleanup, UnlockIfAble
  <2> QED BY <2>1, <2>2, InKernel
<1>1. CASE SchedEvaluate \/ DevCleanup \/ IpcCleanup \/ RunloopCleanup
  BY <1>1, StutterStep DEF SchedEvaluate, DevCleanup, IpcCleanup, RunloopCleanup
<1>2. CASE WaitForEvent
  <2>1. Subject \in Proc /\ state[Subject] = "READY"
    BY <1>2, WaiterAtHead DEF WaitForEvent
  <2>2. CASE RunloopEmpty(Subject)
    <3>1. state' = [state EXCEPT ![Subject] = "BLOCKED"]
      BY <1>2, <2>2 DEF WaitForEvent
    <3>2. <<state[Subject], "BLOCKED">> \in Table!Step
      BY <2>1 DEF Table!Step
    <3> QED BY <1>0, <2>1, <3>1, <3>2, ChangeStep
  <2>3. CASE ~RunloopEmpty(Subject)
    <3>1. state' = state
      BY <1>2, <2>3 DEF WaitForEvent
    <3> QED BY <1>0, <3>1, StutterStep
  <2> QED BY <2>2, <2>3
<1>3. CASE FailReply
  <2>1. PICK s \in Proc : state' = Woken(state, lockMask, s, "IPC")
    BY <1>3 DEF FailReply
  <2> QED BY <1>0, <2>1, WokenStep
<1>4. CASE ProcCleanup
  <2>1. Subject \in Proc /\ state[Subject] = "FINISHED" /\ state' = [state EXCEPT ![Subject] = "NONE"]
    BY <1>4, StoppedAtHead DEF ProcCleanup
  <2>2. <<state[Subject], "NONE">> \in Table!Step
    BY <2>1 DEF Table!Step
  <2> QED BY <1>0, <1>4, <2>1, <2>2, ChangeStep
<1>5. CASE UnlockIfAble
  <2>1. CASE awaiting[Subject] = KERNEL
    <3>1. state' = Woken(state, lockMask, Subject, "IPC")
      BY <1>5, <2>1 DEF UnlockIfAble
    <3>2. CASE Subject \in Proc
      BY <1>0, <3>1, <3>2, WokenStep
    <3>3. CASE Subject \notin Proc
      <4>1. Woken(state, lockMask, Subject, "IPC") = state
        BY <1>0, <3>3 DEF Woken
      <4> QED BY <1>0, <3>1, <4>1, StutterStep
    <3> QED BY <3>2, <3>3
  <2>2. CASE awaiting[Subject] # KERNEL
    <3>1. state' = state
      BY <1>5, <2>2 DEF UnlockIfAble
    <3> QED BY <1>0, <3>1, StutterStep
  <2> QED BY <2>1, <2>2
<1>6. CASE NotifyUnbound
  <2>1. PICK r \in Proc : state' = Woken(state, lockMask, r, "EVENT") \/ state' = state
    BY <1>6, IInvParts DEF NotifyUnbound, TypeOK
  <2> QED BY <1>0, <2>1, WokenStep, StutterStep
<1> QED BY <1>1, <1>2, <1>3, <1>4, <1>5, <1>6

LEMMA NextStep ==
  ASSUME IInv, IInv', Next
  PROVE /\ TableStep
        /\ NobodyEnds \/ ProcCleanup \/ \E p \in Proc : Bye(p)
<1>1. CASE KernelStep
  BY <1>1, SwitchStep, StartStep, FunctionStep DEF KernelStep
<1>2. CASE Tick \/ KeyPress
  BY <1>2, InterruptStep
<1>3. ASSUME NEW p \in Proc, UserStep(p)
      PROVE TableStep /\ (NobodyEnds \/ \E x \in Proc : Bye(x))
  <2>1. CASE UnbindPanics(p)
    BY <2>1, StutterStep DEF UnbindPanics
  <2> QED BY <1>3, <2>1, CallStep, ByeStep, IpcSendStep, IpcSendAwaitingStep, IpcReplyStep
      DEF UserStep
<1> QED BY <1>1, <1>2, <1>3 DEF Next

\* The kernel implements the process table its users rely on: every step of it is
\* a step of ProcessTable, or none that its users can see (ImplementsTable).
THEOREM KernelImplementsTable == Spec => ImplementsTable
<1>1. Init => Table!Init
  BY DEF Init, Table!Init
<1>2. IInv /\ IInv' /\ [Next]_vars => [Table!Next]_<<state, procCurrent>>
  <2>1. CASE IInv /\ IInv' /\ Next
    BY <2>1, NextStep DEF TableStep
  <2>2. CASE UNCHANGED vars
    BY <2>2 DEF vars
  <2> QED BY <2>1, <2>2
<1> QED BY <1>1, <1>2, Safe, PTL DEF Spec, ImplementsTable, Table!Spec

\* A process that has said bye stays FINISHED until its slot is freed, a BLOCKED
\* one leaves that state only for READY and with its last lock, and only a READY
\* one is handed the CPU (Lifecycle).
THEOREM LifeOfAProcess == Spec => Lifecycle
<1> DEFINE Lives(p) ==
      /\ state[p] = "FINISHED" => state'[p] \in {"FINISHED", "NONE"}
      /\ state[p] = "BLOCKED" /\ state'[p] # "BLOCKED" => state'[p] = "READY" /\ lockMask'[p] = {}
      /\ state'[p] = "RUNNING" /\ state[p] # "RUNNING" => state[p] = "READY"
<1>1. ASSUME IInv, IInv', [Next]_vars, NEW p \in Proc PROVE Lives(p)
  <2>0. state \in [Proc -> State] /\ OneOwner
    BY <1>1, IInvParts
  <2>1. state'[p] = "READY" => lockMask'[p] = {}
    BY <1>1 DEF IInv, BlockedByOneLock
  <2>2. CASE UNCHANGED <<state, procCurrent>>
    BY <2>2
  <2>3. CASE \E x \in Proc : Table!Run(x)
    BY <2>0, <2>3 DEF Table!Run
  <2>4. CASE \E x, y \in Proc, to \in {"READY", "BLOCKED", "FINISHED"} : Table!GiveBack(x, y, to)
    BY <2>0, <2>1, <2>4 DEF Table!GiveBack, OneOwner
  <2>5. CASE \E x \in Proc, to \in {"NONE", "NEW", "READY", "BLOCKED"} : Table!Change(x, to)
    BY <2>0, <2>1, <2>5 DEF Table!Change, Table!Step
  <2>6. TableStep
    <3>1. CASE Next
      BY <1>1, <3>1, NextStep
    <3>2. CASE UNCHANGED vars
      BY <3>2 DEF vars, TableStep
    <3> QED BY <1>1, <3>1, <3>2
  <2> HIDE DEF Lives
  <2> QED BY <2>2, <2>3, <2>4, <2>5, <2>6 DEF TableStep, Table!Next
<1>2. IInv /\ IInv' /\ [Next]_vars => [\A p \in Proc : Lives(p)]_vars
  BY <1>1
<1> QED BY <1>2, Safe, PTL DEF Spec, Lifecycle

-----------------------------------------------------------------------------
(* The queue: but for the calls that queue their caller, a step drops the  *)
(* d functions at its head and appends reviews of the schedule.            *)

Shifts(d) ==
  /\ d \in 0 .. 1 /\ d <= Len(queue) /\ Len(queue') >= Len(queue) - d
  /\ \A i \in 1 .. Len(queue) - d : queue'[i] = queue[i + d]
  /\ \A i \in Len(queue) - d + 1 .. Len(queue') : queue'[i] = Evaluate

LEMMA AppendShifts ==
  ASSUME queue \in Seq(Task), NEW tasks \in Seq(Task), AllReviews(tasks), queue' = queue \o tasks
  PROVE Shifts(0) /\ Len(queue') = Len(queue) + Len(tasks)
<1>1. /\ Len(queue') = Len(queue) + Len(tasks) /\ Len(queue) \in Nat /\ Len(tasks) \in Nat
      /\ \A i \in 1 .. Len(queue') :
            queue'[i] = IF i <= Len(queue) THEN queue[i] ELSE tasks[i - Len(queue)]
  BY ConcatProperties, LenProperties
<1> QED BY <1>1 DEF Shifts, AllReviews

LEMMA TailShifts ==
  ASSUME queue \in Seq(Task), queue # <<>>, NEW tasks \in Seq(Task), AllReviews(tasks),
         queue' = Tail(queue) \o tasks
  PROVE Shifts(1) /\ Len(queue') = Len(queue) - 1 + Len(tasks)
<1> DEFINE t == Tail(queue)
<1>1. /\ t \in Seq(Task) /\ Len(t) = Len(queue) - 1 /\ Len(queue) \in Nat \ {0} /\ Len(tasks) \in Nat
      /\ \A i \in 1 .. Len(t) : t[i] = queue[i + 1]
  BY HeadTailProperties, LenProperties, EmptySeq
<1>2. Len(queue') = Len(t) + Len(tasks)
      /\ \A i \in 1 .. Len(queue') : queue'[i] = IF i <= Len(t) THEN t[i] ELSE tasks[i - Len(t)]
  BY <1>1, ConcatProperties
<1> HIDE DEF t
<1> QED BY <1>1, <1>2 DEF Shifts, AllReviews

LEMMA ReturnShifts ==
  ASSUME queue \in Seq(Task), queue # <<>>, queue' = Tail(queue) \/ queue' = Tail(queue) \o <<>>
  PROVE Shifts(1)
<1>1. Tail(queue) \in Seq(Task)
  BY HeadTailProperties
<1>2. queue' = Tail(queue) \o <<>> /\ <<>> \in Seq(Task) /\ AllReviews(<<>>)
  BY <1>1, ConcatEmptySeq DEF AllReviews
<1> QED BY <1>2, TailShifts

LEMMA StaysShifts ==
  ASSUME queue \in Seq(Task), queue' = queue PROVE Shifts(0)
<1>1. queue' = queue \o <<>> /\ <<>> \in Seq(Task) /\ AllReviews(<<>>)
  BY ConcatEmptySeq DEF AllReviews
<1> QED BY <1>1, AppendShifts

\* Queued in the next state.
QueuedNext(t) == \E i \in 1 .. Len(queue') : queue'[i] = t

\* What is queued stays queued until it is at the head and returns.
LEMMA QueuedStays ==
  ASSUME queue \in Seq(Task), queue' \in Seq(Task), NEW d \in 0 .. 1, Shifts(d),
         NEW t, Queued(t), d = 1 => queue[1] # t
  PROVE QueuedNext(t)
<1>0. Len(queue) \in Nat /\ Len(queue') \in Nat
  BY LenProperties
<1>1. PICK i \in 1 .. Len(queue) : queue[i] = t
  BY DEF Queued
<1>2. i - d \in 1 .. Len(queue) - d /\ (i - d) + d = i
  BY <1>0, <1>1
<1>3. queue'[i - d] = queue[i] /\ i - d \in 1 .. Len(queue')
  BY <1>0, <1>2 DEF Shifts
<1> QED BY <1>1, <1>3 DEF QueuedNext

\* A step that appends anything appends a review of the schedule.
LEMMA ReviewAppended ==
  ASSUME queue \in Seq(Task), queue' \in Seq(Task), NEW d \in 0 .. 1, Shifts(d),
         Len(queue') > Len(queue) - d
  PROVE QueuedNext(Evaluate) /\ queue'[Len(queue')] = Evaluate /\ Len(queue') \in 1 .. Len(queue')
<1>0. Len(queue) \in Nat /\ Len(queue') \in Nat /\ d <= Len(queue)
  BY LenProperties DEF Shifts
<1>1. Len(queue') \in Len(queue) - d + 1 .. Len(queue') /\ Len(queue') \in 1 .. Len(queue')
  BY <1>0
<1> QED BY <1>1 DEF QueuedNext, Shifts

LEMMA AliveStays ==
  ASSUME IInv, TableStep, NobodyEnds PROVE \A x \in Proc : Alive(state, x) => Alive(state', x)
<1> SUFFICES ASSUME NEW x \in Proc, Alive(state, x) PROVE Alive(state', x)
  OBVIOUS
<1>0. state \in [Proc -> State] /\ OneOwner
  BY IInvParts
<1>1. CASE UNCHANGED <<state, procCurrent>>
  BY <1>1 DEF Alive
<1>2. CASE \E y \in Proc : Table!Run(y)
  BY <1>0, <1>2 DEF Table!Run, Alive
<1>3. CASE \E y, z \in Proc, to \in {"READY", "BLOCKED", "FINISHED"} : Table!GiveBack(y, z, to)
  BY <1>0, <1>3 DEF Table!GiveBack, Alive, NobodyEnds
<1>4. CASE \E y \in Proc, to \in {"NONE", "NEW", "READY", "BLOCKED"} : Table!Change(y, to)
  BY <1>0, <1>4 DEF Table!Change, Table!Step, Alive
<1> QED BY <1>1, <1>2, <1>3, <1>4 DEF TableStep, Table!Next

-----------------------------------------------------------------------------
(* OwedInv, part by part, over a step that shifts the queue.               *)

LEMMA SubjectsKept ==
  ASSUME IInv, IInv', SubjectsAreThere, NEW d \in 0 .. 1, Shifts(d), addressSpace' = addressSpace,
         \A x \in Proc : Alive(state, x) => Alive(state', x),
         \A x \in Proc : state[x] = "FINISHED" =>
            state'[x] = "FINISHED" \/ (d = 1 /\ queue[1] = Job("procCleanup", x))
  PROVE SubjectsAreThere'
<1>0. /\ queue \in Seq(Task) /\ queue' \in Seq(Task) /\ StoppedIsFinished
      /\ Len(queue) \in Nat /\ Len(queue') \in Nat
  BY IInvParts, LenProperties DEF IInv, TypeOK
<1> SUFFICES ASSUME NEW i \in 1 .. Len(queue')
             PROVE LET fn == queue'[i].fn
                       p == queue'[i].proc
                   IN /\ fn = "schedEvaluate" => p = KERNEL
                      /\ fn \in {"waitForEvent", "start", "unlockIfAble"} => p # KERNEL /\ Alive(state', p)
                      /\ fn = "start" => p = addressSpace'
                      /\ fn \in {"devCleanup", "ipcCleanup", "runloopCleanup"} =>
                           /\ p # KERNEL /\ state'[p] = "FINISHED"
                           /\ \E j \in i + 1 .. Len(queue') : queue'[j] = Job("procCleanup", p)
  BY DEF SubjectsAreThere
<1>1. CASE i > Len(queue) - d
  <2>1. queue'[i] = Evaluate
    BY <1>0, <1>1 DEF Shifts
  <2> QED BY <2>1 DEF Evaluate, Job
<1>2. CASE i <= Len(queue) - d
  <2>1. queue'[i] = queue[i + d] /\ i + d \in 1 .. Len(queue)
    BY <1>0, <1>2 DEF Shifts
  <2> DEFINE fn == queue[i + d].fn
             p == queue[i + d].proc
  <2>2. p \in ProcOrKernel
    <3>1. queue[i + d] \in Task
      BY <1>0, <2>1, ElementOfSeq
    <3> QED BY <3>1 DEF Task
  <2>3. /\ fn = "schedEvaluate" => p = KERNEL
        /\ fn \in {"waitForEvent", "start", "unlockIfAble"} => p # KERNEL /\ Alive(state, p)
        /\ fn = "start" => p = addressSpace
    BY <2>1 DEF SubjectsAreThere
  <2>4. ASSUME fn \in {"devCleanup", "ipcCleanup", "runloopCleanup"}
        PROVE /\ p # KERNEL /\ state'[p] = "FINISHED"
              /\ \E j \in i + 1 .. Len(queue') : queue'[j] = Job("procCleanup", p)
    <3>1. /\ p # KERNEL /\ state[p] = "FINISHED"
          /\ \E j \in i + d + 1 .. Len(queue) : queue[j] = Job("procCleanup", p)
      BY <2>1, <2>4 DEF SubjectsAreThere
    <3>2. PICK j \in i + d + 1 .. Len(queue) : queue[j] = Job("procCleanup", p)
      BY <3>1
    <3>3. queue[j].fn = "procCleanup" /\ j \in 1 .. Len(queue) /\ j # 1
      BY <1>0, <3>2, TaskFields
    <3>4. d = 1 => queue[1] # Job("procCleanup", p)
      <4> SUFFICES ASSUME d = 1, queue[1] = Job("procCleanup", p) PROVE FALSE
        OBVIOUS
      <4>1. queue[1].fn = "procCleanup" /\ 1 \in 1 .. Len(queue)
        BY <1>0, <3>3, TaskFields
      <4> QED BY <1>0, <3>3, <4>1 DEF StoppedIsFinished
    <3>5. j - d \in 1 .. Len(queue) - d /\ (j - d) + d = j /\ j - d \in i + 1 .. Len(queue')
      BY <1>0, <3>2 DEF Shifts
    <3>6. queue'[j - d] = queue[j]
      BY <3>5 DEF Shifts
    <3>7. state'[p] = "FINISHED"
      BY <2>2, <3>1, <3>4
    <3> QED BY <3>1, <3>2, <3>5, <3>6, <3>7
  <2> HIDE DEF fn, p
  <2>5. fn = queue'[i].fn /\ p = queue'[i].proc
    BY <2>1 DEF fn, p
  <2> QED BY <2>2, <2>3, <2>4, <2>5
<1> QED BY <1>0, <1>1, <1>2

LEMMA AwaitingKept ==
  ASSUME IInv, IInv', AwaitingIsOwed, NEW d \in 0 .. 1, Shifts(d),
         \A x \in Proc : Alive(state, x) => Alive(state', x),
         \A x \in Proc :
           \/ awaiting'[x] = awaiting[x] /\ ("IPC" \in lockMask'[x] <=> "IPC" \in lockMask[x])
           \/ awaiting'[x] = KERNEL /\ "IPC" \notin lockMask'[x],
         d = 1 => \A x \in Proc :
           /\ awaiting'[x] # KERNEL => queue[1] # Job("ipcCleanup", awaiting'[x])
           /\ "IPC" \in lockMask'[x] /\ awaiting'[x] = KERNEL => queue[1] # Job("unlockIfAble", x)
  PROVE AwaitingIsOwed'
<1>0. queue \in Seq(Task) /\ queue' \in Seq(Task) /\ awaiting \in [Proc -> ProcOrKernel]
  BY DEF IInv, TypeOK
<1> SUFFICES ASSUME NEW x \in Proc
             PROVE /\ awaiting'[x] # KERNEL =>
                        /\ "IPC" \in lockMask'[x]
                        /\ Alive(state', awaiting'[x]) \/ QueuedNext(Job("ipcCleanup", awaiting'[x]))
                   /\ "IPC" \in lockMask'[x] /\ awaiting'[x] = KERNEL => QueuedNext(Job("unlockIfAble", x))
  BY DEF AwaitingIsOwed, Queued, QueuedNext, Job
<1>1. ASSUME awaiting'[x] # KERNEL
      PROVE "IPC" \in lockMask'[x] /\ (Alive(state', awaiting'[x]) \/ QueuedNext(Job("ipcCleanup", awaiting'[x])))
  <2> DEFINE h == awaiting[x]
  <2>1. awaiting'[x] = h /\ h \in Proc /\ "IPC" \in lockMask'[x]
        /\ (Alive(state, h) \/ Queued(Job("ipcCleanup", h)))
    BY <1>0, <1>1 DEF AwaitingIsOwed
  <2>2. d = 1 => queue[1] # Job("ipcCleanup", h)
    BY <1>1, <2>1
  <2>3. CASE Alive(state, h)
    BY <2>1, <2>3
  <2>4. CASE Queued(Job("ipcCleanup", h))
    <3> HIDE DEF h
    <3>1. QueuedNext(Job("ipcCleanup", h))
      BY <1>0, <2>2, <2>4, QueuedStays
    <3> QED BY <2>1, <3>1
  <2> QED BY <2>1, <2>3, <2>4
<1>2. ASSUME "IPC" \in lockMask'[x], awaiting'[x] = KERNEL
      PROVE QueuedNext(Job("unlockIfAble", x))
  <2>1. Queued(Job("unlockIfAble", x))
    BY <1>2 DEF AwaitingIsOwed
  <2>2. d = 1 => queue[1] # Job("unlockIfAble", x)
    BY <1>2
  <2> QED BY <1>0, <2>1, <2>2, QueuedStays
<1> QED BY <1>1, <1>2

LEMMA PendingKept ==
  ASSUME IInv, IInv', PendingIsCleaned, NEW d \in 0 .. 1, Shifts(d),
         \A x \in Proc : Alive(state, x) => Alive(state', x),
         \A x \in Proc : pending'[x] # 0 => pending[x] # 0 \/ Alive(state', x),
         d = 1 => \A x \in Proc : pending'[x] # 0 => queue[1] # Job("runloopCleanup", x)
  PROVE PendingIsCleaned'
<1>0. queue \in Seq(Task) /\ queue' \in Seq(Task)
  BY DEF IInv, TypeOK
<1> SUFFICES ASSUME NEW x \in Proc, pending'[x] # 0, ~Alive(state', x)
             PROVE QueuedNext(Job("runloopCleanup", x))
  BY DEF PendingIsCleaned, Queued, QueuedNext, Job
<1>1. Queued(Job("runloopCleanup", x))
  BY DEF PendingIsCleaned
<1> QED BY <1>0, <1>1, QueuedStays

\* With something queued, or nobody chosen, the kernel has the CPU.
LEMMA KernelHasCpu ==
  ASSUME TypeOK, OneOwner, queue # <<>> \/ nextProcId = KERNEL
  PROVE kernelState = "RUNNING"
<1>1. kernelState \in {"RUNNING", "READY"}
  BY DEF TypeOK
<1>2. kernelState = "READY" => queue = <<>> /\ nextProcId \in Proc
  BY Owner
<1> QED BY <1>1, <1>2

\* Where somebody becomes READY, a review of the schedule is appended.
LEMMA ScanKept ==
  ASSUME IInv, IInv', ScanIsRepeated, NEW d \in 0 .. 1, Shifts(d), scanned' = scanned,
         kernelState = "RUNNING" => lastProcId' = lastProcId,
         d = 1 => queue[1] # Evaluate,
         \A x \in Proc : state'[x] = "READY" /\ state[x] # "READY" =>
            scanned = 0 \/ Len(queue') > Len(queue) - d
  PROVE ScanIsRepeated'
<1>0. /\ queue \in Seq(Task) /\ queue' \in Seq(Task) /\ Len(queue) \in Nat /\ Len(queue') \in Nat
      /\ scanned \in Nat /\ lastProcId \in ProcOrKernel
  BY LenProperties DEF IInv, TypeOK
<1>1. CASE scanned = 0
  BY <1>0, <1>1 DEF ScanIsRepeated
<1>2. CASE scanned # 0
  <2>1. queue # <<>> /\ queue[1] = Evaluate /\ d = 0
    BY <1>2 DEF ScanIsRepeated
  <2>2. Len(queue) >= 1 /\ kernelState = "RUNNING" /\ lastProcId' = lastProcId
    BY <1>0, <2>1, EmptySeq, KernelHasCpu, IInvParts
  <2>3. queue' # <<>> /\ queue'[1] = Evaluate /\ Len(queue') >= Len(queue)
    <3>1. queue'[1] = queue[1 + 0] /\ Len(queue') >= Len(queue) - 0
      BY <1>0, <2>1, <2>2 DEF Shifts
    <3> QED BY <1>0, <2>1, <2>2, <3>1, EmptySeq
  <2>4. ASSUME NEW j \in 0 .. scanned - 1, state'[Slot(j)] = "READY"
        PROVE \E i \in 2 .. Len(queue') : queue'[i] = Evaluate
    <3>1. Slot(j) \in Proc
      <4>1. j \in Nat
        BY <1>0
      <4> QED BY <1>0, <4>1, SlotType
    <3>2. CASE state[Slot(j)] = "READY"
      <4>1. PICK i \in 2 .. Len(queue) : queue[i] = Evaluate
        BY <3>2 DEF ScanIsRepeated, Ready
      <4>2. queue'[i] = queue[i + 0] /\ i \in 2 .. Len(queue')
        BY <1>0, <2>1, <2>3, <4>1 DEF Shifts
      <4> QED BY <4>1, <4>2
    <3>3. CASE state[Slot(j)] # "READY"
      <4>1. Len(queue') > Len(queue) - d
        BY <1>2, <2>4, <3>1, <3>3
      <4>2. queue'[Len(queue')] = Evaluate
        BY <1>0, <4>1, ReviewAppended
      <4>3. Len(queue') \in 2 .. Len(queue')
        BY <1>0, <2>1, <2>2, <4>1
      <4> QED BY <4>2, <4>3
    <3> QED BY <3>2, <3>3
  <2>5. \A j : Slot(j)' = Slot(j)
    BY <2>2 DEF Slot
  <2>6. \A j \in 0 .. scanned' - 1 : Ready(state', Slot(j)') =>
           \E i \in 2 .. Len(queue') : queue'[i] = Evaluate
    BY <2>4, <2>5 DEF Ready
  <2> QED BY <2>3, <2>6 DEF ScanIsRepeated
<1> QED BY <1>1, <1>2

LEMMA IdleKept ==
  ASSUME IInv, IInv', IdleIsReviewed, NEW d \in 0 .. 1, Shifts(d),
         nextProcId' = nextProcId \/ nextProcId' # KERNEL, d = 1 => queue[1] # Evaluate,
         \A x \in Proc : state'[x] = "READY" /\ state[x] # "READY" =>
            nextProcId' # KERNEL \/ Len(queue') > Len(queue) - d
  PROVE IdleIsReviewed'
<1>0. /\ queue \in Seq(Task) /\ queue' \in Seq(Task) /\ TypeOK /\ OneOwner
  BY DEF IInv, TypeOK
<1> SUFFICES ASSUME nextProcId' = KERNEL, ~QueuedNext(Evaluate), NEW x \in Proc, state'[x] = "READY"
             PROVE FALSE
  BY DEF IdleIsReviewed, Queued, QueuedNext, Evaluate, Job
<1>1. nextProcId = KERNEL /\ kernelState = "RUNNING"
  BY <1>0, KernelHasCpu
<1>2. state[x] = "READY"
  BY <1>0, ReviewAppended
<1>3. Queued(Evaluate)
  BY <1>1, <1>2 DEF IdleIsReviewed
<1> QED BY <1>0, <1>3, QueuedStays

LEMMA OwedParts ==
  ASSUME OwedInv
  PROVE /\ NoLostWakeup /\ SubjectsAreThere /\ AwaitingIsOwed /\ PendingIsCleaned
        /\ ScanIsRepeated /\ IdleIsReviewed
BY DEF OwedInv

LEMMA ShiftOwes ==
  ASSUME IInv, IInv', OwedInv, NEW d \in 0 .. 1, Shifts(d), UNCHANGED <<addressSpace, scanned>>,
         kernelState = "RUNNING" => lastProcId' = lastProcId,
         nextProcId' = nextProcId \/ nextProcId' # KERNEL,
         d = 1 => queue[1] # Evaluate,
         \A x \in Proc : Alive(state, x) => Alive(state', x),
         \A x \in Proc : state[x] = "FINISHED" =>
            state'[x] = "FINISHED" \/ (d = 1 /\ queue[1] = Job("procCleanup", x)),
         \A x \in Proc : state'[x] = "READY" /\ state[x] # "READY" =>
            Len(queue') > Len(queue) - d \/ (scanned = 0 /\ nextProcId' # KERNEL),
         \A x \in Proc :
           \/ awaiting'[x] = awaiting[x] /\ ("IPC" \in lockMask'[x] <=> "IPC" \in lockMask[x])
           \/ awaiting'[x] = KERNEL /\ "IPC" \notin lockMask'[x],
         \A x \in Proc : pending'[x] # 0 => pending[x] # 0 \/ Alive(state', x),
         d = 1 => \A x \in Proc :
           /\ awaiting'[x] # KERNEL => queue[1] # Job("ipcCleanup", awaiting'[x])
           /\ "IPC" \in lockMask'[x] /\ awaiting'[x] = KERNEL => queue[1] # Job("unlockIfAble", x)
           /\ pending'[x] # 0 => queue[1] # Job("runloopCleanup", x),
         NoLostWakeup'
  PROVE OwedInv'
<1>1. SubjectsAreThere'
  BY OwedParts, SubjectsKept
<1>2. AwaitingIsOwed'
  BY OwedParts, AwaitingKept
<1>3. PendingIsCleaned'
  BY OwedParts, PendingKept
<1>4. ScanIsRepeated'
  BY OwedParts, ScanKept
<1>5. IdleIsReviewed'
  BY OwedParts, IdleKept
<1> QED BY <1>1, <1>2, <1>3, <1>4, <1>5 DEF OwedInv

-----------------------------------------------------------------------------
(* Interrupts and calls.                                                   *)

LEMMA IsrEndOwes ==
  ASSUME IInv, IInv', OwedInv, NEW st \in [Proc -> State], NEW tasks \in Seq(Task), AllReviews(tasks),
         IsrEnd(st, queue \o tasks, "none"), TableStep, NobodyEnds,
         \A x \in Proc : st[x] = state[x] \/ (state[x] = "BLOCKED" /\ Len(tasks) > 0),
         \A x \in Proc :
           \/ awaiting'[x] = awaiting[x] /\ ("IPC" \in lockMask'[x] <=> "IPC" \in lockMask[x])
           \/ awaiting'[x] = KERNEL /\ "IPC" \notin lockMask'[x],
         \A x \in Proc : pending'[x] # 0 => pending[x] # 0 \/ Alive(state', x),
         NoLostWakeup'
  PROVE OwedInv'
<1> DEFINE q == queue \o tasks
<1>0. /\ TypeOK /\ OneOwner /\ queue \in Seq(Task) /\ queue' \in Seq(Task) /\ "none" \in Oops
      /\ state \in [Proc -> State] /\ q \in Seq(Task) /\ Len(queue) \in Nat /\ Len(tasks) \in Nat
  BY ConcatProperties, LenProperties DEF IInv, TypeOK, Oops
<1>1. kernelState = "READY" => st[procCurrent] = "RUNNING" /\ queue = <<>>
  BY <1>0, Owner
<1> HIDE DEF q
<1>2. /\ queue' = q /\ UNCHANGED <<nextProcId, addressSpace>>
      /\ \/ kernelState = "RUNNING" /\ state' = st
         \/ kernelState = "READY" /\ state' = st
         \/ /\ kernelState = "READY" /\ q # <<>>
            /\ state' = [st EXCEPT ![procCurrent] = IF @ = "RUNNING" THEN "READY" ELSE @]
  BY <1>0, <1>1, IsrEndCases DEF q
<1>3. Shifts(0) /\ Len(queue') = Len(queue) + Len(tasks)
  BY <1>0, <1>2, AppendShifts DEF q
<1>4. scanned' = scanned /\ (kernelState = "RUNNING" => lastProcId' = lastProcId)
  BY DEF IsrEnd
<1>5. \A x \in Proc : state'[x] = "READY" /\ state[x] # "READY" => Len(queue') > Len(queue) - 0
  <2> SUFFICES ASSUME NEW x \in Proc, state'[x] = "READY", state[x] # "READY"
               PROVE Len(queue') > Len(queue)
    BY <1>0
  <2>1. CASE st[x] # state[x]
    BY <1>0, <1>3, <2>1
  <2>2. CASE st[x] = state[x]
    <3>1. kernelState = "READY" /\ q # <<>>
      BY <1>2, <2>2
    <3>2. Len(queue) = 0 /\ Len(q) > 0
      BY <1>0, <1>1, <3>1, EmptySeq
    <3> QED BY <1>2, <3>2
  <2> QED BY <2>1, <2>2
<1>6. \A x \in Proc : Alive(state, x) => Alive(state', x)
  BY AliveStays
<1>7. \A x \in Proc : state[x] = "FINISHED" => state'[x] = "FINISHED"
  BY DEF NobodyEnds
<1>8. 0 \in 0 .. 1 /\ 0 # 1
  OBVIOUS
<1> QED BY <1>2, <1>3, <1>4, <1>5, <1>6, <1>7, <1>8, ShiftOwes

LEMMA TickOwes == ASSUME IInv, IInv', OwedInv, Tick PROVE OwedInv'
<1> DEFINE tasks == IF executionTimeCounter + 1 < GRANULARITY_MS THEN <<>> ELSE <<Evaluate>>
<1>1. tasks \in Seq(Task) /\ AllReviews(tasks)
  <2>1. /\ AllReviews(<<>>) /\ AllReviews(<<Evaluate>>) /\ <<>> \in Seq(Task) /\ <<Evaluate>> \in Seq(Task)
    BY EvaluateType DEF AllReviews
  <2> QED BY <2>1
<1>2. IsrEnd(state, queue \o tasks, "none")
  <2>1. queue \o <<>> = queue /\ queue \o <<Evaluate>> = Append(queue, Evaluate)
    BY IInvParts, EvaluateType, ConcatProperties, AppendIsConcat, ConcatEmptySeq
  <2> QED BY <2>1 DEF Tick
<1>3. UNCHANGED <<lockMask, pending, awaiting>> /\ NoLostWakeup'
  BY OwedParts DEF Tick, NoLostWakeup
<1>4. TableStep /\ NobodyEnds
  BY InterruptStep
<1> HIDE DEF tasks
<1> QED BY <1>1, <1>2, <1>3, <1>4, IInvParts, IsrEndOwes

LEMMA DeliverOwes ==
  ASSUME IInv, IInv', OwedInv, NEW h \in Proc, NEW n \in Nat \ {0}, Accepts(state, h, n),
         pending' = [pending EXCEPT ![h] = @ + n], awaiting' = awaiting,
         lockMask' = Unlocked(lockMask, h, "EVENT"),
         IsrEnd(Woken(state, lockMask, h, "EVENT"), queue \o DeliverTasks(state, lockMask, h, n), "none")
  PROVE OwedInv'
<1> DEFINE st == Woken(state, lockMask, h, "EVENT")
           tasks == DeliverTasks(state, lockMask, h, n)
<1>0. state \in [Proc -> State] /\ lockMask \in [Proc -> SUBSET LockType]
      /\ pending \in [Proc -> 0 .. DISPATCH_QUEUE_SIZE]
  BY DEF IInv, TypeOK
<1>1. tasks \in Seq(Task) /\ AllReviews(tasks) /\ Len(tasks) > 0
  BY DeliverReviews
<1>2. st \in [Proc -> State]
  BY <1>0, WokenType
<1>3. \A x \in Proc : st[x] = state[x] \/ state[x] = "BLOCKED"
  BY <1>0, WokenStates
<1>4. TableStep /\ NobodyEnds
  BY DeliverStep
<1>5. Alive(state', h)
  BY <1>4, AliveStays DEF Accepts
<1>6. \A x \in Proc : ("IPC" \in lockMask'[x] <=> "IPC" \in lockMask[x])
                      /\ ("EVENT" \in lockMask'[x] => x # h /\ "EVENT" \in lockMask[x])
  BY <1>0 DEF Unlocked
<1>7. \A x \in Proc : pending'[x] = pending[x] \/ x = h
  BY <1>0
<1>8. NoLostWakeup'
  BY <1>6, <1>7, OwedParts DEF NoLostWakeup
<1>9. IsrEnd(st, queue \o tasks, "none")
  OBVIOUS
<1> HIDE DEF st, tasks
<1> QED BY <1>1, <1>2, <1>3, <1>4, <1>5, <1>6, <1>7, <1>8, <1>9, IsrEndOwes

\* A panic changes nothing but oops.
LEMMA UnchangedOwes ==
  ASSUME OwedInv, UNCHANGED <<procVars, schedVars, queue, taskVars, userVars>> PROVE OwedInv'
<1>1. NoLostWakeup' /\ SubjectsAreThere'
  BY OwedParts DEF NoLostWakeup, SubjectsAreThere
<1>2. AwaitingIsOwed' /\ PendingIsCleaned'
  BY OwedParts DEF AwaitingIsOwed, PendingIsCleaned, Queued
<1>3. ScanIsRepeated' /\ IdleIsReviewed'
  BY OwedParts DEF ScanIsRepeated, IdleIsReviewed, Queued, Slot, Ready
<1> QED BY <1>1, <1>2, <1>3 DEF OwedInv

LEMMA KeyPressOwes == ASSUME IInv, IInv', OwedInv, KeyPress PROVE OwedInv'
<1>1. CASE KeyAlarm = "none"
  <2>1. listener \in Proc /\ Accepts(state, listener, 1) /\ 1 \in Nat \ {0}
    BY <1>1, IInvParts DEF KeyAlarm, TypeOK
  <2>2. /\ pending' = [pending EXCEPT ![listener] = @ + 1] /\ awaiting' = awaiting
        /\ lockMask' = Unlocked(lockMask, listener, "EVENT")
        /\ IsrEnd(Woken(state, lockMask, listener, "EVENT"),
                  queue \o DeliverTasks(state, lockMask, listener, 1), "none")
    BY <1>1 DEF KeyPress
  <2> QED BY <2>1, <2>2, DeliverOwes
<1>2. CASE KeyAlarm # "none"
  BY <1>2, UnchangedOwes DEF KeyPress
<1> QED BY <1>1, <1>2

LEMMA YieldOwes == ASSUME IInv, IInv', OwedInv, NEW p \in Proc, Yield(p) PROVE OwedInv'
<1> DEFINE tasks == <<Evaluate>>
<1>1. tasks \in Seq(Task) /\ AllReviews(tasks)
  BY EvaluateType DEF AllReviews
<1>2. IsrEnd(state, queue \o tasks, "none")
  <2>1. queue \o tasks = Append(queue, Evaluate)
    BY IInvParts, EvaluateType, AppendIsConcat
  <2> QED BY <2>1 DEF Yield
<1>3. UNCHANGED <<lockMask, pending, awaiting>> /\ NoLostWakeup'
  BY OwedParts DEF Yield, NoLostWakeup
<1>4. TableStep /\ NobodyEnds
  BY CallStep
<1> HIDE DEF tasks
<1> QED BY <1>1, <1>2, <1>3, <1>4, IInvParts, IsrEndOwes

LEMMA IpcSendOwes ==
  ASSUME IInv, IInv', OwedInv, NEW p \in Proc, NEW h \in Proc, NEW n \in 1 .. 2, IpcSend(p, h, n)
  PROVE OwedInv'
<1>1. CASE Accepts(state, h, n)
  <2>1. /\ pending' = [pending EXCEPT ![h] = @ + n] /\ awaiting' = awaiting
        /\ lockMask' = Unlocked(lockMask, h, "EVENT")
        /\ IsrEnd(Woken(state, lockMask, h, "EVENT"), queue \o DeliverTasks(state, lockMask, h, n), "none")
    BY <1>1 DEF IpcSend
  <2>2. n \in Nat \ {0}
    OBVIOUS
  <2> QED BY <1>1, <2>1, <2>2, DeliverOwes
<1>2. CASE ~Accepts(state, h, n)
  <2>1. state[h] \notin {"NONE", "NEW"}
    BY IInvParts DEF IpcSend, CalledBackIsHatched
  <2>2. IsrEnd(state, queue, "none") /\ UNCHANGED <<lockMask, pending, awaiting>>
    BY <1>2, <2>1 DEF IpcSend
  <2>3. queue \o <<>> = queue /\ AllReviews(<<>>) /\ <<>> \in Seq(Task)
    BY IInvParts, ConcatEmptySeq DEF AllReviews
  <2>4. NoLostWakeup' /\ TableStep /\ NobodyEnds
    BY <2>2, OwedParts, IpcSendStep DEF NoLostWakeup
  <2> QED BY <2>2, <2>3, <2>4, IInvParts, IsrEndOwes
<1> QED BY <1>1, <1>2

LEMMA IpcReplyOwes ==
  ASSUME IInv, IInv', OwedInv, NEW p \in Proc, NEW s \in Proc, NEW n \in 0 .. 1, IpcReply(p, s, n)
  PROVE OwedInv'
<1>0. /\ state \in [Proc -> State] /\ lockMask \in [Proc -> SUBSET LockType]
      /\ awaiting \in [Proc -> ProcOrKernel] /\ pending \in [Proc -> 0 .. DISPATCH_QUEUE_SIZE]
      /\ awaiting' = [awaiting EXCEPT ![s] = KERNEL] /\ pending' = [pending EXCEPT ![s] = @ + n]
      /\ n = 1 => Accepts(state, s, 1)
  BY DEF IpcReply, IInv, TypeOK
<1>1. PICK st \in [Proc -> State], tasks \in Seq(Task) :
        /\ IsrEnd(st, queue \o tasks, "none")
        /\ st = state \/ (state[s] = "BLOCKED" /\ st = [state EXCEPT ![s] = "READY"])
        /\ st # state => Len(tasks) > 0
        /\ AllReviews(tasks)
  BY IpcReplyShape
<1>2. \A x \in Proc : st[x] = state[x] \/ (state[x] = "BLOCKED" /\ Len(tasks) > 0)
  BY <1>0, <1>1
<1>3. TableStep /\ NobodyEnds
  BY IpcReplyStep
<1>4. \A x \in Proc : /\ x = s => "IPC" \notin lockMask'[x] /\ awaiting'[x] = KERNEL
                      /\ x # s => lockMask'[x] = lockMask[x] /\ awaiting'[x] = awaiting[x]
                      /\ "EVENT" \in lockMask'[x] => "EVENT" \in lockMask[x] /\ (x = s => n # 1)
  <2>1. lockMask' = Unlocked(IF n = 1 THEN Unlocked(lockMask, s, "EVENT") ELSE lockMask, s, "IPC")
    BY DEF IpcReply
  <2>2. CASE n = 1
    BY <1>0, <2>1, <2>2 DEF Unlocked
  <2>3. CASE n # 1
    BY <1>0, <2>1, <2>3 DEF Unlocked
  <2> QED BY <2>2, <2>3
<1>5. \A x \in Proc : x # s \/ n # 1 => pending'[x] = pending[x]
  BY <1>0
<1>6. NoLostWakeup'
  BY <1>4, <1>5, OwedParts DEF NoLostWakeup
<1>7. \A x \in Proc : pending'[x] # 0 => pending[x] # 0 \/ Alive(state', x)
  <2>1. n = 1 => Alive(state', s)
    BY <1>0, <1>3, AliveStays DEF Accepts
  <2> QED BY <1>5, <2>1
<1> QED BY <1>1, <1>2, <1>3, <1>4, <1>6, <1>7, IsrEndOwes

LEMMA CallerOwes ==
  ASSUME IInv, OwedInv, NEW p \in Proc, Running(p)
  PROVE /\ kernelState = "READY" /\ procCurrent = p /\ nextProcId = p /\ addressSpace = p
        /\ queue = <<>> /\ state[p] = "RUNNING" /\ lockMask[p] = {} /\ scanned = 0
        /\ \A t : ~Queued(t)
        /\ \A x \in Proc : awaiting[x] # KERNEL => Alive(state, awaiting[x]) /\ x # p
<1>1. /\ kernelState = "READY" /\ procCurrent = p /\ nextProcId = p /\ addressSpace = p
      /\ queue = <<>> /\ state[p] = "RUNNING"
  BY IInvParts, Owner DEF Running
<1>2. lockMask[p] = {} /\ scanned = 0
  BY <1>1, IInvParts, OwedParts DEF BlockedByOneLock, ScanIsRepeated
<1>3. \A t : ~Queued(t)
  BY <1>1 DEF Queued
<1>4. \A x \in Proc : awaiting[x] # KERNEL => Alive(state, awaiting[x]) /\ x # p
  BY <1>2, <1>3, OwedParts DEF AwaitingIsOwed
<1> QED BY <1>1, <1>2, <1>3, <1>4

\* A call that queues its caller, or the cleanups of it.
LEMMA QueuedCallOwes ==
  ASSUME IInv, IInv', OwedInv, NEW p \in Proc, Running(p), SubjectsAreThere',
         UNCHANGED <<nextProcId, scanned, lockMask, pending, awaiting>>,
         \A x \in Proc : Alive(state, x) =>
           \/ Alive(state', x)
           \/ QueuedNext(Job("ipcCleanup", x)) /\ QueuedNext(Job("runloopCleanup", x))
  PROVE OwedInv'
<1>0. awaiting \in [Proc -> ProcOrKernel]
  BY DEF IInv, TypeOK
<1>1. NoLostWakeup'
  BY OwedParts DEF NoLostWakeup
<1>2. AwaitingIsOwed'
  <2> SUFFICES ASSUME NEW x \in Proc
               PROVE /\ awaiting[x] # KERNEL =>
                          /\ "IPC" \in lockMask[x]
                          /\ Alive(state', awaiting[x]) \/ QueuedNext(Job("ipcCleanup", awaiting[x]))
                     /\ ~("IPC" \in lockMask[x] /\ awaiting[x] = KERNEL)
    BY DEF AwaitingIsOwed, Queued, QueuedNext
  <2>1. awaiting[x] # KERNEL => awaiting[x] \in Proc /\ "IPC" \in lockMask[x] /\ Alive(state, awaiting[x])
    BY <1>0, CallerOwes, OwedParts DEF AwaitingIsOwed
  <2>2. ~("IPC" \in lockMask[x] /\ awaiting[x] = KERNEL)
    BY CallerOwes, OwedParts DEF AwaitingIsOwed
  <2> QED BY <2>1, <2>2
<1>3. PendingIsCleaned'
  <2> SUFFICES ASSUME NEW x \in Proc, pending[x] # 0
               PROVE Alive(state', x) \/ QueuedNext(Job("runloopCleanup", x))
    BY DEF PendingIsCleaned, Queued, QueuedNext
  <2>1. Alive(state, x)
    BY CallerOwes, OwedParts DEF PendingIsCleaned
  <2> QED BY <2>1
<1>4. ScanIsRepeated' /\ IdleIsReviewed'
  BY CallerOwes DEF ScanIsRepeated, IdleIsReviewed
<1> QED BY <1>1, <1>2, <1>3, <1>4 DEF OwedInv

LEMMA DispatchOwes ==
  ASSUME IInv, IInv', OwedInv, NEW p \in Proc, CallWaitForEvent(p) \/ CallStart(p) PROVE OwedInv'
<1>1. PICK fn \in {"waitForEvent", "start"} :
        /\ Running(p) /\ IsrEnd(state, Append(queue, Job(fn, p)), "none")
        /\ UNCHANGED <<lockMask, pending, awaiting>>
  BY DEF CallWaitForEvent, CallStart, Dispatch
<1> DEFINE t == Job(fn, p)
           q == <<t>>
<1>2. t \in Task /\ t.fn = fn /\ t.proc = p
  BY JobType, TaskFields DEF Function
<1> HIDE DEF t
<1>3. q \in Seq(Task) /\ q # <<>> /\ Len(q) = 1 /\ q[1] = t /\ IsrEnd(state, q, "none")
  <2>1. q \in Seq(Task) /\ q # <<>> /\ Len(q) = 1 /\ q[1] = t
    BY <1>2
  <2>2. queue = <<>> /\ IsrEnd(state, Append(queue, t), "none")
    BY <1>1, CallerOwes DEF t
  <2>3. Append(queue, t) = q
    BY <2>2
  <2> HIDE DEF q
  <2> QED BY <2>1, <2>2, <2>3
<1>4. /\ TypeOK /\ OneOwner /\ "none" \in Oops /\ state \in [Proc -> State]
      /\ state[procCurrent] = "RUNNING" /\ kernelState = "READY" /\ procCurrent = p /\ addressSpace = p
  BY <1>1, IInvParts, CallerOwes DEF Oops
<1> HIDE DEF q
<1>5. /\ queue' = q /\ UNCHANGED <<nextProcId, addressSpace, scanned>>
      /\ state' = [state EXCEPT ![p] = "READY"]
  <2>1. /\ queue' = q /\ UNCHANGED <<nextProcId, addressSpace>>
        /\ state' = [state EXCEPT ![p] = IF @ = "RUNNING" THEN "READY" ELSE @]
    BY <1>3, <1>4, IsrEndCases
  <2> QED BY <1>3, <1>4, <2>1 DEF IsrEnd
<1>6. \A x \in Proc : Alive(state, x) => Alive(state', x)
  BY <1>4, <1>5 DEF Alive
<1>7. SubjectsAreThere'
  <2>1. state'[p] = "READY"
    BY <1>4, <1>5
  <2> QED BY <1>2, <1>3, <1>4, <1>5, <2>1 DEF SubjectsAreThere, Alive
<1> QED BY <1>1, <1>5, <1>6, <1>7, QueuedCallOwes

LEMMA ByeOwes == ASSUME IInv, IInv', OwedInv, NEW p \in Proc, Bye(p) PROVE OwedInv'
<1> DEFINE q == ByeTasks(p)
           st == [state EXCEPT ![p] = "FINISHED"]
<1>0. /\ Running(p) /\ UNCHANGED <<lockMask, pending, awaiting>>
      /\ kernelState = "READY" /\ procCurrent = p /\ queue = <<>>
      /\ state[p] = "RUNNING" /\ state \in [Proc -> State] /\ TypeOK /\ OneOwner
  BY IInvParts, CallerOwes DEF Bye
<1>1. q \in Seq(Task) /\ q # <<>> /\ queue \o q = q
  BY <1>0, TasksType, ConcatEmptySeq DEF ByeTasks
<1>2. st \in [Proc -> State] /\ st[p] = "FINISHED" /\ IsrEnd(st, q, "none") /\ "none" \in Oops
  BY <1>0, <1>1 DEF Bye, Alive, State, Oops
<1>3. /\ Len(q) = 5 /\ q[1] = Job("devCleanup", p) /\ q[2] = Job("ipcCleanup", p)
      /\ q[3] = Job("runloopCleanup", p) /\ q[4] = Job("procCleanup", p) /\ q[5] = Evaluate
  BY DEF ByeTasks
<1> HIDE DEF q
<1>4. /\ queue' = q /\ UNCHANGED <<nextProcId, addressSpace, scanned>>
      /\ state' = [st EXCEPT ![p] = IF @ = "RUNNING" THEN "READY" ELSE @]
  <2>1. /\ queue' = q /\ UNCHANGED <<nextProcId, addressSpace>>
        /\ state' = [st EXCEPT ![p] = IF @ = "RUNNING" THEN "READY" ELSE @]
    BY <1>0, <1>1, <1>2, IsrEndCases
  <2> QED BY <1>2, <2>1 DEF IsrEnd
<1>5. \A x \in Proc : state'[x] = IF x = p THEN "FINISHED" ELSE state[x]
  BY <1>0, <1>4
<1>6. QueuedNext(Job("ipcCleanup", p)) /\ QueuedNext(Job("runloopCleanup", p))
  BY <1>3, <1>4 DEF QueuedNext
<1>7. SubjectsAreThere'
  <2> SUFFICES ASSUME NEW i \in 1 .. 5
               PROVE LET fn == q[i].fn
                         x == q[i].proc
                     IN /\ fn = "schedEvaluate" => x = KERNEL
                        /\ fn \notin {"waitForEvent", "start", "unlockIfAble"}
                        /\ fn \in {"devCleanup", "ipcCleanup", "runloopCleanup"} =>
                             /\ x # KERNEL /\ state'[x] = "FINISHED"
                             /\ \E j \in i + 1 .. 5 : q[j] = Job("procCleanup", x)
    BY <1>3, <1>4 DEF SubjectsAreThere
  <2>1. CASE i = 5
    BY <1>3, <2>1 DEF Evaluate, Job
  <2>2. CASE i = 4
    BY <1>3, <2>2, TaskFields
  <2>3. CASE i \in 1 .. 3
    <3>1. q[i].proc = p /\ q[i].fn \in {"devCleanup", "ipcCleanup", "runloopCleanup"}
      BY <1>3, <2>3, TaskFields
    <3>2. 4 \in i + 1 .. 5 /\ q[4] = Job("procCleanup", p)
      BY <1>3, <2>3
    <3> QED BY <1>5, <3>1, <3>2
  <2> QED BY <2>1, <2>2, <2>3
<1>8. \A x \in Proc : Alive(state, x) => Alive(state', x) \/ x = p
  BY <1>5 DEF Alive
<1> QED BY <1>0, <1>4, <1>6, <1>7, <1>8, QueuedCallOwes

LEMMA AnsweredOwes ==
  ASSUME IInv, IInv', OwedInv, NEW p \in Proc,
         GetItem(p) \/ IpcRegister(p) \/ DevListen(p) \/ DevRelease(p)
  PROVE OwedInv'
<1>0. Running(p) /\ UNCHANGED <<procVars, schedVars, queue, taskVars, awaiting>>
  BY DEF GetItem, IpcRegister, DevListen, DevRelease, Answered
<1>1. \A x \in Proc : pending'[x] = pending[x] \/ (x = p /\ GetItem(p))
  BY DEF GetItem, IpcRegister, DevListen, DevRelease, IInv, TypeOK
<1>2. Alive(state', p)
  BY <1>0, CallerOwes DEF Alive
<1>3. NoLostWakeup'
  BY <1>0, <1>1, CallerOwes, OwedParts DEF NoLostWakeup
<1>4. Shifts(0) /\ 0 \in 0 .. 1 /\ 0 # 1
  BY <1>0, IInvParts, StaysShifts
<1> QED BY <1>0, <1>1, <1>2, <1>3, <1>4, ShiftOwes

LEMMA IpcSendAwaitingOwes ==
  ASSUME IInv, IInv', OwedInv, NEW p \in Proc, NEW h \in Proc, NEW n \in 1 .. 2,
         IpcSendAwaiting(p, h, n)
  PROVE OwedInv'
<1>0. /\ Running(p) /\ UNCHANGED <<nextProcId, scanned>> /\ nextProcId = p /\ scanned = 0
      /\ awaiting \in [Proc -> ProcOrKernel] /\ pending \in [Proc -> 0 .. DISPATCH_QUEUE_SIZE]
  BY CallerOwes DEF IpcSendAwaiting, IsrEnd, IInv, TypeOK
<1>1. \A x \in Proc : Alive(state, x) => Alive(state', x)
  BY IpcSendAwaitingStep, AliveStays
<1>2. /\ state'[p] = "BLOCKED" /\ Alive(state', p)
  <2>1. \E g \in Proc : state' = [state EXCEPT ![g] = "READY", ![p] = "BLOCKED"]
    BY IpcSendAwaitingShape
  <2>2. state \in [Proc -> State]
    BY IInvParts
  <2> QED BY <2>1, <2>2 DEF Alive
<1>3. \A x \in Proc : /\ "IPC" \in lockMask'[x] <=> x = p \/ "IPC" \in lockMask[x]
                      /\ "EVENT" \in lockMask'[x] => "EVENT" \in lockMask[x]
  BY IpcSendAwaitingShape
<1>4. \A x \in Proc : ~("IPC" \in lockMask[x] /\ awaiting[x] = KERNEL)
  BY <1>0, CallerOwes, OwedParts DEF AwaitingIsOwed
<1>5. \A x \in Proc : awaiting[x] # KERNEL =>
         x # p /\ "IPC" \in lockMask[x] /\ awaiting[x] \in Proc /\ Alive(state', awaiting[x])
  BY <1>0, <1>1, CallerOwes, OwedParts DEF AwaitingIsOwed
<1>6. \A x \in Proc : pending[x] # 0 => Alive(state', x)
  BY <1>0, <1>1, CallerOwes, OwedParts DEF PendingIsCleaned
<1>7. ScanIsRepeated' /\ IdleIsReviewed'
  BY <1>0 DEF ScanIsRepeated, IdleIsReviewed
<1>8. CASE /\ Alive(state', h) /\ awaiting' = [awaiting EXCEPT ![p] = h]
           /\ pending' = [pending EXCEPT ![h] = @ + n] /\ "EVENT" \notin lockMask'[h]
           /\ AllReviews(queue')
  <2>1. \A i \in 1 .. Len(queue') : queue'[i] = Evaluate
    BY <1>8 DEF AllReviews
  <2>2. SubjectsAreThere'
    BY <2>1 DEF SubjectsAreThere, Evaluate, Job
  <2>3. AwaitingIsOwed'
    <3>1. \A x \in Proc : /\ x = p => awaiting'[x] = h /\ "IPC" \in lockMask'[x]
                          /\ x # p => awaiting'[x] = awaiting[x]
      BY <1>0, <1>3, <1>8
    <3> QED BY <1>3, <1>4, <1>5, <1>8, <3>1 DEF AwaitingIsOwed
  <2>4. \A x \in Proc : pending'[x] # 0 => pending[x] # 0 \/ x = h
    BY <1>0, <1>8
  <2>5. PendingIsCleaned'
    BY <1>6, <1>8, <2>4 DEF PendingIsCleaned
  <2>6. \A x \in Proc : x # h => pending'[x] = pending[x]
    BY <1>0, <1>8
  <2>7. NoLostWakeup'
    BY <1>3, <1>8, <2>6, OwedParts DEF NoLostWakeup
  <2> QED BY <1>7, <2>2, <2>3, <2>5, <2>7 DEF OwedInv
<1>9. CASE UNCHANGED <<awaiting, pending>> /\ queue' = <<Evaluate, Job("unlockIfAble", p)>>
  <2>1. Len(queue') = 2 /\ queue'[1] = Evaluate /\ queue'[2] = Job("unlockIfAble", p)
    BY <1>9
  <2>2. SubjectsAreThere'
    <3>1. \A i \in 1 .. Len(queue') :
            \/ queue'[i].fn = "schedEvaluate" /\ queue'[i].proc = KERNEL
            \/ queue'[i].fn = "unlockIfAble" /\ queue'[i].proc = p
      BY <2>1 DEF Evaluate, Job
    <3> QED BY <1>2, <3>1 DEF SubjectsAreThere
  <2>3. AwaitingIsOwed'
    <3>1. QueuedNext(Job("unlockIfAble", p))
      BY <2>1 DEF QueuedNext
    <3>2. \A x \in Proc : "IPC" \in lockMask'[x] /\ awaiting'[x] = KERNEL => x = p
      BY <1>3, <1>4, <1>9
    <3> QED BY <1>3, <1>5, <1>9, <3>1, <3>2 DEF AwaitingIsOwed, Queued, QueuedNext
  <2>4. PendingIsCleaned' /\ NoLostWakeup'
    BY <1>3, <1>6, <1>9, OwedParts DEF PendingIsCleaned, NoLostWakeup
  <2> QED BY <1>7, <2>2, <2>3, <2>4 DEF OwedInv
<1> QED BY <1>8, <1>9, IpcSendAwaitingShape

LEMMA UserStepOwes == ASSUME IInv, IInv', OwedInv, NEW p \in Proc, UserStep(p) PROVE OwedInv'
<1>1. CASE UnbindPanics(p)
  BY <1>1, UnchangedOwes DEF UnbindPanics
<1> QED BY <1>1, DispatchOwes, YieldOwes, ByeOwes, AnsweredOwes, IpcSendOwes,
           IpcSendAwaitingOwes, IpcReplyOwes DEF UserStep

-----------------------------------------------------------------------------
(* The functions of the queue.                                             *)

LEMMA HeadSubject ==
  ASSUME IInv, OwedInv, NEW fn, Executing(fn)
  PROVE /\ fn \in {"waitForEvent", "start", "unlockIfAble"} => Subject \in Proc /\ Alive(state, Subject)
        /\ fn \in {"devCleanup", "ipcCleanup", "runloopCleanup"} =>
             Subject \in Proc /\ state[Subject] = "FINISHED" /\ lockMask[Subject] = {}
        /\ fn # "schedEvaluate" => scanned = 0 /\ queue[1] # Evaluate
<1>1. /\ 1 \in 1 .. Len(queue) /\ queue[1].fn = fn /\ queue[1].proc = Subject
      /\ Subject \in ProcOrKernel /\ (queue[1] = Evaluate => fn = "schedEvaluate")
  BY HeadTask
<1>2. fn \in {"waitForEvent", "start", "unlockIfAble"} => Subject # KERNEL /\ Alive(state, Subject)
  BY <1>1, OwedParts DEF SubjectsAreThere
<1>3. fn \in {"devCleanup", "ipcCleanup", "runloopCleanup"} =>
        Subject # KERNEL /\ state[Subject] = "FINISHED"
  BY <1>1, OwedParts DEF SubjectsAreThere
<1>4. fn # "schedEvaluate" => scanned = 0 /\ queue[1] # Evaluate
  BY <1>1, OwedParts DEF ScanIsRepeated
<1>5. \A x \in Proc : state[x] = "FINISHED" => lockMask[x] = {}
  BY IInvParts DEF BlockedByOneLock
<1> QED BY <1>1, <1>2, <1>3, <1>4, <1>5

\* A function that is at the head: it goes on (d = 0), or it returns (d = 1).
LEMMA FunctionOwes ==
  ASSUME IInv, IInv', OwedInv, NEW fn, Executing(fn), fn # "schedEvaluate",
         NEW d \in 0 .. 1, Shifts(d), UNCHANGED <<addressSpace, scanned, lastProcId>>,
         nextProcId' = nextProcId \/ nextProcId' # KERNEL,
         \A x \in Proc : Alive(state, x) => Alive(state', x),
         \A x \in Proc : state[x] = "FINISHED" =>
            state'[x] = "FINISHED" \/ (d = 1 /\ fn = "procCleanup" /\ x = Subject),
         \A x \in Proc : state'[x] = "READY" /\ state[x] # "READY" =>
            Len(queue') > Len(queue) - d \/ nextProcId' # KERNEL,
         \A x \in Proc :
           \/ awaiting'[x] = awaiting[x] /\ ("IPC" \in lockMask'[x] <=> "IPC" \in lockMask[x])
           \/ awaiting'[x] = KERNEL /\ "IPC" \notin lockMask'[x],
         \A x \in Proc : pending'[x] # 0 => pending[x] # 0,
         d = 1 /\ fn = "ipcCleanup" => \A x \in Proc : awaiting'[x] # Subject,
         d = 1 /\ fn = "unlockIfAble" => ~("IPC" \in lockMask'[Subject] /\ awaiting'[Subject] = KERNEL),
         d = 1 /\ fn = "runloopCleanup" => pending'[Subject] = 0,
         NoLostWakeup'
  PROVE OwedInv'
<1>1. queue[1] = Job(fn, Subject) /\ scanned = 0 /\ queue[1] # Evaluate
  BY HeadTask, HeadSubject
<1>2. \A f, x : queue[1] = Job(f, x) => f = fn /\ x = Subject
  BY HeadTask
<1>3. \A x \in Proc : /\ state'[x] = "READY" /\ state[x] # "READY" =>
                           Len(queue') > Len(queue) - d \/ (scanned = 0 /\ nextProcId' # KERNEL)
                      /\ state[x] = "FINISHED" =>
                           state'[x] = "FINISHED" \/ (d = 1 /\ queue[1] = Job("procCleanup", x))
                      /\ pending'[x] # 0 => pending[x] # 0 \/ Alive(state', x)
  BY <1>1
<1>4. d = 1 => \A x \in Proc :
        /\ awaiting'[x] # KERNEL => queue[1] # Job("ipcCleanup", awaiting'[x])
        /\ "IPC" \in lockMask'[x] /\ awaiting'[x] = KERNEL => queue[1] # Job("unlockIfAble", x)
        /\ pending'[x] # 0 => queue[1] # Job("runloopCleanup", x)
  BY <1>2
<1> QED BY <1>1, <1>3, <1>4, ShiftOwes

LEMMA SwitchOwes == ASSUME IInv, IInv', OwedInv, Switch PROVE OwedInv'
<1>1. /\ queue = <<>> /\ queue' = <<>> /\ scanned' = scanned /\ kernelState' = "READY"
      /\ UNCHANGED <<lockMask, pending, awaiting>> /\ awaiting \in [Proc -> ProcOrKernel]
  BY DEF Switch, SwitchTo, Drained, IInv, TypeOK
<1>2. \A x \in Proc : Alive(state, x) => Alive(state', x)
  BY SwitchStep, AliveStays
<1>3. SubjectsAreThere' /\ NoLostWakeup'
  BY <1>1, OwedParts DEF SubjectsAreThere, NoLostWakeup
<1>4. AwaitingIsOwed' /\ PendingIsCleaned'
  <2>1. \A t : ~Queued(t)
    BY <1>1 DEF Queued
  <2> QED BY <1>1, <1>2, <2>1, OwedParts DEF AwaitingIsOwed, PendingIsCleaned
<1>5. ScanIsRepeated' /\ IdleIsReviewed'
  BY <1>1, OwedParts DEF ScanIsRepeated, IdleIsReviewed
<1> QED BY <1>3, <1>4, <1>5 DEF OwedInv

\* The search of procSelect looks at every slot.
LEMMA SlotsAreAll ==
  ASSUME lastProcId \in ProcOrKernel, NEW x \in Proc
  PROVE \E j \in 0 .. MAX_PROC - 1 : Slot(j) = x
<1>1. CASE x > lastProcId
  <2>1. x - lastProcId - 1 \in 0 .. MAX_PROC - 1 /\ lastProcId + (x - lastProcId - 1) + 1 = x
    BY <1>1
  <2>2. x % MAX_PROC = x
    OBVIOUS
  <2> QED BY <2>1, <2>2 DEF Slot
<1>2. CASE x <= lastProcId
  <2> DEFINE j == x + MAX_PROC - lastProcId - 1
  <2>1. j \in 0 .. MAX_PROC - 1 /\ lastProcId + j + 1 = x + MAX_PROC
    BY <1>2
  <2>2. (x + MAX_PROC) % MAX_PROC = x
    OBVIOUS
  <2> QED BY <2>1, <2>2 DEF Slot
<1> QED BY <1>1, <1>2

LEMMA SchedEvaluateOwes == ASSUME IInv, IInv', OwedInv, SchedEvaluate PROVE OwedInv'
<1>0. /\ Executing("schedEvaluate") /\ queue[1].fn = "schedEvaluate" /\ 1 \in 1 .. Len(queue)
      /\ queue # <<>> /\ kernelState = "RUNNING" /\ kernelState' = "RUNNING"
      /\ UNCHANGED <<procVars, lastProcId, userVars>>
      /\ \A f, p : queue[1] = Job(f, p) => f = "schedEvaluate"
  BY HeadTask DEF SchedEvaluate
<1>1. /\ queue \in Seq(Task) /\ queue' \in Seq(Task) /\ Len(queue) \in Nat /\ Len(queue') \in Nat
      /\ lastProcId \in ProcOrKernel /\ scanned \in 0 .. MAX_PROC - 1
  BY LenProperties DEF IInv, TypeOK
<1>2. \A x \in Proc : state'[x] = state[x] /\ (Alive(state, x) => Alive(state', x))
  BY <1>0
<1>3. ASSUME NEW d \in 0 .. 1, Shifts(d)
      PROVE NoLostWakeup' /\ SubjectsAreThere' /\ AwaitingIsOwed' /\ PendingIsCleaned'
  <2>1. NoLostWakeup'
    BY <1>0, OwedParts DEF NoLostWakeup
  <2>2. SubjectsAreThere'
    BY <1>0, <1>2, <1>3, OwedParts, SubjectsKept
  <2>3. AwaitingIsOwed'
    BY <1>0, <1>2, <1>3, OwedParts, AwaitingKept
  <2>4. PendingIsCleaned'
    BY <1>0, <1>2, <1>3, OwedParts, PendingKept
  <2> QED BY <2>1, <2>2, <2>3, <2>4
<1>4. CASE Ready(state, Slot(scanned)) \/ scanned = MAX_PROC - 1
  <2>1. /\ nextProcId' = IF Ready(state, Slot(scanned)) THEN Slot(scanned) ELSE KERNEL
        /\ scanned' = 0 /\ queue' = Tail(queue) \o <<>>
    BY <1>4 DEF SchedEvaluate, Return
  <2>2. Shifts(1) /\ 1 \in 0 .. 1
    BY <1>0, <1>1, <2>1, ReturnShifts
  <2>3. ScanIsRepeated'
    BY <2>1 DEF ScanIsRepeated
  <2>4. IdleIsReviewed'
    <3>0. state' = state
      BY <1>0 DEF procVars
    <3> SUFFICES ASSUME nextProcId' = KERNEL, ~QueuedNext(Evaluate), NEW x \in Proc,
                        state'[x] = "READY"
                 PROVE FALSE
      BY DEF IdleIsReviewed, Queued, QueuedNext, Evaluate, Job
    <3>a. scanned \in Nat /\ lastProcId \in ProcOrKernel
      BY <1>1
    <3>1. Slot(scanned) \in Proc
      BY ONLY <3>a, SlotType
    <3>2. ~Ready(state, Slot(scanned)) /\ scanned = MAX_PROC - 1
      BY <1>4, <2>1, <3>1
    <3>3. PICK j \in 0 .. MAX_PROC - 1 : Slot(j) = x
      BY <1>1, SlotsAreAll
    <3>4. j \in 0 .. scanned - 1
      BY <1>1, <3>0, <3>2, <3>3 DEF Ready
    <3>5. PICK i \in 2 .. Len(queue) : queue[i] = Evaluate
      BY <3>0, <3>3, <3>4, OwedParts DEF ScanIsRepeated, Ready
    <3>6. i - 1 \in 1 .. Len(queue) - 1 /\ (i - 1) + 1 = i /\ i - 1 \in 1 .. Len(queue')
      BY <1>1, <2>2, <3>5 DEF Shifts
    <3>7. queue'[i - 1] = queue[i]
      BY <2>2, <3>6 DEF Shifts
    <3> QED BY <3>5, <3>6, <3>7 DEF QueuedNext
  <2> QED BY <1>3, <2>2, <2>3, <2>4 DEF OwedInv
<1>5. CASE ~(Ready(state, Slot(scanned)) \/ scanned = MAX_PROC - 1)
  <2>1. scanned' = scanned + 1 /\ UNCHANGED <<nextProcId, queue>>
    BY <1>5 DEF SchedEvaluate
  <2>2. Shifts(0) /\ 0 \in 0 .. 1
    BY <1>1, <2>1, StaysShifts
  <2>3. ScanIsRepeated'
    <3>1. queue[1] = Evaluate
      <4>1. queue[1] \in Task
        BY <1>0, <1>1, ElementOfSeq
      <4>2. queue[1].proc = KERNEL
        BY <1>0, OwedParts DEF SubjectsAreThere
      <4> QED BY <1>0, <4>1, <4>2 DEF Task, Evaluate, Job
    <3>2. ASSUME NEW j \in 0 .. scanned, Ready(state, Slot(j))
          PROVE \E i \in 2 .. Len(queue) : queue[i] = Evaluate
      <4>1. j \in 0 .. scanned - 1
        BY <1>1, <1>5, <3>2
      <4> QED BY <3>2, <4>1, OwedParts DEF ScanIsRepeated
    <3>3. state' = state /\ \A j : Slot(j)' = Slot(j)
      BY <1>0 DEF Slot
    <3>4. \A j \in 0 .. scanned' - 1 : j \in 0 .. scanned
      BY <1>1, <2>1
    <3> QED BY <1>0, <2>1, <3>1, <3>2, <3>3, <3>4 DEF ScanIsRepeated, Ready
  <2>4. IdleIsReviewed'
    BY <1>0, <2>1, OwedParts DEF IdleIsReviewed, Queued
  <2> QED BY <1>3, <2>2, <2>3, <2>4 DEF OwedInv
<1> QED BY <1>4, <1>5

LEMMA WaitForEventOwes == ASSUME IInv, IInv', OwedInv, WaitForEvent PROVE OwedInv'
<1> DEFINE p == Subject
<1>0. /\ Executing("waitForEvent") /\ p \in Proc /\ state[p] = "READY" /\ queue # <<>>
      /\ UNCHANGED <<addressSpace, scanned, lastProcId, nextProcId, pending, awaiting>>
  BY WaiterAtHead, HeadTask DEF WaitForEvent
<1>1. /\ state \in [Proc -> State] /\ lockMask \in [Proc -> SUBSET LockType]
      /\ queue \in Seq(Task)
  BY IInvParts
<1>2. CASE RunloopEmpty(p)
  <2>1. /\ lockMask' = [lockMask EXCEPT ![p] = @ \cup {"EVENT"}] /\ pending[p] = 0
        /\ state' = [state EXCEPT ![p] = "BLOCKED"] /\ queue' = Tail(queue) \o LockTasks(state, p)
    BY <1>2 DEF WaitForEvent, RunloopEmpty
  <2>2. Shifts(1)
    BY <1>0, <1>1, <2>1, TasksType, ReviewTasks, TailShifts
  <2>3. \A x \in Proc : state'[x] = IF x = p THEN "BLOCKED" ELSE state[x]
    BY <1>0, <1>1, <2>1
  <2>4. \A x \in Proc : /\ "IPC" \in lockMask'[x] <=> "IPC" \in lockMask[x]
                        /\ "EVENT" \in lockMask'[x] => x = p \/ "EVENT" \in lockMask[x]
    BY <1>0, <1>1, <2>1
  <2>5. NoLostWakeup'
    BY <1>0, <2>1, <2>4, OwedParts DEF NoLostWakeup
  <2>6. \A x \in Proc : /\ Alive(state, x) => Alive(state', x)
                        /\ state[x] = "FINISHED" => state'[x] = "FINISHED"
                        /\ state'[x] = "READY" => state[x] = "READY"
    BY <1>0, <2>3 DEF Alive
  <2> HIDE DEF p
  <2> QED BY <1>0, <2>2, <2>4, <2>5, <2>6, ZeroOne, FunctionOwes
<1>3. CASE ~RunloopEmpty(p)
  <2>1. UNCHANGED <<lockMask, state>> /\ queue' = Tail(queue) \o <<>>
    BY <1>3 DEF WaitForEvent, Return
  <2>2. Shifts(1)
    BY <1>0, <1>1, <2>1, ReturnShifts
  <2>3. NoLostWakeup'
    BY <1>0, <2>1, OwedParts DEF NoLostWakeup
  <2> HIDE DEF p
  <2> QED BY <1>0, <2>1, <2>2, <2>3, ZeroOne, FunctionOwes
<1> QED BY <1>2, <1>3

LEMMA StartOwes ==
  ASSUME IInv, IInv', OwedInv, StartFails \/ Spawn \/ AbandonSpawned \/ Hatch PROVE OwedInv'
<1>0. /\ Executing("start") /\ queue # <<>>
      /\ UNCHANGED <<addressSpace, scanned, lastProcId, pending, awaiting>>
  BY HeadTask DEF StartFails, Spawn, AbandonSpawned, Hatch
<1>1. /\ state \in [Proc -> State] /\ lockMask \in [Proc -> SUBSET LockType]
      /\ queue \in Seq(Task)
  BY IInvParts
<1>2. CASE StartFails
  <2>1. /\ UNCHANGED <<state, lockMask, nextProcId>> /\ queue' = Tail(queue) \o <<>>
    BY <1>2 DEF StartFails, Return
  <2>2. Shifts(1) /\ NoLostWakeup'
    BY <1>0, <1>1, <2>1, ReturnShifts, OwedParts DEF NoLostWakeup
  <2> QED BY <1>0, <2>1, <2>2, ZeroOne, FunctionOwes
<1>3. CASE Spawn
  <2>1. PICK p \in Proc : state[p] = "NONE" /\ state' = [state EXCEPT ![p] = "NEW"]
    BY <1>3 DEF Spawn
  <2>2. UNCHANGED <<lockMask, nextProcId, queue>>
    BY <1>3 DEF Spawn
  <2>3. Shifts(0) /\ NoLostWakeup'
    BY <1>0, <1>1, <2>2, StaysShifts, OwedParts DEF NoLostWakeup
  <2>4. \A x \in Proc : /\ Alive(state, x) => Alive(state', x)
                        /\ state[x] = "FINISHED" => state'[x] = "FINISHED"
                        /\ state'[x] = "READY" => state[x] = "READY"
    BY <1>1, <2>1 DEF Alive
  <2> QED BY <1>0, <2>2, <2>3, <2>4, ZeroOne, FunctionOwes
<1>4. CASE AbandonSpawned
  <2>1. /\ loading \in Proc /\ state[loading] = "NEW" /\ lockMask[loading] = {}
        /\ state' = [state EXCEPT ![loading] = "NONE"]
        /\ lockMask' = [lockMask EXCEPT ![loading] = {}]
        /\ queue' = Tail(queue) /\ nextProcId' = nextProcId
    BY <1>4, IInvParts DEF AbandonSpawned, TypeOK, CalledBackIsHatched, BlockedByOneLock
  <2>2. lockMask' = lockMask
    BY <1>1, <2>1
  <2>3. Shifts(1) /\ NoLostWakeup'
    BY <1>0, <1>1, <2>1, <2>2, ReturnShifts, OwedParts DEF NoLostWakeup
  <2>4. \A x \in Proc : /\ Alive(state, x) => Alive(state', x)
                        /\ state[x] = "FINISHED" => state'[x] = "FINISHED"
                        /\ state'[x] = "READY" => state[x] = "READY"
    BY <1>1, <2>1 DEF Alive
  <2>5. nextProcId' = nextProcId
    BY <2>1
  <2> QED BY <1>0, <2>2, <2>3, <2>4, <2>5, ZeroOne, FunctionOwes
<1>5. CASE Hatch
  <2>1. /\ loading \in Proc /\ state[loading] = "NEW" /\ lockMask' = lockMask
        /\ state' = [state EXCEPT ![loading] = "READY"] /\ queue' = Tail(queue) \o <<>>
    BY <1>5, IInvParts DEF Hatch, Return, TypeOK, CalledBackIsHatched
  <2>2. nextProcId' # KERNEL
    <3>1. CASE nextProcId < 0
      BY <1>5, <3>1 DEF Hatch
    <3>2. CASE ~(nextProcId < 0)
      BY <1>5, <3>2 DEF Hatch
    <3> QED BY <3>1, <3>2
  <2>3. Shifts(1) /\ NoLostWakeup'
    BY <1>0, <1>1, <2>1, ReturnShifts, OwedParts DEF NoLostWakeup
  <2>4. \A x \in Proc : /\ Alive(state, x) => Alive(state', x)
                        /\ state[x] = "FINISHED" => state'[x] = "FINISHED"
    BY <1>1, <2>1 DEF Alive
  <2>5. lockMask' = lockMask
    BY <2>1
  <2> QED BY <1>0, <2>2, <2>3, <2>4, <2>5, ZeroOne, FunctionOwes
<1> QED BY <1>2, <1>3, <1>4, <1>5

LEMMA CleanupOwes ==
  ASSUME IInv, IInv', OwedInv, DevCleanup \/ IpcCleanup \/ RunloopCleanup PROVE OwedInv'
<1>0. PICK fn \in {"devCleanup", "ipcCleanup", "runloopCleanup"} :
        /\ Executing(fn) /\ queue # <<>>
        /\ fn = "devCleanup" => UNCHANGED <<pending, awaiting>>
        /\ fn = "ipcCleanup" =>
             /\ pending' = pending /\ awaiting' = [awaiting EXCEPT ![Subject] = KERNEL]
             /\ \A x \in Proc : awaiting[x] # Subject
        /\ fn = "runloopCleanup" =>
             awaiting' = awaiting /\ pending' = [pending EXCEPT ![Subject] = 0]
  BY HeadTask DEF DevCleanup, IpcCleanup, RunloopCleanup
<1>1. /\ queue' = Tail(queue) \o <<>>
      /\ UNCHANGED <<state, lockMask, nextProcId, addressSpace, scanned, lastProcId>>
  BY DEF DevCleanup, IpcCleanup, RunloopCleanup, Return
<1>2. Subject \in Proc /\ lockMask[Subject] = {}
  BY <1>0, HeadSubject
<1>3. /\ awaiting \in [Proc -> ProcOrKernel] /\ pending \in [Proc -> 0 .. DISPATCH_QUEUE_SIZE]
      /\ queue \in Seq(Task)
  BY DEF IInv, TypeOK
<1>4. Shifts(1)
  BY <1>0, <1>1, <1>3, ReturnShifts
<1>5. \A x \in Proc :
        /\ \/ awaiting'[x] = awaiting[x] /\ ("IPC" \in lockMask'[x] <=> "IPC" \in lockMask[x])
           \/ awaiting'[x] = KERNEL /\ "IPC" \notin lockMask'[x]
        /\ pending'[x] = pending[x] \/ pending'[x] = 0
        /\ fn = "ipcCleanup" => awaiting'[x] # Subject
  BY <1>0, <1>1, <1>2, <1>3
<1>6. fn = "runloopCleanup" => pending'[Subject] = 0
  BY <1>0, <1>2, <1>3
<1>7. NoLostWakeup'
  BY <1>1, <1>5, OwedParts DEF NoLostWakeup
<1> QED BY <1>0, <1>1, <1>4, <1>5, <1>6, <1>7, ZeroOne, FunctionOwes

LEMMA ProcCleanupOwes == ASSUME IInv, IInv', OwedInv, ProcCleanup PROVE OwedInv'
<1> DEFINE p == Subject
<1>0. /\ Executing("procCleanup") /\ queue # <<>> /\ queue \in Seq(Task)
      /\ p \in Proc /\ state[p] = "FINISHED" /\ lockMask[p] = {}
      /\ state \in [Proc -> State] /\ lockMask \in [Proc -> SUBSET LockType]
  BY StoppedAtHead, HeadTask, IInvParts DEF ProcCleanup, BlockedByOneLock
<1>1. /\ state' = [state EXCEPT ![p] = "NONE"] /\ lockMask' = [lockMask EXCEPT ![p] = {}]
      /\ queue' = Tail(queue)
      /\ UNCHANGED <<nextProcId, addressSpace, scanned, lastProcId, pending, awaiting>>
  BY DEF ProcCleanup
<1>2. lockMask' = lockMask
  BY <1>0, <1>1
<1>3. Shifts(1) /\ NoLostWakeup'
  BY <1>0, <1>1, <1>2, ReturnShifts, OwedParts DEF NoLostWakeup
<1>4. \A x \in Proc : /\ Alive(state, x) => Alive(state', x)
                      /\ state[x] = "FINISHED" => state'[x] = "FINISHED" \/ x = p
                      /\ state'[x] = "READY" => state[x] = "READY"
  BY <1>0, <1>1 DEF Alive
<1> HIDE DEF p
<1> QED BY <1>0, <1>1, <1>2, <1>3, <1>4, ZeroOne, FunctionOwes DEF p

\* A function that drops the IPC lock of s, which awaits nothing any more.
LEMMA UnlockOwes ==
  ASSUME IInv, IInv', OwedInv, NEW fn \in {"ipcCleanup", "unlockIfAble"}, Executing(fn),
         NEW d \in 0 .. 1, NEW s \in Proc, d = 1 => fn = "unlockIfAble" /\ s = Subject,
         UNCHANGED <<addressSpace, scanned, lastProcId, nextProcId, pending>>,
         awaiting' = [awaiting EXCEPT ![s] = KERNEL],
         lockMask' = Unlocked(lockMask, s, "IPC"), state' = Woken(state, lockMask, s, "IPC"),
         queue' = (IF d = 0 THEN queue ELSE Tail(queue)) \o WakeTasks(state, lockMask, s, "IPC")
  PROVE OwedInv'
<1> DEFINE tasks == WakeTasks(state, lockMask, s, "IPC")
<1>0. /\ state \in [Proc -> State] /\ lockMask \in [Proc -> SUBSET LockType]
      /\ awaiting \in [Proc -> ProcOrKernel] /\ queue \in Seq(Task) /\ queue # <<>>
  BY HeadTask DEF IInv, TypeOK
<1>1. tasks \in Seq(Task) /\ AllReviews(tasks)
  BY TasksType, ReviewTasks
<1>2. Wakes(state, lockMask, s, "IPC") => Len(tasks) = 1
  BY ReviewTasks
<1> HIDE DEF tasks
<1>3. Shifts(d) /\ Len(queue') = Len(queue) - d + Len(tasks) /\ Len(queue) \in Nat
  <2>0. Len(queue) \in Nat /\ Len(tasks) \in Nat
    BY <1>0, <1>1, LenProperties
  <2>1. CASE d = 0
    <3>1. queue' = queue \o tasks
      BY <2>1 DEF tasks
    <3>2. Shifts(0) /\ Len(queue') = Len(queue) + Len(tasks)
      BY <1>0, <1>1, <3>1, AppendShifts
    <3> QED BY <2>0, <2>1, <3>2
  <2>2. CASE d = 1
    <3>1. queue' = Tail(queue) \o tasks
      BY <2>2 DEF tasks
    <3>2. Shifts(1) /\ Len(queue') = Len(queue) - 1 + Len(tasks)
      BY <1>0, <1>1, <3>1, TailShifts
    <3> QED BY <2>0, <2>2, <3>2
  <2> QED BY <2>1, <2>2
<1>4. \A x \in Proc : \/ state'[x] = state[x]
                      \/ /\ state[x] = "BLOCKED" /\ state'[x] = "READY"
                         /\ Wakes(state, lockMask, s, "IPC")
  BY <1>0 DEF Woken, Wakes
<1>5. ASSUME NEW x \in Proc, state'[x] = "READY", state[x] # "READY"
      PROVE Len(queue') > Len(queue) - d
  <2>1. Len(tasks) = 1
    BY <1>2, <1>4, <1>5, Zenon
  <2> QED BY <1>3, <2>1
<1>6. \A x \in Proc : /\ Alive(state, x) => Alive(state', x)
                      /\ state[x] = "FINISHED" => state'[x] = "FINISHED"
  BY <1>4 DEF Alive
<1>7. \A x \in Proc : /\ x = s => "IPC" \notin lockMask'[x] /\ awaiting'[x] = KERNEL
                      /\ x # s => lockMask'[x] = lockMask[x] /\ awaiting'[x] = awaiting[x]
                      /\ "EVENT" \in lockMask'[x] => "EVENT" \in lockMask[x]
  BY <1>0 DEF Unlocked
<1>8. NoLostWakeup'
  BY <1>7, OwedParts DEF NoLostWakeup
<1>9. /\ fn # "schedEvaluate" /\ fn # "runloopCleanup" /\ ~(d = 1 /\ fn = "ipcCleanup")
      /\ d = 1 => ~("IPC" \in lockMask'[Subject] /\ awaiting'[Subject] = KERNEL)
  BY <1>7
<1>10. \A x \in Proc :
         \/ awaiting'[x] = awaiting[x] /\ ("IPC" \in lockMask'[x] <=> "IPC" \in lockMask[x])
         \/ awaiting'[x] = KERNEL /\ "IPC" \notin lockMask'[x]
  BY <1>7
<1> QED BY <1>3, <1>5, <1>6, <1>8, <1>9, <1>10, FunctionOwes

LEMMA ReleaseOwes == ASSUME IInv, IInv', OwedInv, FailReply \/ UnlockIfAble PROVE OwedInv'
<1>1. CASE FailReply
  <2>1. PICK s \in Proc : /\ awaiting' = [awaiting EXCEPT ![s] = KERNEL]
                          /\ lockMask' = Unlocked(lockMask, s, "IPC")
                          /\ state' = Woken(state, lockMask, s, "IPC")
                          /\ queue' = queue \o WakeTasks(state, lockMask, s, "IPC")
    BY <1>1 DEF FailReply
  <2>2. /\ Executing("ipcCleanup")
        /\ UNCHANGED <<addressSpace, scanned, lastProcId, nextProcId, pending>>
    BY <1>1 DEF FailReply
  <2> QED BY <2>1, <2>2, ZeroOne, UnlockOwes
<1>2. CASE UnlockIfAble
  <2> DEFINE p == Subject
  <2>0. /\ Executing("unlockIfAble") /\ p \in Proc /\ queue # <<>> /\ queue \in Seq(Task)
        /\ awaiting \in [Proc -> ProcOrKernel]
        /\ UNCHANGED <<addressSpace, scanned, lastProcId, nextProcId, pending, awaiting>>
    BY <1>2, HeadSubject, HeadTask, IInvParts DEF UnlockIfAble, TypeOK
  <2>1. CASE awaiting[p] = KERNEL
    <3>1. /\ lockMask' = Unlocked(lockMask, p, "IPC") /\ state' = Woken(state, lockMask, p, "IPC")
          /\ queue' = Tail(queue) \o WakeTasks(state, lockMask, p, "IPC")
      BY <1>2, <2>1 DEF UnlockIfAble, Return
    <3>2. awaiting' = [awaiting EXCEPT ![p] = KERNEL]
      BY <2>0, <2>1
    <3> HIDE DEF p
    <3> QED BY <2>0, <3>1, <3>2, ZeroOne, UnlockOwes DEF p
  <2>2. CASE awaiting[p] # KERNEL
    <3>1. UNCHANGED <<lockMask, state>> /\ queue' = Tail(queue) \o <<>>
      BY <1>2, <2>2 DEF UnlockIfAble, Return
    <3>2. Shifts(1) /\ NoLostWakeup'
      BY <2>0, <3>1, ReturnShifts, OwedParts DEF NoLostWakeup
    <3> QED BY <2>0, <2>2, <3>1, <3>2, ZeroOne, FunctionOwes
  <2> QED BY <2>1, <2>2
<1> QED BY <1>1, <1>2

-----------------------------------------------------------------------------

LEMMA NotifyUnboundOwes == ASSUME IInv, IInv', OwedInv, NotifyUnbound PROVE OwedInv'
<1>0. /\ state \in [Proc -> State] /\ lockMask \in [Proc -> SUBSET LockType] /\ queue # <<>>
      /\ pending \in [Proc -> 0 .. DISPATCH_QUEUE_SIZE] /\ queue \in Seq(Task)
      /\ Executing("ipcCleanup")
      /\ UNCHANGED <<addressSpace, scanned, lastProcId, nextProcId, awaiting>>
  BY HeadTask DEF NotifyUnbound, IInv, TypeOK
<1>1. PICK r \in Proc :
        IF Accepts(state, r, 1)
        THEN /\ pending' = [pending EXCEPT ![r] = @ + 1]
             /\ lockMask' = Unlocked(lockMask, r, "EVENT")
             /\ state' = Woken(state, lockMask, r, "EVENT")
             /\ queue' = queue \o DeliverTasks(state, lockMask, r, 1)
        ELSE UNCHANGED <<pending, lockMask, state, queue>>
  BY DEF NotifyUnbound, IInv, TypeOK
<1>2. CASE Accepts(state, r, 1)
  <2> DEFINE tasks == DeliverTasks(state, lockMask, r, 1)
  <2>1. tasks \in Seq(Task) /\ AllReviews(tasks) /\ Len(tasks) > 0
    BY DeliverReviews
  <2> HIDE DEF tasks
  <2>2. Shifts(0) /\ Len(queue') = Len(queue) + Len(tasks) /\ Len(queue) \in Nat /\ Len(tasks) \in Nat
    BY <1>0, <1>1, <1>2, <2>1, AppendShifts, LenProperties DEF tasks
  <2>w. state' = Woken(state, lockMask, r, "EVENT")
    BY <1>1, <1>2
  <2>3. \A x \in Proc : state'[x] = state[x] \/ (state[x] = "BLOCKED" /\ state'[x] = "READY")
    <3>1. \A x \in Proc :
            \/ Woken(state, lockMask, r, "EVENT")[x] = state[x]
            \/ x = r /\ state[x] = "BLOCKED" /\ Woken(state, lockMask, r, "EVENT")[x] = "READY"
      BY <1>0, WokenStates
    <3> QED BY <2>w, <3>1, Zenon
  <2>4. \A x \in Proc : /\ "IPC" \in lockMask'[x] <=> "IPC" \in lockMask[x]
                        /\ "EVENT" \in lockMask'[x] => x # r /\ "EVENT" \in lockMask[x]
    BY <1>0, <1>1, <1>2 DEF Unlocked
  <2>5. \A x \in Proc : x # r => pending'[x] = pending[x]
    BY <1>0, <1>1, <1>2
  <2>6. NoLostWakeup'
    BY <2>4, <2>5, OwedParts DEF NoLostWakeup
  <2>7. \A x \in Proc : /\ Alive(state, x) => Alive(state', x)
                        /\ state[x] = "FINISHED" => state'[x] = "FINISHED"
    BY <2>3 DEF Alive
  <2>8. \A x \in Proc : pending'[x] # 0 => pending[x] # 0 \/ Alive(state', x)
    BY <1>2, <2>5, <2>7 DEF Accepts
  <2>9. Len(queue') > Len(queue) - 0
    BY <2>1, <2>2
  <2> QED BY <1>0, <2>2, <2>4, <2>6, <2>7, <2>8, <2>9, ZeroOne, ShiftOwes
<1>3. CASE ~Accepts(state, r, 1)
  <2>1. UNCHANGED <<pending, lockMask, state, queue>>
    BY <1>1, <1>3
  <2>2. Shifts(0) /\ NoLostWakeup'
    BY <1>0, <2>1, StaysShifts, OwedParts DEF NoLostWakeup
  <2> QED BY <1>0, <2>1, <2>2, ZeroOne, ShiftOwes
<1> QED BY <1>2, <1>3

LEMMA InitOwes == Init => OwedInv
BY DEF Init, OwedInv, NoLostWakeup, SubjectsAreThere, AwaitingIsOwed, PendingIsCleaned,
       ScanIsRepeated, IdleIsReviewed

LEMMA NextOwes == IInv /\ IInv' /\ OwedInv /\ [Next]_vars => OwedInv'
<1> SUFFICES ASSUME IInv, IInv', OwedInv, [Next]_vars PROVE OwedInv'
  OBVIOUS
<1>1. CASE KernelStep
  BY <1>1, SwitchOwes, SchedEvaluateOwes, WaitForEventOwes, StartOwes, CleanupOwes,
     ProcCleanupOwes, ReleaseOwes, NotifyUnboundOwes DEF KernelStep
<1>2. CASE Tick \/ KeyPress
  BY <1>2, TickOwes, KeyPressOwes
<1>3. CASE \E p \in Proc : UserStep(p)
  BY <1>3, UserStepOwes
<1>4. CASE UNCHANGED vars
  BY <1>4, UnchangedOwes DEF vars
<1> QED BY <1>1, <1>2, <1>3, <1>4 DEF Next

\* What the kernel's queue owes to each process is there, whatever came between
\* the call that queued it and the function that pays it (OwedInv).
THEOREM Owed == Spec => []OwedInv
<1>1. Init => OwedInv
  BY InitOwes
<1>2. IInv /\ IInv' /\ OwedInv /\ [Next]_vars => OwedInv'
  BY NextOwes
<1> QED BY <1>1, <1>2, Safe, PTL DEF Spec

\* No wakeup is lost between the test k_scr_usr_waitForEvent makes and its lock:
\* who waits for an event has an empty run loop (NoLostWakeup).
THEOREM WakeupsAreKept == Spec => []NoLostWakeup
<1>1. OwedInv => NoLostWakeup
  BY DEF OwedInv
<1> QED BY <1>1, Owed, PTL

\* No schedule is lost: when the kernel has nothing left to do and nobody to
\* switch to, no process is READY (IdleOnlyIfNobodyReady).
THEOREM SchedulesAreKept == Spec => []IdleOnlyIfNobodyReady
<1>1. OwedInv => IdleOnlyIfNobodyReady
  BY DEF OwedInv, IdleIsReviewed, IdleOnlyIfNobodyReady, Queued
<1> QED BY <1>1, Owed, PTL

\* Who is blocked on a reply has somebody left to release it: a handler that is
\* alive, or a function of the queue that fails the reply (ReplyIsOwed).
THEOREM RepliesAreOwed == Spec => []ReplyIsOwed
<1>1. OwedInv => ReplyIsOwed
  BY DEF OwedInv, AwaitingIsOwed, ReplyIsOwed, Queued
<1> QED BY <1>1, Owed, PTL

\* A start function finds the page directory of its caller in CR3: nothing comes
\* between the call and the function that changes it (StartReadsItsCaller).
THEOREM StartFindsItsCaller == Spec => []StartReadsItsCaller
<1>1. IInv /\ OwedInv => StartReadsItsCaller
  <2> SUFFICES ASSUME IInv, OwedInv, queue # <<>>, Head(queue).fn = "start"
               PROVE addressSpace = Head(queue).proc
    BY DEF StartReadsItsCaller
  <2>1. queue[1] = Head(queue) /\ 1 \in 1 .. Len(queue)
    BY IInvParts, EmptySeq, LenProperties, HeadTailProperties
  <2> QED BY <2>1, OwedParts DEF SubjectsAreThere
<1> QED BY <1>1, Safe, Owed, PTL

\* A slot is handed out clean: no lock, no item, no reply, no listener and no
\* function of the queue is left of the process that had it (FreeSlotIsClean).
THEOREM SlotsAreClean == Spec => []FreeSlotIsClean
<1>1. ASSUME IInv, OwedInv, NEW p \in Proc, state[p] \in {"NONE", "NEW"}
      PROVE /\ lockMask[p] = {} /\ pending[p] = 0
            /\ awaiting[p] = KERNEL /\ \A q \in Proc : awaiting[q] # p
            /\ p \notin ipcListeners /\ listener # p
            /\ \A i \in 1 .. Len(queue) : queue[i].proc # p
  <2>1. ~Alive(state, p) /\ state[p] # "FINISHED" /\ state[p] # "READY"
    BY <1>1 DEF Alive
  <2>2. lockMask[p] = {} /\ p \notin ipcListeners /\ listener # p
    BY <1>1, IInvParts DEF BlockedByOneLock, CalledBackIsHatched
  <2>3. \A i \in 1 .. Len(queue) : queue[i].proc # p
    <3> SUFFICES ASSUME NEW i \in 1 .. Len(queue), queue[i].proc = p PROVE FALSE
      OBVIOUS
    <3>1. queue[i] \in Task
      BY <1>1, IInvParts, ElementOfSeq
    <3>2. queue[i].fn \in Function
      BY <3>1 DEF Task
    <3>3. queue[i].fn \in {"schedEvaluate", "procCleanup"}
      BY <1>1, <2>1, <3>2, OwedParts DEF SubjectsAreThere, Function
    <3> QED BY <1>1, <2>1, <3>3, OwedParts, IInvParts DEF SubjectsAreThere, StoppedIsFinished
  <2>4. \A fn : ~Queued(Job(fn, p))
    BY <2>3, TaskFields DEF Queued
  <2>5. pending[p] = 0 /\ awaiting[p] = KERNEL
    BY <1>1, <2>1, <2>2, <2>4, OwedParts DEF PendingIsCleaned, AwaitingIsOwed
  <2>6. \A q \in Proc : awaiting[q] # p
    BY <1>1, <2>1, <2>4, OwedParts DEF AwaitingIsOwed
  <2> QED BY <2>2, <2>3, <2>5, <2>6
<1>2. IInv /\ OwedInv => FreeSlotIsClean
  BY <1>1 DEF FreeSlotIsClean
<1> QED BY <1>2, Safe, Owed, PTL

-----------------------------------------------------------------------------
(* How long the queue gets: BurstInv, over a step that shifts the queue.   *)

LEMMA TaskCounts ==
  ASSUME NEW p \in ProcOrKernel, NEW st, NEW lm, NEW type
  PROVE /\ Len(LockTasks(st, p)) \in 0 .. 1
        /\ Len(WakeTasks(st, lm, p, type)) = IF Wakes(st, lm, p, type) THEN 1 ELSE 0
<1>1. Len(<<>>) = 0 /\ Len(<<Evaluate>>) = 1 /\ <<Evaluate>> \in Seq(Task)
  BY EvaluateType
<1>2. Len(LockTasks(st, p)) \in 0 .. 1
  BY <1>1 DEF LockTasks
<1>3. Len(WakeTasks(st, lm, p, type)) = IF Wakes(st, lm, p, type) THEN 1 ELSE 0
  BY <1>1 DEF WakeTasks
<1> QED BY <1>2, <1>3

LEMMA ProcIsFinite == IsFiniteSet(Proc) /\ Cardinality(Proc) = MAX_PROC
BY FS_Interval

LEMMA BoundType ==
  /\ QueueBound \in Nat /\ QueueBound >= DISPATCH_QUEUE_SIZE + 6 + 2 * MAX_BINDING
  /\ QueueBound >= DISPATCH_QUEUE_SIZE + MAX_PROC + 3 + 2 * MAX_BINDING
  /\ MAX_BINDING \in Nat /\ 2 * MAX_BINDING \in Nat
BY DEF QueueBound

LEMMA ExpectedType ==
  ASSUME TypeOK
  PROVE /\ Len(queue) \in Nat /\ TicksToCome \in 0 .. 1
        /\ KeysToCome \in 0 .. DISPATCH_QUEUE_SIZE + 1
        /\ Expected = Len(queue) + TicksToCome + KeysToCome
        /\ IsFiniteSet(ToFail) /\ Cardinality(ToFail) \in Nat
        /\ NoticesToCome \in 0 .. 2 * MAX_BINDING
<1>1. Len(queue) \in Nat /\ TicksToCome \in 0 .. 1
  BY LenProperties DEF TypeOK, TicksToCome
<1>2. KeysToCome \in 0 .. DISPATCH_QUEUE_SIZE + 1
  <2>1. CASE listener = KERNEL
    BY <2>1 DEF KeysToCome
  <2>2. CASE listener # KERNEL
    <3>1. pending[listener] \in 0 .. DISPATCH_QUEUE_SIZE
      BY <2>2 DEF TypeOK
    <3> QED BY <2>2, <3>1 DEF KeysToCome
  <2> QED BY <2>1, <2>2
<1>3. ToFail \in SUBSET Proc
  BY DEF ToFail
<1>4. NoticesToCome \in 0 .. 2 * MAX_BINDING
  BY DEF NoticesToCome, TypeOK
<1> QED BY <1>1, <1>2, <1>3, <1>4, ProcIsFinite, FS_Subset, FS_CardinalityType DEF Expected

LEMMA ExpectedTypeNext ==
  ASSUME TypeOK'
  PROVE /\ Len(queue') \in Nat /\ TicksToCome' \in 0 .. 1
        /\ KeysToCome' \in 0 .. DISPATCH_QUEUE_SIZE + 1
        /\ Expected' = Len(queue') + TicksToCome' + KeysToCome'
        /\ IsFiniteSet(ToFail') /\ Cardinality(ToFail') \in Nat
        /\ NoticesToCome' \in 0 .. 2 * MAX_BINDING
<1>1. Len(queue') \in Nat /\ TicksToCome' \in 0 .. 1
  BY LenProperties DEF TypeOK, TicksToCome
<1>2. KeysToCome' \in 0 .. DISPATCH_QUEUE_SIZE + 1
  <2>1. CASE listener' = KERNEL
    BY <2>1 DEF KeysToCome
  <2>2. CASE listener' # KERNEL
    <3>1. pending'[listener'] \in 0 .. DISPATCH_QUEUE_SIZE
      BY <2>2 DEF TypeOK
    <3> QED BY <2>2, <3>1 DEF KeysToCome
  <2> QED BY <2>1, <2>2
<1>3. ToFail' \in SUBSET Proc
  BY DEF ToFail
<1>4. NoticesToCome' \in 0 .. 2 * MAX_BINDING
  <2>1. unbound' \in 0 .. MAX_BINDING
    BY DEF TypeOK
  <2>2. /\ \A u \in 0 .. MAX_BINDING : 2 * (MAX_BINDING - u) \in 0 .. 2 * MAX_BINDING
        /\ 0 \in 0 .. 2 * MAX_BINDING
    OBVIOUS
  <2> QED BY <2>1, <2>2 DEF NoticesToCome
<1> QED BY <1>1, <1>2, <1>3, <1>4, ProcIsFinite, FS_Subset, FS_CardinalityType DEF Expected

\* What BurstInv says of the order of the cleanups.
CleanupsInOrder(q) ==
  \A i, j \in 1 .. Len(q) :
    /\ q[i].fn = "devCleanup" /\ q[j].fn \in {"ipcCleanup", "runloopCleanup"} => i < j
    /\ q[i].fn = "ipcCleanup" /\ q[j].fn = "ipcCleanup" => i = j

IpcIsToCome(q) == \E i \in 1 .. Len(q) : q[i].fn = "ipcCleanup"

LEMMA ShiftsOrder ==
  ASSUME queue \in Seq(Task), queue' \in Seq(Task), NEW d \in 0 .. 1, Shifts(d), CleanupsInOrder(queue)
  PROVE /\ CleanupsInOrder(queue')
        /\ DevicesAreToCome' => DevicesAreToCome
        /\ DevicesAreToCome /\ ~DevicesAreToCome' => d = 1 /\ queue[1].fn = "devCleanup"
        /\ \A t : t # Evaluate /\ QueuedNext(t) => Queued(t)
        /\ IpcIsToCome(queue') => IpcIsToCome(queue) /\ ~(d = 1 /\ queue[1].fn = "ipcCleanup")
<1>0. Len(queue) \in Nat /\ Len(queue') \in Nat /\ Evaluate.fn = "schedEvaluate"
  BY LenProperties, TaskFields
<1>1. \A i \in 1 .. Len(queue') :
        \/ queue'[i] = Evaluate
        \/ i + d \in 1 .. Len(queue) /\ queue'[i] = queue[i + d]
  BY <1>0 DEF Shifts
<1>2. CleanupsInOrder(queue')
  <2> SUFFICES ASSUME NEW i \in 1 .. Len(queue'), NEW j \in 1 .. Len(queue'),
                      queue'[i].fn \in {"devCleanup", "ipcCleanup"},
                      queue'[j].fn \in {"ipcCleanup", "runloopCleanup"}
               PROVE /\ queue'[i].fn = "devCleanup" => i < j
                     /\ queue'[i].fn = "ipcCleanup" /\ queue'[j].fn = "ipcCleanup" => i = j
    BY DEF CleanupsInOrder
  <2>1. /\ i + d \in 1 .. Len(queue) /\ queue'[i] = queue[i + d]
        /\ j + d \in 1 .. Len(queue) /\ queue'[j] = queue[j + d]
    BY <1>0, <1>1
  <2>2. /\ queue'[i].fn = "devCleanup" => i + d < j + d
        /\ queue'[i].fn = "ipcCleanup" /\ queue'[j].fn = "ipcCleanup" => i + d = j + d
    BY <2>1 DEF CleanupsInOrder
  <2> QED BY <2>2
<1>3. DevicesAreToCome' => DevicesAreToCome
  BY <1>0, <1>1 DEF DevicesAreToCome
<1>4. \A t : t # Evaluate /\ QueuedNext(t) => Queued(t)
  BY <1>1 DEF QueuedNext, Queued
<1>5. ASSUME DevicesAreToCome, ~DevicesAreToCome'
      PROVE d = 1 /\ queue[1].fn = "devCleanup"
  <2>1. PICK i \in 1 .. Len(queue) : queue[i].fn = "devCleanup"
    BY <1>5 DEF DevicesAreToCome
  <2>2. CASE i - d \in 1 .. Len(queue) - d
    <3>1. i - d \in 1 .. Len(queue') /\ queue'[i - d] = queue[i]
      BY <1>0, <2>2 DEF Shifts
    <3> QED BY <1>5, <2>1, <3>1 DEF DevicesAreToCome
  <2>3. CASE i - d \notin 1 .. Len(queue) - d
    <3>1. i = 1 /\ d = 1
      BY <1>0, <2>1, <2>3
    <3> QED BY <2>1, <3>1
  <2> QED BY <2>2, <2>3
<1>6. ASSUME IpcIsToCome(queue')
      PROVE IpcIsToCome(queue) /\ ~(d = 1 /\ queue[1].fn = "ipcCleanup")
  <2>1. PICK i \in 1 .. Len(queue') : queue'[i].fn = "ipcCleanup"
    BY <1>6 DEF IpcIsToCome
  <2>2. i + d \in 1 .. Len(queue) /\ queue[i + d].fn = "ipcCleanup"
    BY <1>0, <1>1, <2>1
  <2>3. d = 1 /\ queue[1].fn = "ipcCleanup" => 1 = i + d
    BY <1>0, <2>2 DEF CleanupsInOrder
  <2> QED BY <2>1, <2>2, <2>3 DEF IpcIsToCome
<1> QED BY <1>2, <1>3, <1>4, <1>5, <1>6

\* The notices of a cleanup are as many as before until it returns.
LEMMA NoticesFall ==
  ASSUME TypeOK, TypeOK', NEW d \in 0 .. 1, Shifts(d), CleanupsInOrder(queue),
         unbound' = unbound \/ (d = 1 /\ queue[1].fn = "ipcCleanup")
  PROVE NoticesToCome' <= NoticesToCome
<1>1. queue \in Seq(Task) /\ queue' \in Seq(Task)
  BY DEF TypeOK
<1>2. IpcIsToCome(queue') => IpcIsToCome(queue) /\ unbound' = unbound
  BY <1>1, ShiftsOrder
<1>3. unbound \in 0 .. MAX_BINDING
  BY DEF TypeOK
<1>4. /\ NoticesToCome = IF IpcIsToCome(queue) THEN 2 * (MAX_BINDING - unbound) ELSE 0
      /\ NoticesToCome' = IF IpcIsToCome(queue') THEN 2 * (MAX_BINDING - unbound') ELSE 0
  BY DEF NoticesToCome, IpcIsToCome
<1> QED BY <1>2, <1>3, <1>4

LEMMA BurstShifts ==
  ASSUME IInv, IInv', BurstInv, NEW d \in 0 .. 1, Shifts(d),
         \A x \in Proc : awaiting'[x] = awaiting[x] \/ awaiting'[x] = KERNEL,
         \/ Expected' <= Expected /\ NoticesToCome' <= NoticesToCome
         \/ ~DevicesAreToCome /\ Expected' + NoticesToCome' <= Expected + NoticesToCome,
         d = 1 /\ queue[1].fn = "devCleanup" => Expected' < Expected
  PROVE BurstInv'
<1>0. /\ TypeOK /\ TypeOK' /\ queue \in Seq(Task) /\ queue' \in Seq(Task) /\ CleanupsInOrder(queue)
  BY DEF IInv, TypeOK, BurstInv, CleanupsInOrder
<1>1. /\ CleanupsInOrder(queue')
      /\ DevicesAreToCome' => DevicesAreToCome
      /\ DevicesAreToCome /\ ~DevicesAreToCome' => Expected' < Expected
      /\ \A t : t # Evaluate /\ QueuedNext(t) => Queued(t)
  BY <1>0, ShiftsOrder
<1>2. \A x : Job("ipcCleanup", x) # Evaluate
  BY TaskFields
<1>3. ToFail' \in SUBSET ToFail
  <2> SUFFICES ASSUME NEW s \in ToFail' PROVE s \in ToFail
    OBVIOUS
  <2>1. s \in Proc /\ awaiting'[s] # KERNEL /\ QueuedNext(Job("ipcCleanup", awaiting'[s]))
    BY DEF ToFail, Queued, QueuedNext
  <2>2. awaiting[s] # KERNEL /\ Queued(Job("ipcCleanup", awaiting[s]))
    BY <1>1, <1>2, <2>1
  <2> QED BY <2>1, <2>2 DEF ToFail
<1>4. /\ Expected \in Int /\ Expected' \in Int
      /\ Cardinality(ToFail) \in Nat /\ Cardinality(ToFail') \in Nat
      /\ Cardinality(ToFail') <= Cardinality(ToFail)
      /\ NoticesToCome \in 0 .. 2 * MAX_BINDING /\ NoticesToCome' \in 0 .. 2 * MAX_BINDING
  <2>1. IsFiniteSet(ToFail)
    BY <1>0, ExpectedType
  <2>2. Cardinality(ToFail') <= Cardinality(ToFail)
    BY <1>3, <2>1, FS_Subset
  <2>3. Expected \in Int /\ Cardinality(ToFail) \in Nat /\ NoticesToCome \in 0 .. 2 * MAX_BINDING
    BY <1>0, ExpectedType
  <2>4. Expected' \in Int /\ Cardinality(ToFail') \in Nat /\ NoticesToCome' \in 0 .. 2 * MAX_BINDING
    BY <1>0, ExpectedTypeNext
  <2> QED BY <2>2, <2>3, <2>4
<1>5. DevicesAreToCome =>
        /\ Expected <= DISPATCH_QUEUE_SIZE + 6
        /\ Expected + Cardinality(ToFail) <= DISPATCH_QUEUE_SIZE + MAX_PROC + 4
  BY DEF BurstInv
<1>6. ~DevicesAreToCome => Expected + Cardinality(ToFail) + NoticesToCome <= QueueBound
  BY DEF BurstInv
<1>7. DevicesAreToCome' =>
        /\ Expected' <= DISPATCH_QUEUE_SIZE + 6
        /\ Expected' + Cardinality(ToFail') <= DISPATCH_QUEUE_SIZE + MAX_PROC + 4
  BY <1>1, <1>4, <1>5
<1>8. ~DevicesAreToCome' => Expected' + Cardinality(ToFail') + NoticesToCome' <= QueueBound
  <2>1. CASE DevicesAreToCome
    <3>1. ASSUME ~DevicesAreToCome' PROVE Expected' + Cardinality(ToFail') <= DISPATCH_QUEUE_SIZE + MAX_PROC + 3
      BY <1>1, <1>4, <1>5, <2>1, <3>1
    <3> QED BY <1>4, <3>1, BoundType
  <2>2. CASE ~DevicesAreToCome
    <3>1. Expected' + NoticesToCome' <= Expected + NoticesToCome
      BY <1>4
    <3> QED BY <1>4, <1>6, <2>2, <3>1, BoundType
  <2> QED BY <2>1, <2>2
<1> QED BY <1>1, <1>7, <1>8 DEF BurstInv, CleanupsInOrder

\* What the run loop of the listener may still take only falls.
LEMMA KeysFall ==
  ASSUME TypeOK, TypeOK',
         listener' # KERNEL =>
           /\ listener' = listener /\ pending'[listener] >= pending[listener]
           /\ "EVENT" \in lockMask'[listener] \/ QueuedNext(Job("waitForEvent", listener)) =>
                "EVENT" \in lockMask[listener] \/ Queued(Job("waitForEvent", listener))
  PROVE KeysToCome' <= KeysToCome
<1>1. CASE listener' = KERNEL
  <2>1. KeysToCome' = 0
    BY <1>1 DEF KeysToCome
  <2> QED BY <2>1, ExpectedType
<1>2. CASE listener' # KERNEL
  <2>1. /\ listener \in Proc /\ listener' = listener
        /\ pending[listener] \in Nat /\ pending'[listener] \in Nat
    BY <1>2 DEF TypeOK
  <2>2. KeysToCome = DISPATCH_QUEUE_SIZE - pending[listener]
          + (IF "EVENT" \in lockMask[listener] \/ Queued(Job("waitForEvent", listener)) THEN 1 ELSE 0)
    BY <2>1 DEF KeysToCome
  <2>3. KeysToCome' = DISPATCH_QUEUE_SIZE - pending'[listener]
          + (IF "EVENT" \in lockMask'[listener] \/ QueuedNext(Job("waitForEvent", listener)) THEN 1 ELSE 0)
    BY <2>1 DEF KeysToCome, Queued, QueuedNext
  <2> QED BY <1>2, <2>1, <2>2, <2>3
<1> QED BY <1>1, <1>2

\* A function that runs: it drops itself or appends no more than it drops.
LEMMA FunctionBursts ==
  ASSUME IInv, IInv', BurstInv, NEW d \in 0 .. 1, Shifts(d), Len(queue') <= Len(queue),
         d = 1 /\ queue[1].fn = "devCleanup" => Len(queue') < Len(queue),
         executionTimeCounter' \in {executionTimeCounter, GRANULARITY_MS},
         unbound' = unbound \/ (d = 1 /\ queue[1].fn = "ipcCleanup"),
         \A x \in Proc : awaiting'[x] = awaiting[x] \/ awaiting'[x] = KERNEL,
         listener' # KERNEL =>
           /\ listener' = listener /\ pending'[listener] >= pending[listener]
           /\ "EVENT" \in lockMask'[listener] =>
                "EVENT" \in lockMask[listener] \/ Queued(Job("waitForEvent", listener))
  PROVE BurstInv'
<1>0. /\ TypeOK /\ TypeOK' /\ queue \in Seq(Task) /\ queue' \in Seq(Task) /\ CleanupsInOrder(queue)
  BY DEF IInv, TypeOK, BurstInv, CleanupsInOrder
<1>1. \A x : QueuedNext(Job("waitForEvent", x)) => Queued(Job("waitForEvent", x))
  <2>1. \A x : Job("waitForEvent", x) # Evaluate
    BY TaskFields
  <2> QED BY <1>0, <2>1, ShiftsOrder
<1>2. KeysToCome' <= KeysToCome
  BY <1>0, <1>1, KeysFall
<1>3. TicksToCome' <= TicksToCome
  BY <1>0 DEF TicksToCome, TypeOK
<1>4. /\ Len(queue) \in Nat /\ TicksToCome \in Nat /\ KeysToCome \in Nat
      /\ Expected = Len(queue) + TicksToCome + KeysToCome
  BY <1>0, ExpectedType
<1>5. /\ Len(queue') \in Nat /\ TicksToCome' \in Nat /\ KeysToCome' \in Nat
      /\ Expected' = Len(queue') + TicksToCome' + KeysToCome'
  BY <1>0, ExpectedTypeNext
<1>6. Len(queue') <= Len(queue)
  OBVIOUS
<1>7. Expected' <= Expected /\ (Len(queue') < Len(queue) => Expected' < Expected)
  BY ONLY <1>2, <1>3, <1>4, <1>5, <1>6, SMTT(30)
<1>8. NoticesToCome' <= NoticesToCome
  BY <1>0, NoticesFall
<1> QED BY <1>7, <1>8, BurstShifts

\* What the call of a process leaves in the queue, which was empty: all but bye.
LEMMA FewTasks ==
  ASSUME IInv', Len(queue') <= 4,
         \A i \in 1 .. Len(queue') : queue'[i].fn \notin {"devCleanup", "ipcCleanup"}
  PROVE BurstInv'
<1>0. TypeOK'
  BY DEF IInv
<1>1. \A x : ~QueuedNext(Job("ipcCleanup", x))
  BY TaskFields DEF QueuedNext
<1>2. ToFail' = {}
  BY <1>1 DEF ToFail, Queued, QueuedNext
<1>3. Expected' <= DISPATCH_QUEUE_SIZE + 6 /\ Expected' \in Int
  BY <1>0, ExpectedTypeNext
<1>4. Cardinality(ToFail') \in Nat /\ Cardinality(ToFail') <= 0
  BY <1>2, FS_EmptySet
<1>5. NoticesToCome' = 0
  BY DEF NoticesToCome
<1>7. Expected' + Cardinality(ToFail') + NoticesToCome' <= QueueBound
  BY <1>3, <1>4, <1>5, BoundType
<1>6. ~DevicesAreToCome' /\ CleanupsInOrder(queue')
  BY DEF CleanupsInOrder, DevicesAreToCome
<1> QED BY <1>6, <1>7 DEF BurstInv, CleanupsInOrder

-----------------------------------------------------------------------------
(* Interrupts and calls.                                                   *)

LEMMA IsrEndQueue == ASSUME NEW st, NEW q, NEW alarm, IsrEnd(st, q, alarm) PROVE queue' = q
BY Zenon DEF IsrEnd

LEMMA TickBursts == ASSUME IInv, IInv', BurstInv, Tick PROVE BurstInv'
<1> DEFINE tasks == IF executionTimeCounter + 1 < GRANULARITY_MS THEN <<>> ELSE <<Evaluate>>
<1>0. /\ TypeOK /\ TypeOK' /\ queue \in Seq(Task) /\ queue' \in Seq(Task)
      /\ executionTimeCounter \in Nat /\ Len(queue) \in Nat
  <2>1. TypeOK /\ TypeOK'
    BY DEF IInv
  <2>2. queue \in Seq(Task) /\ executionTimeCounter \in 0 .. GRANULARITY_MS
    BY <2>1 DEF TypeOK
  <2>3. queue' \in Seq(Task)
    BY <2>1 DEF TypeOK
  <2> QED BY <2>1, <2>2, <2>3, LenProperties
<1>a. /\ executionTimeCounter < GRANULARITY_MS
      /\ executionTimeCounter' = executionTimeCounter + 1
      /\ UNCHANGED <<listener, pending, lockMask, awaiting, unbound>>
  BY DEF Tick, IsrEnd
<1>1. tasks \in Seq(Task) /\ AllReviews(tasks) /\ Len(tasks) <= TicksToCome - TicksToCome'
      /\ Len(tasks) \in Nat
  <2>1. /\ AllReviews(<<>>) /\ AllReviews(<<Evaluate>>) /\ <<>> \in Seq(Task) /\ <<Evaluate>> \in Seq(Task)
        /\ Len(<<>>) = 0 /\ Len(<<Evaluate>>) = 1
    BY EvaluateType DEF AllReviews
  <2> QED BY <1>0, <1>a, <2>1 DEF TicksToCome
<1>2. queue' = queue \o tasks
  <2>1. queue \o <<>> = queue /\ queue \o <<Evaluate>> = Append(queue, Evaluate)
    BY <1>0, EvaluateType, AppendIsConcat, ConcatEmptySeq
  <2>2. queue' = IF executionTimeCounter + 1 < GRANULARITY_MS THEN queue ELSE Append(queue, Evaluate)
    BY IsrEndQueue DEF Tick
  <2> QED BY <2>1, <2>2
<1> HIDE DEF tasks
<1>3. Shifts(0) /\ Len(queue') = Len(queue) + Len(tasks) /\ 0 \in 0 .. 1
  BY <1>0, <1>1, <1>2, AppendShifts
<1>4. \A x : QueuedNext(Job("waitForEvent", x)) => Queued(Job("waitForEvent", x))
  <2>1. \A x : Job("waitForEvent", x) # Evaluate
    BY TaskFields
  <2>2. CleanupsInOrder(queue)
    BY DEF BurstInv, CleanupsInOrder
  <2> QED BY <1>0, <1>3, <2>1, <2>2, ShiftsOrder
<1>5. KeysToCome' <= KeysToCome
  <2>1. listener' # KERNEL => pending[listener] \in Nat
    BY <1>0, <1>a DEF TypeOK
  <2> QED BY <1>0, <1>a, <1>4, <2>1, KeysFall
<1>6. /\ Len(queue) \in Nat /\ TicksToCome \in Nat /\ KeysToCome \in Nat
      /\ Expected = Len(queue) + TicksToCome + KeysToCome
  BY <1>0, ExpectedType
<1>7. /\ Len(queue') \in Nat /\ TicksToCome' \in Nat /\ KeysToCome' \in Nat
      /\ Expected' = Len(queue') + TicksToCome' + KeysToCome'
  BY <1>0, ExpectedTypeNext
<1>8. Expected' <= Expected
  BY ONLY <1>1, <1>3, <1>5, <1>6, <1>7
<1>9. NoticesToCome' <= NoticesToCome
  <2>1. CleanupsInOrder(queue)
    BY DEF BurstInv, CleanupsInOrder
  <2> QED BY <1>0, <1>a, <1>3, <2>1, NoticesFall
<1> QED BY <1>0, <1>a, <1>3, <1>8, <1>9, ZeroOne, BurstShifts


LEMMA UnchangedBursts ==
  ASSUME BurstInv,
         UNCHANGED <<queue, executionTimeCounter, listener, pending, lockMask, awaiting, unbound>>
  PROVE BurstInv'
<1>1. /\ Expected' = Expected /\ ToFail' = ToFail /\ NoticesToCome' = NoticesToCome
      /\ DevicesAreToCome' <=> DevicesAreToCome
  <2>1. TicksToCome' = TicksToCome /\ KeysToCome' = KeysToCome
    BY DEF TicksToCome, KeysToCome, Queued
  <2>2. /\ ToFail' = ToFail /\ NoticesToCome' = NoticesToCome
        /\ DevicesAreToCome' <=> DevicesAreToCome
    BY DEF ToFail, NoticesToCome, DevicesAreToCome, Queued
  <2> QED BY <2>1, <2>2 DEF Expected
<1>2. CleanupsInOrder(queue')
  BY DEF BurstInv, CleanupsInOrder
<1> QED BY <1>1, <1>2 DEF BurstInv, CleanupsInOrder

\* A key: the listener's run loop takes one item more, and who is woken by it
\* waited for it.
LEMMA KeyPressBursts == ASSUME IInv, IInv', BurstInv, KeyPress PROVE BurstInv'
<1>1. CASE KeyAlarm # "none"
  BY <1>1, UnchangedBursts DEF KeyPress
<1>2. CASE KeyAlarm = "none"
  <2> DEFINE l == listener
             w == Wakes(state, lockMask, l, "EVENT")
             tasks == DeliverTasks(state, lockMask, l, 1)
  <2>0. TypeOK /\ TypeOK'
    BY DEF IInv
  <2>1. /\ l \in Proc /\ pending[l] \in Nat /\ pending[l] < DISPATCH_QUEUE_SIZE
        /\ queue \in Seq(Task) /\ queue' \in Seq(Task) /\ Len(queue) \in Nat
    <3>1. l \in Proc /\ Accepts(state, l, 1)
      BY <1>2, <2>0 DEF KeyAlarm, TypeOK
    <3>2. queue \in Seq(Task) /\ pending \in [Proc -> 0 .. DISPATCH_QUEUE_SIZE]
      BY <2>0 DEF TypeOK
    <3>3. queue' \in Seq(Task)
      BY <2>0 DEF TypeOK
    <3> QED BY <3>1, <3>2, <3>3, LenProperties DEF Accepts
  <2>2. /\ pending' = [pending EXCEPT ![l] = @ + 1] /\ awaiting' = awaiting /\ listener' = l
        /\ lockMask' = [lockMask EXCEPT ![l] = @ \ {"EVENT"}]
        /\ executionTimeCounter' = GRANULARITY_MS /\ queue' = queue \o tasks /\ unbound' = unbound
    BY <1>2, IsrEndQueue DEF KeyPress, Unlocked, IsrEnd
  <2>3. /\ tasks \in Seq(Task) /\ AllReviews(tasks) /\ Len(tasks) \in Nat
        /\ Len(tasks) >= 1 /\ Len(tasks) <= 2
        /\ ~w => Len(tasks) = 1
    <3>1. 1 \in Nat /\ 1 + 1 = 2 /\ l \in ProcOrKernel
      BY <2>1
    <3>2. /\ tasks \in Seq(Task) /\ AllReviews(tasks) /\ Len(tasks) \in Nat
          /\ Len(tasks) >= 1 /\ Len(tasks) <= 1 + 1
      BY <3>1, DeliverReviews
    <3>3. ~w => Len(tasks) = 1
      BY <3>1, DeliverReviews, Zenon
    <3> QED BY <3>1, <3>2, <3>3, Zenon
  <2> HIDE DEF tasks
  <2>4. Shifts(0) /\ Len(queue') = Len(queue) + Len(tasks) /\ 0 \in 0 .. 1
    <3>1. queue \in Seq(Task) /\ tasks \in Seq(Task) /\ AllReviews(tasks) /\ queue' = queue \o tasks
      BY <2>1, <2>2, <2>3
    <3>2. Shifts(0) /\ Len(queue') = Len(queue) + Len(tasks)
      BY <3>1, AppendShifts
    <3> QED BY <3>2, ZeroOne
  <2>5. QueuedNext(Job("waitForEvent", l)) => Queued(Job("waitForEvent", l))
    <3>1. Job("waitForEvent", l) # Evaluate
      BY TaskFields
    <3>2. CleanupsInOrder(queue)
      BY DEF BurstInv, CleanupsInOrder
    <3> QED BY <2>1, <2>4, <3>1, <3>2, ShiftsOrder
  <2>6. "EVENT" \notin lockMask'[l] /\ pending'[l] = pending[l] + 1
    BY <2>0, <2>1, <2>2 DEF TypeOK
  <2>7. w => "EVENT" \in lockMask[l] /\ ~Queued(Job("waitForEvent", l))
    <3> SUFFICES ASSUME w PROVE "EVENT" \in lockMask[l] /\ ~Queued(Job("waitForEvent", l))
      OBVIOUS
    <3>1. state[l] = "BLOCKED" /\ lockMask[l] \ {"EVENT"} = {} /\ lockMask[l] # {}
      BY <2>1, IInvParts DEF Wakes, BlockedByOneLock
    <3>2. ~Queued(Job("waitForEvent", l))
      BY <3>1, IInvParts, TaskFields DEF WaiterIsReady, Queued
    <3> QED BY <3>1, <3>2
  <2> HIDE DEF w
  <2>8. KeysToCome' <= KeysToCome - Len(tasks)
    <3>1. KeysToCome = DISPATCH_QUEUE_SIZE - pending[l]
            + (IF "EVENT" \in lockMask[l] \/ Queued(Job("waitForEvent", l)) THEN 1 ELSE 0)
      BY <2>1 DEF KeysToCome
    <3>2. KeysToCome' = DISPATCH_QUEUE_SIZE - (pending[l] + 1)
            + (IF QueuedNext(Job("waitForEvent", l)) THEN 1 ELSE 0)
      BY <2>1, <2>2, <2>6 DEF KeysToCome, Queued, QueuedNext
    <3>n. Len(tasks) \in Nat /\ Len(tasks) <= 2 /\ pending[l] \in Nat
      BY <2>1, <2>3
    <3>3. CASE w
      <4>1. KeysToCome = DISPATCH_QUEUE_SIZE - pending[l] + 1
        BY <2>7, <3>1, <3>3
      <4>2. KeysToCome' = DISPATCH_QUEUE_SIZE - (pending[l] + 1) + 0
        BY <2>5, <2>7, <3>2, <3>3
      <4> QED BY <3>n, <4>1, <4>2
    <3>4. CASE ~w
      <4>1. Len(tasks) = 1
        BY <2>3, <3>4
      <4> QED BY <2>5, <3>n, <3>1, <3>2, <4>1
    <3> QED BY <3>3, <3>4
  <2>9. TicksToCome' = 0 /\ Len(tasks) \in Nat
    BY <2>2, <2>3 DEF TicksToCome
  <2>10. /\ Len(queue) \in Nat /\ TicksToCome \in Nat /\ KeysToCome \in Nat
         /\ Expected = Len(queue) + TicksToCome + KeysToCome
    BY <2>0, ExpectedType
  <2>11. /\ Len(queue') \in Nat /\ TicksToCome' \in Nat /\ KeysToCome' \in Nat
         /\ Expected' = Len(queue') + TicksToCome' + KeysToCome'
    BY <2>0, ExpectedTypeNext
  <2>12. Len(queue') = Len(queue) + Len(tasks)
    BY <2>4
  <2>13. Expected' <= Expected
    BY ONLY <2>8, <2>9, <2>10, <2>11, <2>12
  <2>14. NoticesToCome' <= NoticesToCome
    <3>1. CleanupsInOrder(queue)
      BY DEF BurstInv, CleanupsInOrder
    <3> QED BY <2>0, <2>2, <2>4, <3>1, NoticesFall
  <2> QED BY <2>2, <2>4, <2>13, <2>14, ZeroOne, BurstShifts
<1> QED BY <1>1, <1>2

\* A call but for bye leaves a few functions in the queue, which was empty.
LEMMA FewReviews ==
  ASSUME IInv', NEW tasks, Len(tasks) <= 4, queue' = tasks,
         \A i \in 1 .. Len(tasks) : tasks[i].fn \in {"schedEvaluate", "waitForEvent", "start", "unlockIfAble"}
  PROVE BurstInv'
BY FewTasks

LEMMA IpcSendBursts ==
  ASSUME IInv, IInv', OwedInv, NEW p \in Proc, NEW h \in Proc, NEW n \in 1 .. 2, IpcSend(p, h, n)
  PROVE BurstInv'
<1> DEFINE tasks == DeliverTasks(state, lockMask, h, n)
<1>0. queue = <<>> /\ Evaluate.fn = "schedEvaluate"
  BY CallerOwes, TaskFields DEF IpcSend
<1>1. CASE Accepts(state, h, n)
  <2>1. queue' = queue \o tasks
    BY <1>1, IsrEndQueue DEF IpcSend
  <2>2. /\ tasks \in Seq(Task) /\ AllReviews(tasks) /\ Len(tasks) \in Nat
        /\ Len(tasks) >= n /\ Len(tasks) <= n + 1
    BY DeliverReviews
  <2> HIDE DEF tasks
  <2>3. queue' = tasks
    BY <1>0, <2>1, <2>2, ConcatEmptySeq
  <2>4. Len(tasks) <= 4 /\ \A i \in 1 .. Len(tasks) : tasks[i].fn = "schedEvaluate"
    BY <1>0, <2>2 DEF AllReviews
  <2> QED BY <2>3, <2>4, FewReviews
<1>2. CASE ~Accepts(state, h, n)
  <2>1. queue' = <<>>
    BY <1>0, <1>2, IsrEndQueue DEF IpcSend
  <2> QED BY <2>1, FewReviews
<1> QED BY <1>1, <1>2

LEMMA IpcReplyBursts ==
  ASSUME IInv, IInv', OwedInv, NEW p \in Proc, NEW s \in Proc, NEW n \in 0 .. 1, IpcReply(p, s, n)
  PROVE BurstInv'
<1>1. queue = <<>> /\ Evaluate.fn = "schedEvaluate"
  BY CallerOwes, TaskFields DEF IpcReply
<1>2. PICK st \in [Proc -> State], tasks \in Seq(Task) :
        IsrEnd(st, queue \o tasks, "none") /\ AllReviews(tasks) /\ Len(tasks) <= 3
  BY IpcReplyShape, Zenon
<1>3. queue' = tasks
  BY <1>1, <1>2, IsrEndQueue, ConcatEmptySeq
<1>4. Len(tasks) <= 4 /\ \A i \in 1 .. Len(tasks) : tasks[i].fn = "schedEvaluate"
  BY <1>1, <1>2, LenProperties DEF AllReviews
<1> QED BY <1>3, <1>4, FewReviews

LEMMA IpcSendAwaitingBursts ==
  ASSUME IInv, IInv', OwedInv, NEW p \in Proc, NEW h \in Proc, NEW n \in 1 .. 2,
         IpcSendAwaiting(p, h, n)
  PROVE BurstInv'
<1>1. \/ AllReviews(queue') /\ Len(queue') \in 2 .. 4
      \/ queue' = <<Evaluate, Job("unlockIfAble", p)>>
  BY IpcSendAwaitingShape
<1>2. Evaluate.fn = "schedEvaluate" /\ Job("unlockIfAble", p).fn = "unlockIfAble"
  BY TaskFields
<1>3. /\ Len(queue') <= 4
      /\ \A i \in 1 .. Len(queue') : queue'[i] \in {Evaluate, Job("unlockIfAble", p)}
  <2>1. CASE AllReviews(queue') /\ Len(queue') \in 2 .. 4
    BY <2>1 DEF AllReviews
  <2>2. CASE queue' = <<Evaluate, Job("unlockIfAble", p)>>
    BY <2>2
  <2> QED BY <1>1, <2>1, <2>2
<1> QED BY <1>2, <1>3, FewTasks

\* The calls that queue one function, and those that queue none.
LEMMA OneTaskBursts ==
  ASSUME IInv, IInv', OwedInv, NEW p \in Proc,
         \/ CallWaitForEvent(p) \/ CallStart(p) \/ Yield(p)
         \/ GetItem(p) \/ IpcRegister(p) \/ DevListen(p) \/ DevRelease(p)
  PROVE BurstInv'
<1>1. CASE GetItem(p) \/ IpcRegister(p) \/ DevListen(p) \/ DevRelease(p)
  <2>1. queue' = <<>>
    BY <1>1, CallerOwes DEF GetItem, IpcRegister, DevListen, DevRelease, Answered
  <2> QED BY <2>1, FewReviews
<1>2. CASE CallWaitForEvent(p) \/ CallStart(p) \/ Yield(p)
  <2>1. PICK t \in {Evaluate, Job("waitForEvent", p), Job("start", p)} :
          Running(p) /\ IsrEnd(state, Append(queue, t), "none")
    BY <1>2 DEF CallWaitForEvent, CallStart, Dispatch, Yield
  <2>2. queue' = Append(<<>>, t)
    BY <2>1, CallerOwes, IsrEndQueue
  <2>3. t.fn \in {"schedEvaluate", "waitForEvent", "start", "unlockIfAble"}
    BY TaskFields
  <2>4. Len(queue') = 1 /\ queue'[1] = t
    BY <2>2
  <2>5. \A i \in 1 .. Len(queue') : queue'[i].fn \notin {"devCleanup", "ipcCleanup"}
    BY <2>3, <2>4
  <2> QED BY <2>4, <2>5, FewTasks
<1> QED BY <1>1, <1>2

LEMMA FewerThanAll ==
  ASSUME NEW p \in Proc
  PROVE /\ \A T : T \in SUBSET (Proc \ {p}) => Cardinality(T) \in Nat /\ Cardinality(T) <= MAX_PROC - 1
        /\ \A T, l : l \in Proc /\ l # p /\ T \in SUBSET ((Proc \ {p}) \ {l}) =>
                      Cardinality(T) <= MAX_PROC - 2
<1> DEFINE A == Proc
           B == A \ {p}
<1>1. IsFiniteSet(A) /\ Cardinality(A) = MAX_PROC /\ p \in A
  BY ProcIsFinite
<1> HIDE DEF A
<1>2. IsFiniteSet(B) /\ Cardinality(B) = MAX_PROC - 1
  BY <1>1, FS_RemoveElement
<1> HIDE DEF B
<1>3. ASSUME NEW T, T \in SUBSET B PROVE Cardinality(T) \in Nat /\ Cardinality(T) <= MAX_PROC - 1
  BY <1>2, <1>3, FS_Subset, FS_CardinalityType
<1>4. ASSUME NEW T, NEW l \in B, T \in SUBSET (B \ {l}) PROVE Cardinality(T) <= MAX_PROC - 2
  <2>1. IsFiniteSet(B \ {l}) /\ Cardinality(B \ {l}) = MAX_PROC - 2
    BY <1>2, FS_RemoveElement
  <2> DEFINE C == B \ {l}
  <2> HIDE DEF C
  <2>2. T \in SUBSET C /\ IsFiniteSet(C) /\ Cardinality(C) = MAX_PROC - 2
    BY <1>4, <2>1 DEF C
  <2> QED BY <2>2, FS_Subset
<1>5. \A l : l \in Proc /\ l # p => l \in B
  BY DEF A, B
<1> QED BY <1>3, <1>4, <1>5 DEF A, B

LEMMA ByeSum ==
  ASSUME NEW ticks, NEW keys, NEW fails, NEW expected, ticks \in Nat, keys \in Nat, fails \in Nat,
         ticks <= 0, keys <= DISPATCH_QUEUE_SIZE + 1,
         keys + fails <= DISPATCH_QUEUE_SIZE + MAX_PROC - 1, expected = 5 + ticks + keys
  PROVE expected <= DISPATCH_QUEUE_SIZE + 6 /\ expected + fails <= DISPATCH_QUEUE_SIZE + MAX_PROC + 4
OBVIOUS

\* Bye: the five functions come with all that the listener's run loop may still
\* take, and of the senders that are to be failed only the listener may be short
\* of it: it waits for a reply or for a key.
LEMMA ByeBursts == ASSUME IInv, IInv', OwedInv, NEW p \in Proc, Bye(p) PROVE BurstInv'
<1> DEFINE q == ByeTasks(p)
           l == listener
<1>0. /\ TypeOK /\ TypeOK' /\ awaiting \in [Proc -> ProcOrKernel] /\ listener \in ProcOrKernel
  BY DEF IInv, TypeOK
<1>1. /\ queue = <<>> /\ lockMask[p] = {} /\ executionTimeCounter' = GRANULARITY_MS
      /\ UNCHANGED <<lockMask, pending, awaiting, ipcListeners, listener>>
      /\ \A x \in Proc : awaiting[x] # KERNEL => x # p
      /\ awaiting[p] = KERNEL
  <2>1. /\ executionTimeCounter' = GRANULARITY_MS /\ Running(p)
        /\ UNCHANGED <<lockMask, pending, awaiting, ipcListeners, listener>>
    BY DEF Bye
  <2>2. awaiting[p] = KERNEL
    BY <2>1, CallerOwes, OwedParts DEF AwaitingIsOwed
  <2> QED BY <2>1, <2>2, CallerOwes
<1>2. q \in Seq(Task) /\ queue' = q
  <2>1. q \in Seq(Task)
    BY TasksType
  <2>2. queue' = queue \o q
    BY IsrEndQueue DEF Bye
  <2> HIDE DEF q
  <2> QED BY <1>1, <2>1, <2>2, ConcatEmptySeq
<1>3. /\ Len(q) = 5 /\ q[1] = Job("devCleanup", p) /\ q[2] = Job("ipcCleanup", p)
      /\ q[3] = Job("runloopCleanup", p) /\ q[4] = Job("procCleanup", p) /\ q[5] = Evaluate
  BY DEF ByeTasks
<1> HIDE DEF q
<1>4. /\ q[1].fn = "devCleanup"
      /\ \A i \in 1 .. 5 : /\ q[i].fn = "devCleanup" => i = 1
                           /\ q[i].fn \in {"ipcCleanup", "runloopCleanup"} => i > 1
                           /\ q[i].fn = "ipcCleanup" => i = 2
                           /\ q[i].fn # "waitForEvent"
  <2>1. /\ q[1].fn = "devCleanup" /\ q[2].fn = "ipcCleanup" /\ q[3].fn = "runloopCleanup"
        /\ q[4].fn = "procCleanup" /\ q[5].fn = "schedEvaluate"
    BY <1>3, TaskFields
  <2>2. \A i \in 1 .. 5 : i = 1 \/ i = 2 \/ i = 3 \/ i = 4 \/ i = 5
    OBVIOUS
  <2> QED BY <2>1, <2>2
<1>5. CleanupsInOrder(queue') /\ DevicesAreToCome'
  BY <1>2, <1>3, <1>4 DEF CleanupsInOrder, DevicesAreToCome
<1>6. TicksToCome' <= 0 /\ TicksToCome' \in Nat
  BY <1>1 DEF TicksToCome
<1>7. /\ KeysToCome' \in 0 .. DISPATCH_QUEUE_SIZE + 1
      /\ (l \in Proc /\ "EVENT" \in lockMask[l]) \/ KeysToCome' <= DISPATCH_QUEUE_SIZE
  <2>1. KeysToCome' \in 0 .. DISPATCH_QUEUE_SIZE + 1
    BY <1>0, ExpectedTypeNext
  <2>2. CASE l = KERNEL
    <3>1. KeysToCome' = 0
      BY <1>1, <2>2 DEF KeysToCome
    <3> QED BY <2>1, <3>1
  <2>3. CASE l # KERNEL /\ "EVENT" \notin lockMask[l]
    <3>1. l \in Proc /\ pending[l] \in Nat
      BY <1>0, <2>3 DEF TypeOK
    <3>2. ~QueuedNext(Job("waitForEvent", l))
      BY <1>2, <1>3, <1>4, TaskFields DEF QueuedNext
    <3>3. KeysToCome' = DISPATCH_QUEUE_SIZE - pending[l] + (IF "EVENT" \in lockMask[l] THEN 1 ELSE 0)
      BY <1>1, <2>3, <3>2 DEF KeysToCome, Queued, QueuedNext
    <3> QED BY <2>1, <2>3, <3>1, <3>3
  <2>4. CASE l # KERNEL /\ "EVENT" \in lockMask[l]
    BY <1>0, <2>1, <2>4
  <2> QED BY <2>2, <2>3, <2>4
<1>8. ToFail' \in SUBSET (Proc \ {p})
  BY <1>1 DEF ToFail
<1>9. Cardinality(ToFail') \in Nat /\ Cardinality(ToFail') <= MAX_PROC - 1
  BY <1>8, FewerThanAll
<1>10. KeysToCome' + Cardinality(ToFail') <= DISPATCH_QUEUE_SIZE + MAX_PROC - 1
  <2>1. CASE KeysToCome' <= DISPATCH_QUEUE_SIZE
    BY <1>7, <1>9, <2>1
  <2>2. CASE l \in Proc /\ "EVENT" \in lockMask[l]
    <3>1. l # p /\ "IPC" \notin lockMask[l]
      BY <1>1, <2>2, IInvParts DEF BlockedByOneLock, LockType, TypeOK
    <3>2. awaiting[l] = KERNEL
      BY <2>2, <3>1, OwedParts DEF AwaitingIsOwed
    <3>3. ToFail' \in SUBSET ((Proc \ {p}) \ {l})
      BY <1>1, <1>8, <3>2 DEF ToFail
    <3>4. Cardinality(ToFail') <= MAX_PROC - 2
      BY <2>2, <3>1, <3>3, FewerThanAll
    <3> QED BY <1>7, <1>9, <3>4
  <2> QED BY <1>7, <2>1, <2>2
<1>11. Expected' = 5 + TicksToCome' + KeysToCome'
  BY <1>0, <1>2, <1>3, ExpectedTypeNext
<1>12. KeysToCome' \in Nat /\ KeysToCome' <= DISPATCH_QUEUE_SIZE + 1
  BY <1>7
<1>13. /\ Expected' <= DISPATCH_QUEUE_SIZE + 6
       /\ Expected' + Cardinality(ToFail') <= DISPATCH_QUEUE_SIZE + MAX_PROC + 4
  BY <1>6, <1>9, <1>10, <1>11, <1>12, ByeSum, Zenon
<1> QED BY <1>5, <1>13 DEF BurstInv, CleanupsInOrder

LEMMA UserStepBursts ==
  ASSUME IInv, IInv', OwedInv, BurstInv, NEW p \in Proc, UserStep(p) PROVE BurstInv'
<1>1. CASE UnbindPanics(p)
  BY <1>1, UnchangedBursts DEF UnbindPanics
<1> QED BY <1>1, OneTaskBursts, ByeBursts, IpcSendBursts, IpcSendAwaitingBursts, IpcReplyBursts
    DEF UserStep

-----------------------------------------------------------------------------
(* The functions of the queue.                                             *)

LEMMA DropsOne ==
  ASSUME queue \in Seq(Task), queue # <<>>, queue' = Tail(queue) \/ queue' = Tail(queue) \o <<>>
  PROVE Shifts(1) /\ Len(queue') = Len(queue) - 1
<1>1. Tail(queue) \in Seq(Task) /\ Len(Tail(queue)) = Len(queue) - 1
  BY HeadTailProperties
<1>2. queue' = Tail(queue)
  BY <1>1, ConcatEmptySeq
<1> QED BY <1>1, <1>2, ReturnShifts

LEMMA SwitchBursts == ASSUME IInv, IInv', Switch PROVE BurstInv'
<1>1. queue' = <<>>
  BY DEF Switch, SwitchTo, Drained
<1> QED BY <1>1, FewReviews

\* Those that only drop themselves and leave the listener alone.
LEMMA QuietBursts ==
  ASSUME IInv, IInv', BurstInv,
         \/ SchedEvaluate \/ StartFails \/ Spawn \/ AbandonSpawned \/ Hatch
         \/ DevCleanup \/ IpcCleanup \/ ProcCleanup
  PROVE BurstInv'
<1>0. /\ queue \in Seq(Task) /\ Len(queue) \in Nat /\ awaiting \in [Proc -> ProcOrKernel]
      /\ state \in [Proc -> State] /\ lockMask \in [Proc -> SUBSET LockType]
      /\ pending \in [Proc -> 0 .. DISPATCH_QUEUE_SIZE] /\ listener \in ProcOrKernel
  BY IInvParts, LenProperties DEF TypeOK
<1>1. /\ queue # <<>>
      /\ \/ queue' = Tail(queue)
         \/ queue' = Tail(queue) \o <<>>
         \/ queue' = queue /\ ~DevCleanup
  BY <1>0 DEF SchedEvaluate, StartFails, Spawn, AbandonSpawned, Hatch, DevCleanup, IpcCleanup,
     ProcCleanup, Executing, Return
<1>2. CASE DevCleanup \/ IpcCleanup
  <2>1. /\ UNCHANGED <<executionTimeCounter, lockMask, pending>>
        /\ listener' = listener \/ listener' = KERNEL
        /\ \A x \in Proc : awaiting'[x] = awaiting[x] \/ awaiting'[x] = KERNEL
    BY <1>0, <1>2 DEF DevCleanup, IpcCleanup
  <2>2. Shifts(1) /\ Len(queue') = Len(queue) - 1
    BY <1>0, <1>1, <1>2, DropsOne DEF DevCleanup, IpcCleanup, Return
  <2>3. listener' # KERNEL =>
          /\ listener' = listener /\ pending'[listener] >= pending[listener]
          /\ lockMask' = lockMask
    BY <1>0, <2>1
  <2>5. unbound' = unbound \/ queue[1].fn = "ipcCleanup"
    BY <1>2, HeadTask DEF DevCleanup, IpcCleanup
  <2>4. /\ Len(queue') <= Len(queue) /\ Len(queue') < Len(queue)
        /\ executionTimeCounter' \in {executionTimeCounter, GRANULARITY_MS}
    BY <1>0, <2>1, <2>2
  <2> QED BY <2>1, <2>2, <2>3, <2>4, <2>5, ZeroOne, FunctionBursts
<1>3. CASE \/ SchedEvaluate \/ StartFails \/ Spawn \/ AbandonSpawned \/ Hatch \/ ProcCleanup
  <2>1. /\ UNCHANGED <<executionTimeCounter, pending, listener, awaiting, unbound>>
        /\ \A x \in Proc : lockMask'[x] \in SUBSET lockMask[x]
    BY <1>0, <1>3 DEF SchedEvaluate, StartFails, Spawn, AbandonSpawned, Hatch, ProcCleanup
  <2>2. /\ queue[1].fn # "devCleanup"
    BY <1>3, HeadTask DEF SchedEvaluate, StartFails, Spawn, AbandonSpawned, Hatch, ProcCleanup
  <2>3. PICK d \in 0 .. 1 : Shifts(d) /\ Len(queue') <= Len(queue)
    <3>1. CASE queue' = queue
      BY <1>0, <3>1, StaysShifts, ZeroOne
    <3>2. CASE queue' = Tail(queue) \/ queue' = Tail(queue) \o <<>>
      <4>1. Shifts(1) /\ Len(queue') = Len(queue) - 1
        BY <1>0, <1>1, <3>2, DropsOne
      <4> QED BY <1>0, <4>1, ZeroOne
    <3> QED BY <1>1, <3>1, <3>2
  <2>4. listener' # KERNEL => pending[listener] \in Nat /\ lockMask'[listener] \in SUBSET lockMask[listener]
    BY <1>0, <2>1
  <2> QED BY <2>1, <2>2, <2>3, <2>4, FunctionBursts
<1> QED BY <1>2, <1>3

LEMMA OneForOne ==
  ASSUME queue \in Seq(Task), queue # <<>>, NEW tasks, tasks \in Seq(Task), AllReviews(tasks),
         Len(tasks) \in 0 .. 1, queue' = Tail(queue) \o tasks
  PROVE Shifts(1) /\ Len(queue') <= Len(queue)
<1>1. Shifts(1) /\ Len(queue') = Len(queue) - 1 + Len(tasks)
  BY TailShifts
<1>2. Len(queue) \in Nat
  BY LenProperties
<1> QED BY <1>1, <1>2

LEMMA WaitForEventBursts == ASSUME IInv, IInv', BurstInv, WaitForEvent PROVE BurstInv'
<1> DEFINE p == Subject
           tasks == LockTasks(state, p)
<1>0. /\ queue \in Seq(Task) /\ Len(queue) \in Nat /\ queue # <<>> /\ p \in Proc
      /\ lockMask \in [Proc -> SUBSET LockType]
      /\ pending \in [Proc -> 0 .. DISPATCH_QUEUE_SIZE] /\ listener \in ProcOrKernel
  BY IInvParts, LenProperties, WaiterAtHead, HeadTask DEF WaitForEvent, TypeOK
<1>1. queue[1].fn # "devCleanup" /\ Queued(Job("waitForEvent", p))
  BY HeadTask DEF WaitForEvent, Queued
<1>2. /\ UNCHANGED <<pending, listener, awaiting, unbound>>
      /\ executionTimeCounter' \in {executionTimeCounter, GRANULARITY_MS}
      /\ lockMask' = lockMask \/ lockMask' = [lockMask EXCEPT ![p] = @ \cup {"EVENT"}]
  BY DEF WaitForEvent
<1>3. listener' # KERNEL =>
        /\ listener' = listener /\ pending'[listener] >= pending[listener]
        /\ "EVENT" \in lockMask'[listener] =>
             "EVENT" \in lockMask[listener] \/ Queued(Job("waitForEvent", listener))
  <2> SUFFICES ASSUME listener # KERNEL
               PROVE /\ pending'[listener] >= pending[listener]
                     /\ "EVENT" \in lockMask'[listener] /\ "EVENT" \notin lockMask[listener] => listener = p
    BY <1>1, <1>2
  <2>1. listener \in Proc /\ pending[listener] \in Nat /\ pending'[listener] = pending[listener]
    BY <1>0, <1>2
  <2>2. "EVENT" \in lockMask'[listener] /\ "EVENT" \notin lockMask[listener] => listener = p
    BY <1>0, <1>2, <2>1
  <2> QED BY <2>1, <2>2
<1>4. Shifts(1) /\ Len(queue') <= Len(queue)
  <2>1. tasks \in Seq(Task) /\ AllReviews(tasks) /\ Len(tasks) \in 0 .. 1
    BY <1>0, TasksType, ReviewTasks, TaskCounts
  <2>2. \/ queue' = Tail(queue) \o tasks
        \/ queue' = Tail(queue) \o <<>>
    BY DEF WaitForEvent, Return
  <2> HIDE DEF tasks
  <2>3. CASE queue' = Tail(queue) \o tasks
    BY <1>0, <2>1, <2>3, OneForOne
  <2>4. CASE queue' = Tail(queue) \o <<>>
    <3>1. Shifts(1) /\ Len(queue') = Len(queue) - 1
      BY <1>0, <2>4, DropsOne
    <3> QED BY <1>0, <3>1
  <2> QED BY <2>2, <2>3, <2>4
<1> HIDE DEF p
<1> QED BY <1>1, <1>2, <1>3, <1>4, ZeroOne, FunctionBursts

\* The run loop of a process that ends is emptied after it has left the devices.
LEMMA RunloopCleanupBursts ==
  ASSUME IInv, IInv', OwedInv, BurstInv, RunloopCleanup PROVE BurstInv'
<1> DEFINE p == Subject
<1>0. /\ queue \in Seq(Task) /\ Len(queue) \in Nat /\ queue # <<>> /\ p \in Proc
      /\ pending \in [Proc -> 0 .. DISPATCH_QUEUE_SIZE] /\ listener \in ProcOrKernel
  BY IInvParts, LenProperties, HeadSubject, HeadTask DEF RunloopCleanup, TypeOK
<1>1. 1 \in 1 .. Len(queue) /\ queue[1].fn = "runloopCleanup" /\ queue[1].proc = p
  BY HeadTask DEF RunloopCleanup
<1>2. listener # p
  <2> SUFFICES ASSUME listener = p PROVE FALSE
    OBVIOUS
  <2>1. PICK j \in 1 + 1 .. Len(queue) : queue[j] = Job("procCleanup", p)
    BY <1>1, OwedParts DEF SubjectsAreThere
  <2>2. /\ j \in 1 .. Len(queue) /\ queue[j].fn = "procCleanup" /\ queue[j].proc = p
    BY <1>0, <2>1, TaskFields
  <2>3. PICK k \in 1 .. j - 1 : queue[k] = Job("devCleanup", p)
    BY <2>2, IInvParts DEF StoppedIsFinished
  <2>4. k \in 1 .. Len(queue) /\ queue[k].fn = "devCleanup"
    BY <1>0, <2>2, <2>3, TaskFields
  <2>5. k < 1
    BY <1>1, <2>4 DEF BurstInv
  <2> QED BY <2>3, <2>5
<1>3. /\ UNCHANGED <<listener, awaiting, lockMask, executionTimeCounter, unbound>>
      /\ pending' = [pending EXCEPT ![p] = 0]
  BY DEF RunloopCleanup
<1>4. Shifts(1) /\ Len(queue') = Len(queue) - 1
  BY <1>0, DropsOne DEF RunloopCleanup, Return
<1>5. listener' # KERNEL =>
        /\ listener' = listener /\ pending'[listener] >= pending[listener] /\ lockMask' = lockMask
  BY <1>0, <1>2, <1>3
<1>6. /\ Len(queue') <= Len(queue) /\ Len(queue') < Len(queue) /\ unbound' = unbound
      /\ executionTimeCounter' \in {executionTimeCounter, GRANULARITY_MS}
      /\ \A x \in Proc : awaiting'[x] = awaiting[x] \/ awaiting'[x] = KERNEL
  BY <1>0, <1>3, <1>4
<1> HIDE DEF p
<1> QED BY <1>4, <1>5, <1>6, ZeroOne, FunctionBursts

LEMMA UnlockIfAbleBursts ==
  ASSUME IInv, IInv', OwedInv, BurstInv, UnlockIfAble PROVE BurstInv'
<1> DEFINE p == Subject
           tasks == WakeTasks(state, lockMask, p, "IPC")
<1>0. /\ queue \in Seq(Task) /\ Len(queue) \in Nat /\ queue # <<>> /\ p \in Proc
      /\ lockMask \in [Proc -> SUBSET LockType]
      /\ pending \in [Proc -> 0 .. DISPATCH_QUEUE_SIZE] /\ listener \in ProcOrKernel
  BY IInvParts, LenProperties, HeadSubject, HeadTask DEF UnlockIfAble, TypeOK
<1>1. queue[1].fn # "devCleanup"
  BY HeadTask DEF UnlockIfAble
<1>2. /\ UNCHANGED <<pending, listener, awaiting, unbound>>
      /\ executionTimeCounter' \in {executionTimeCounter, GRANULARITY_MS}
      /\ lockMask' = lockMask \/ lockMask' = Unlocked(lockMask, p, "IPC")
  BY DEF UnlockIfAble
<1>3. listener' # KERNEL =>
        /\ listener' = listener /\ pending'[listener] >= pending[listener]
        /\ "EVENT" \in lockMask'[listener] => "EVENT" \in lockMask[listener]
  BY <1>0, <1>2 DEF Unlocked
<1>4. Shifts(1) /\ Len(queue') <= Len(queue)
  <2>1. tasks \in Seq(Task) /\ AllReviews(tasks) /\ Len(tasks) \in 0 .. 1
    BY <1>0, TasksType, ReviewTasks, TaskCounts
  <2>2. \/ queue' = Tail(queue) \o tasks
        \/ queue' = Tail(queue) \o <<>>
    BY DEF UnlockIfAble, Return
  <2> HIDE DEF tasks
  <2>3. CASE queue' = Tail(queue) \o tasks
    BY <1>0, <2>1, <2>3, OneForOne
  <2>4. CASE queue' = Tail(queue) \o <<>>
    <3>1. Shifts(1) /\ Len(queue') = Len(queue) - 1
      BY <1>0, <2>4, DropsOne
    <3> QED BY <1>0, <3>1
  <2> QED BY <2>2, <2>3, <2>4
<1> HIDE DEF p
<1> QED BY <1>1, <1>2, <1>3, <1>4, ZeroOne, FunctionBursts

LEMMA FailSum ==
  ASSUME NEW before, NEW after, NEW fails, NEW left, NEW notices, NEW come, NEW bound,
         before \in Nat, after \in Nat, fails \in Nat, left \in Nat, notices \in Nat,
         come \in Nat, bound \in Nat,
         after <= before + 1, left <= fails - 1, come <= notices, before + fails + notices <= bound
  PROVE after + left + come <= bound
OBVIOUS

\* The sender that is failed leaves ToFail, and may be woken.
LEMMA FailReplyBursts == ASSUME IInv, IInv', OwedInv, BurstInv, FailReply PROVE BurstInv'
<1>0. /\ TypeOK /\ TypeOK' /\ queue \in Seq(Task) /\ Len(queue) \in Nat /\ queue' \in Seq(Task)
      /\ lockMask \in [Proc -> SUBSET LockType] /\ awaiting \in [Proc -> ProcOrKernel]
      /\ pending \in [Proc -> 0 .. DISPATCH_QUEUE_SIZE] /\ listener \in ProcOrKernel
  <2>1. TypeOK /\ TypeOK'
    BY DEF IInv
  <2>2. queue' \in Seq(Task)
    BY <2>1 DEF TypeOK
  <2> QED BY <2>1, <2>2, LenProperties DEF TypeOK
<1>1. PICK s \in Proc : /\ awaiting[s] = Subject
                        /\ awaiting' = [awaiting EXCEPT ![s] = KERNEL]
                        /\ lockMask' = Unlocked(lockMask, s, "IPC")
                        /\ queue' = queue \o WakeTasks(state, lockMask, s, "IPC")
  BY DEF FailReply
<1>2. /\ UNCHANGED <<pending, listener, unbound>>
      /\ executionTimeCounter' \in {executionTimeCounter, GRANULARITY_MS}
      /\ Executing("ipcCleanup")
  BY DEF FailReply
<1>3. 1 \in 1 .. Len(queue) /\ queue[1] = Job("ipcCleanup", Subject) /\ queue[1].fn = "ipcCleanup"
  BY <1>2, HeadTask
<1>4. CleanupsInOrder(queue) /\ ~DevicesAreToCome
  <2>1. CleanupsInOrder(queue)
    BY DEF BurstInv, CleanupsInOrder
  <2>2. ASSUME NEW i \in 1 .. Len(queue), queue[i].fn = "devCleanup" PROVE FALSE
    <3>1. i < 1
      BY <1>3, <2>1, <2>2 DEF CleanupsInOrder
    <3> QED BY <3>1
  <2> QED BY <2>1, <2>2 DEF DevicesAreToCome
<1> DEFINE tasks == WakeTasks(state, lockMask, s, "IPC")
<1>5. tasks \in Seq(Task) /\ AllReviews(tasks) /\ Len(tasks) \in 0 .. 1 /\ queue' = queue \o tasks
  BY <1>1, TasksType, ReviewTasks, TaskCounts
<1> HIDE DEF tasks
<1>6. Shifts(0) /\ Len(queue') = Len(queue) + Len(tasks)
  BY <1>0, <1>5, AppendShifts
<1>7. /\ CleanupsInOrder(queue') /\ ~DevicesAreToCome'
      /\ \A t : t # Evaluate /\ QueuedNext(t) => Queued(t)
  BY <1>0, <1>4, <1>6, ZeroOne, ShiftsOrder
<1>8. KeysToCome' <= KeysToCome
  <2>1. Job("waitForEvent", listener) # Evaluate
    BY TaskFields
  <2>2. QueuedNext(Job("waitForEvent", listener)) => Queued(Job("waitForEvent", listener))
    BY <1>7, <2>1
  <2>3. listener # KERNEL =>
          /\ pending[listener] \in Nat
          /\ "EVENT" \in lockMask'[listener] => "EVENT" \in lockMask[listener]
    BY <1>0, <1>1 DEF Unlocked
  <2> QED BY <1>0, <1>2, <2>2, <2>3, KeysFall
<1>9. TicksToCome' <= TicksToCome
  BY <1>0, <1>2 DEF TicksToCome, TypeOK
<1>10. s \in ToFail /\ IsFiniteSet(ToFail) /\ ToFail' \in SUBSET (ToFail \ {s})
  <2>1. Subject # KERNEL
    BY <1>2, HeadSubject
  <2>2. s \in ToFail /\ IsFiniteSet(ToFail)
    BY <1>0, <1>1, <1>3, <2>1, ExpectedType DEF ToFail, Queued
  <2>3. ASSUME NEW x \in ToFail' PROVE x \in ToFail /\ x # s
    <3>1. x \in Proc /\ awaiting'[x] # KERNEL /\ QueuedNext(Job("ipcCleanup", awaiting'[x]))
      BY <2>3 DEF ToFail, Queued, QueuedNext
    <3>2. x # s /\ awaiting'[x] = awaiting[x]
      BY <1>0, <1>1, <3>1
    <3>3. Job("ipcCleanup", awaiting[x]) # Evaluate
      BY TaskFields
    <3>4. Queued(Job("ipcCleanup", awaiting[x]))
      BY <1>7, <3>1, <3>2, <3>3
    <3> QED BY <3>1, <3>2, <3>4 DEF ToFail
  <2> QED BY <2>2, <2>3
<1>11. /\ Cardinality(ToFail) \in Nat /\ Cardinality(ToFail') \in Nat
       /\ Cardinality(ToFail') <= Cardinality(ToFail) - 1
  <2> DEFINE rest == ToFail \ {s}
  <2>1. IsFiniteSet(rest) /\ Cardinality(rest) = Cardinality(ToFail) - 1
    BY <1>10, FS_RemoveElement
  <2>2. ToFail' \in SUBSET rest
    BY <1>10
  <2> HIDE DEF rest
  <2>3. Cardinality(ToFail') <= Cardinality(rest)
    BY <2>1, <2>2, FS_Subset
  <2>4. Cardinality(ToFail) \in Nat
    BY <1>0, ExpectedType
  <2>5. Cardinality(ToFail') \in Nat
    BY <1>0, ExpectedTypeNext
  <2> QED BY <2>1, <2>3, <2>4, <2>5
<1>12. /\ Len(queue) \in Nat /\ TicksToCome \in Nat /\ KeysToCome \in Nat
       /\ Expected = Len(queue) + TicksToCome + KeysToCome
  BY <1>0, ExpectedType
<1>13. /\ Len(queue') \in Nat /\ TicksToCome' \in Nat /\ KeysToCome' \in Nat
       /\ Expected' = Len(queue') + TicksToCome' + KeysToCome'
  BY <1>0, ExpectedTypeNext
<1>14. Len(queue') <= Len(queue) + 1
  BY <1>5, <1>6, <1>12
<1>15. Expected + Cardinality(ToFail) + NoticesToCome <= QueueBound
  BY <1>4 DEF BurstInv
<1>16. Expected' <= Expected + 1
  BY ONLY <1>8, <1>9, <1>12, <1>13, <1>14, SMTT(30)
<1>17. Expected \in Nat /\ Expected' \in Nat /\ QueueBound \in Nat
  BY <1>12, <1>13, BoundType
<1>19. NoticesToCome' <= NoticesToCome /\ NoticesToCome \in Nat /\ NoticesToCome' \in Nat
  <2>1. NoticesToCome \in Nat /\ NoticesToCome' \in Nat
    <3>1. NoticesToCome \in Nat
      BY <1>0, ExpectedType, BoundType
    <3>2. NoticesToCome' \in Nat
      BY <1>0, ExpectedTypeNext, BoundType
    <3> QED BY <3>1, <3>2
  <2> QED BY <1>0, <1>2, <1>4, <1>6, <2>1, ZeroOne, NoticesFall
<1>18. Expected' + Cardinality(ToFail') + NoticesToCome' <= QueueBound
  BY <1>11, <1>15, <1>16, <1>17, <1>19, FailSum, Zenon
<1> QED BY <1>7, <1>18 DEF BurstInv, CleanupsInOrder

\* A notice: it was counted with the review it asks for and the one of the process
\* it wakes.
LEMMA NotifyUnboundBursts == ASSUME IInv, IInv', BurstInv, NotifyUnbound PROVE BurstInv'
<1>0. /\ TypeOK /\ TypeOK' /\ queue \in Seq(Task) /\ Len(queue) \in Nat /\ queue' \in Seq(Task)
      /\ lockMask \in [Proc -> SUBSET LockType] /\ unbound \in 0 .. MAX_BINDING
      /\ pending \in [Proc -> 0 .. DISPATCH_QUEUE_SIZE] /\ listener \in ProcOrKernel
  <2>1. TypeOK /\ TypeOK'
    BY DEF IInv
  <2>2. queue' \in Seq(Task)
    BY <2>1 DEF TypeOK
  <2> QED BY <2>1, <2>2, LenProperties DEF TypeOK
<1>1. /\ Executing("ipcCleanup") /\ unbound' = unbound + 1 /\ UNCHANGED <<awaiting, listener>>
      /\ executionTimeCounter' \in {executionTimeCounter, GRANULARITY_MS}
  BY DEF NotifyUnbound
<1>2. PICK r \in Proc :
        \/ /\ pending' = [pending EXCEPT ![r] = @ + 1]
           /\ lockMask' = Unlocked(lockMask, r, "EVENT")
           /\ queue' = queue \o DeliverTasks(state, lockMask, r, 1)
        \/ UNCHANGED <<pending, lockMask, queue>>
  BY DEF NotifyUnbound, IInv, TypeOK
<1>3. 1 \in 1 .. Len(queue) /\ queue[1].fn = "ipcCleanup"
  BY <1>1, HeadTask
<1>4. CleanupsInOrder(queue) /\ ~DevicesAreToCome
  <2>1. CleanupsInOrder(queue)
    BY DEF BurstInv, CleanupsInOrder
  <2>2. ASSUME NEW i \in 1 .. Len(queue), queue[i].fn = "devCleanup" PROVE FALSE
    <3>1. i < 1
      BY <1>3, <2>1, <2>2 DEF CleanupsInOrder
    <3> QED BY <3>1
  <2> QED BY <2>1, <2>2 DEF DevicesAreToCome
<1>5. Shifts(0) /\ Len(queue') <= Len(queue) + 2 /\ Len(queue') >= Len(queue)
  <2>1. CASE queue' = queue \o DeliverTasks(state, lockMask, r, 1)
    <3> DEFINE tasks == DeliverTasks(state, lockMask, r, 1)
    <3>1. /\ tasks \in Seq(Task) /\ AllReviews(tasks) /\ Len(tasks) \in Nat
          /\ Len(tasks) >= 1 /\ Len(tasks) <= 2
      BY DeliverReviews
    <3> HIDE DEF tasks
    <3>2. queue' = queue \o tasks
      BY <2>1 DEF tasks
    <3>3. Shifts(0) /\ Len(queue') = Len(queue) + Len(tasks)
      BY <1>0, <3>1, <3>2, AppendShifts
    <3>4. \A m, l \in Nat : l >= 1 /\ l <= 2 => m + l <= m + 2 /\ m + l >= m
      OBVIOUS
    <3> QED BY <1>0, <3>1, <3>3, <3>4
  <2>2. CASE queue' = queue
    BY <1>0, <2>2, StaysShifts
  <2> QED BY <1>2, <2>1, <2>2
<1>6. NoticesToCome' = NoticesToCome - 2
  <2>1. queue'[1] = queue[1 + 0] /\ 1 \in 1 .. Len(queue')
    BY <1>0, <1>3, <1>5 DEF Shifts
  <2>2. IpcIsToCome(queue) /\ IpcIsToCome(queue')
    BY <1>3, <2>1 DEF IpcIsToCome
  <2>3. NoticesToCome = 2 * (MAX_BINDING - unbound) /\ NoticesToCome' = 2 * (MAX_BINDING - unbound')
    BY <2>2 DEF NoticesToCome, IpcIsToCome
  <2> QED BY <1>0, <1>1, <2>3
<1>7. KeysToCome' <= KeysToCome
  <2>1. Job("waitForEvent", listener) # Evaluate
    BY TaskFields
  <2>2. QueuedNext(Job("waitForEvent", listener)) => Queued(Job("waitForEvent", listener))
    BY <1>0, <1>4, <1>5, <2>1, ZeroOne, ShiftsOrder
  <2>3. listener # KERNEL =>
          /\ pending[listener] \in Nat /\ pending'[listener] >= pending[listener]
          /\ "EVENT" \in lockMask'[listener] => "EVENT" \in lockMask[listener]
    <3> SUFFICES ASSUME listener # KERNEL, NEW l \in Proc, l = listener
                 PROVE /\ pending[l] \in Nat /\ pending'[l] >= pending[l]
                       /\ "EVENT" \in lockMask'[l] => "EVENT" \in lockMask[l]
      BY <1>0
    <3>0. pending[l] \in Nat
      BY <1>0
    <3>1. CASE UNCHANGED <<pending, lockMask, queue>>
      BY <3>0, <3>1
    <3>2. CASE /\ pending' = [pending EXCEPT ![r] = @ + 1]
               /\ lockMask' = Unlocked(lockMask, r, "EVENT")
      <4>1. pending'[l] = pending[l] \/ pending'[l] = pending[l] + 1
        BY <1>0, <3>2
      <4>2. "EVENT" \in lockMask'[l] => "EVENT" \in lockMask[l]
        BY <1>0, <3>2 DEF Unlocked
      <4> QED BY <3>0, <4>1, <4>2
    <3> QED BY <1>2, <3>1, <3>2
  <2> QED BY <1>0, <1>1, <2>2, <2>3, KeysFall
<1>8. TicksToCome' <= TicksToCome
  BY <1>0, <1>1 DEF TicksToCome, TypeOK
<1>9. /\ TicksToCome \in Nat /\ KeysToCome \in Nat /\ NoticesToCome \in Int
      /\ Expected = Len(queue) + TicksToCome + KeysToCome
  BY <1>0, ExpectedType, BoundType
<1>10. /\ Len(queue') \in Nat /\ TicksToCome' \in Nat /\ KeysToCome' \in Nat
       /\ Expected' = Len(queue') + TicksToCome' + KeysToCome'
  BY <1>0, ExpectedTypeNext
<1>11. Expected' <= Expected + 2
  BY ONLY <1>0, <1>5, <1>7, <1>8, <1>9, <1>10, SMTT(30)
<1>12. Expected' + NoticesToCome' <= Expected + NoticesToCome
  <2>1. Expected \in Int /\ Expected' \in Int
    BY <1>0, <1>9, <1>10
  <2> QED BY ONLY <1>6, <1>9, <1>11, <2>1
<1> QED BY <1>1, <1>4, <1>5, <1>12, ZeroOne, BurstShifts

-----------------------------------------------------------------------------

LEMMA InitBursts == Init => BurstInv
<1> SUFFICES ASSUME Init PROVE BurstInv
  OBVIOUS
<1>1. queue = <<>> /\ listener = KERNEL /\ executionTimeCounter = GRANULARITY_MS
  BY DEF Init
<1>2. TypeOK
  BY InitType
<1>3. TicksToCome <= 0 /\ KeysToCome <= 0 /\ Len(queue) <= 0
  BY <1>1 DEF TicksToCome, KeysToCome
<1>4. ToFail = {} /\ ~DevicesAreToCome /\ CleanupsInOrder(queue) /\ NoticesToCome = 0
  BY <1>1 DEF ToFail, Queued, DevicesAreToCome, CleanupsInOrder, NoticesToCome
<1>5. Cardinality(ToFail) \in Nat /\ Cardinality(ToFail) <= 0
  BY <1>4, FS_EmptySet
<1>6. /\ Len(queue) \in Nat /\ TicksToCome \in Nat /\ KeysToCome \in Nat
      /\ Expected = Len(queue) + TicksToCome + KeysToCome
  BY <1>2, ExpectedType
<1>7. Expected + Cardinality(ToFail) + NoticesToCome <= QueueBound
  BY <1>3, <1>4, <1>5, <1>6, BoundType
<1> QED BY <1>4, <1>7 DEF BurstInv, CleanupsInOrder

LEMMA NextBursts == IInv /\ IInv' /\ OwedInv /\ BurstInv /\ [Next]_vars => BurstInv'
<1> SUFFICES ASSUME IInv, IInv', OwedInv, BurstInv, [Next]_vars PROVE BurstInv'
  OBVIOUS
<1>1. CASE KernelStep
  BY <1>1, SwitchBursts, QuietBursts, WaitForEventBursts, RunloopCleanupBursts, UnlockIfAbleBursts,
     FailReplyBursts, NotifyUnboundBursts DEF KernelStep
<1>2. CASE Tick \/ KeyPress
  BY <1>2, TickBursts, KeyPressBursts
<1>3. CASE \E p \in Proc : UserStep(p)
  BY <1>3, UserStepBursts
<1>4. CASE UNCHANGED vars
  BY <1>4, UnchangedBursts DEF vars
<1> QED BY <1>1, <1>2, <1>3, <1>4 DEF Next

\* The kernel's queue never holds more than the functions of one bye, a review
\* for each sender it fails, two for each notice that a binding of it is gone, and
\* those of the keys one run loop still takes, for any number of processes, of
\* items and of bindings (QueueBounded).
THEOREM QueueIsBounded == Spec => []QueueBounded
<1>1. Init => BurstInv
  BY InitBursts
<1>2. IInv /\ IInv' /\ OwedInv /\ BurstInv /\ [Next]_vars => BurstInv'
  BY NextBursts
<1>3. IInv /\ BurstInv => QueueBounded
  <2> SUFFICES ASSUME IInv, BurstInv PROVE Len(queue) <= QueueBound
    BY DEF QueueBounded
  <2>0. TypeOK
    BY DEF IInv
  <2>1. /\ Len(queue) \in Nat /\ TicksToCome \in Nat /\ KeysToCome \in Nat /\ Cardinality(ToFail) \in Nat
        /\ NoticesToCome \in 0 .. 2 * MAX_BINDING
        /\ Expected = Len(queue) + TicksToCome + KeysToCome
    BY <2>0, ExpectedType
  <2>2. CASE DevicesAreToCome
    <3>1. Expected <= DISPATCH_QUEUE_SIZE + 6
      BY <2>2 DEF BurstInv
    <3> QED BY <2>1, <3>1, BoundType
  <2>3. CASE ~DevicesAreToCome
    <3>1. Expected + Cardinality(ToFail) + NoticesToCome <= QueueBound
      BY <2>3 DEF BurstInv
    <3> QED BY <2>1, <3>1, BoundType
  <2> QED BY <2>2, <2>3
<1> QED BY <1>1, <1>2, <1>3, Safe, Owed, PTL DEF Spec

=============================================================================
