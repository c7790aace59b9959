---------------------------- MODULE DispatchQueue ----------------------------
(***************************************************************************)
(* The kernel's queue as queue/queue.c keeps it: a table of slots, linked  *)
(* into a list whose head is the function the kernel runs.  Scheduler      *)
(* takes k_que_dispatch for one step; here it is the steps that it takes.  *)
(*                                                                         *)
(* An interrupt service routine dispatches with interrupts disabled, so in *)
(* one step, and may come between any two steps of the kernel that are not *)
(* in a critical section.  Of the functions the kernel runs, schedEvaluate *)
(* dispatches nothing; waitForEvent locks its process, and so dispatches   *)
(* schedEvaluate, in a critical section (waitforevent.c); unlockIfAble     *)
(* unlocks a process, and so dispatches it too, outside of any; and so     *)
(* does ipcCleanup, once for every process it unlocks or wakes.            *)
(*                                                                         *)
(* Spec lets interrupts come wherever the code does.  SteadySpec leaves    *)
(* out those that come inside the two windows of a dispatch that has no    *)
(* critical section: what goes wrong in the code goes wrong there.         *)
(***************************************************************************)
EXTENDS Naturals, Sequences, FiniteSets

CONSTANTS
  MAX_QUEUE_LENGTH,  \* slots of the queue
  Function           \* the functions that are queued

ASSUME DispatchQueueAssumption ==
  /\ MAX_QUEUE_LENGTH \in Nat \ {0}
  /\ Function \subseteq {"schedEvaluate", "waitForEvent", "unlockIfAble", "ipcCleanup"}
  /\ "schedEvaluate" \in Function  \* what the kernel dispatches itself

Slot == 0 .. MAX_QUEUE_LENGTH - 1
NULL == MAX_QUEUE_LENGTH  \* no entry

DFE_NONE == "DFE_NONE"    \* the type of an entry that holds no function

VARIABLES
  reserved,  \* queue[s].reserved
  func,      \* queue[s].func
  next,      \* queue[s].next
  current,   \* k_que_currentDispatchEntry
  pc,        \* where the kernel is in k_que_start, or in a dispatch it runs
  masked,    \* the kernel is in a critical section
  enqueued,  \* k_que_start: the entry it runs
  i,         \* dispatch, in the kernel: the slot it looks at or has claimed
  last,      \* dispatch, in the kernel: the entry it has walked to
  oops       \* the panic that halted the CPU, if any

table == <<reserved, func, next, current>>
locals == <<enqueued, i, last>>
vars == <<table, pc, masked, locals, oops>>

-----------------------------------------------------------------------------
(* The list.                                                               *)

\* The entry the list reaches after k links.
Linked[k \in 0 .. MAX_QUEUE_LENGTH] ==
  IF k = 0 THEN current
  ELSE IF Linked[k - 1] = NULL THEN NULL ELSE next[Linked[k - 1]]

\* The number of entries; a list that bites its tail has no length.
IsLength(n) == Linked[n] = NULL /\ \A k \in 0 .. n - 1 : Linked[k] # NULL
Entries == {Linked[k] : k \in 0 .. MAX_QUEUE_LENGTH} \ {NULL}
HasEnd == \E n \in 0 .. MAX_QUEUE_LENGTH : IsLength(n)

Free == {s \in Slot : ~reserved[s]}
First(s) == s \in Free /\ \A t \in Free : s <= t

\* dispatch with interrupts disabled, from the first test to the last link.
PutAtHead(s) == current' = s  \* variant: the running entry is overtaken
                /\ next' = [next EXCEPT ![s] = current]
PutAtEnd(s) ==
  IF current = NULL
  THEN current' = s /\ next' = [next EXCEPT ![s] = NULL]
  ELSE \E e \in Entries :
         /\ next[e] = NULL
         /\ next' = [next EXCEPT ![s] = NULL, ![e] = s]
         /\ UNCHANGED current

DispatchAtOnce(f) ==
  \/ /\ Free = {}
     /\ oops' = "capacity"
     /\ UNCHANGED table
  \/ /\ HasEnd
     /\ \E s \in Slot :
          /\ First(s)
          /\ reserved' = [reserved EXCEPT ![s] = TRUE]
          /\ func' = [func EXCEPT ![s] = f]
          /\ PutAtEnd(s)
     /\ UNCHANGED oops

-----------------------------------------------------------------------------
(* Interrupt service routines.                                             *)

Interrupt(f) ==
  /\ oops = "none" /\ ~masked
  /\ DispatchAtOnce(f)
  /\ UNCHANGED <<pc, masked, locals>>

-----------------------------------------------------------------------------
(* The kernel in k_que_start.                                              *)

At(label) == oops = "none" /\ pc = label

Fetch ==
  /\ At("fetch") /\ current # NULL
  /\ enqueued' = current
  /\ pc' = "check"
  /\ UNCHANGED <<table, masked, i, last, oops>>

Check ==
  /\ At("check")
  /\ oops' = IF ~reserved[enqueued] THEN "disabled"
             ELSE IF func[enqueued] = DFE_NONE THEN "type" ELSE "none"
  /\ pc' = "run"
  /\ UNCHANGED <<table, masked, locals>>

\* The function returns, having dispatched nothing.
FunctionReturns ==
  /\ At("run")
  /\ pc' = "unlink"
  /\ UNCHANGED <<table, masked, locals, oops>>

\* It dispatches schedEvaluate: k_proc_lock or k_proc_unlock.
Unmasked == {"unlockIfAble", "ipcCleanup"}  \* what dispatches with interrupts enabled
NeverMasks(f) == FALSE  \* variant: waitForEvent has no critical section
MasksInterrupts(f) == f = "waitForEvent"
FunctionDispatches ==
  /\ At("run") /\ func[enqueued] \in Unmasked \cup {"waitForEvent"}
  /\ pc' = "scan"
  /\ i' = 0
  /\ masked' = MasksInterrupts(func[enqueued])
  /\ UNCHANGED <<table, enqueued, last, oops>>

\* dispatch, one step per access to what interrupts change too.
Scan ==
  /\ At("scan")
  /\ \/ /\ i >= MAX_QUEUE_LENGTH
        /\ oops' = "capacity"
        /\ UNCHANGED <<pc, i>>
     \/ /\ i < MAX_QUEUE_LENGTH /\ reserved[i]
        /\ i' = i + 1
        /\ UNCHANGED <<pc, oops>>
     \/ /\ i < MAX_QUEUE_LENGTH /\ ~reserved[i]
        /\ pc' = "claim"
        /\ UNCHANGED <<i, oops>>
  /\ UNCHANGED <<table, masked, enqueued, last>>

Claim ==
  /\ At("claim")
  /\ reserved' = [reserved EXCEPT ![i] = TRUE]
  /\ pc' = "fill"
  /\ UNCHANGED <<func, next, current, masked, locals, oops>>

Fill ==
  /\ At("fill")
  /\ func' = [func EXCEPT ![i] = "schedEvaluate"]
  /\ next' = [next EXCEPT ![i] = NULL]
  /\ last' = current
  /\ pc' = "walk"
  /\ UNCHANGED <<reserved, current, masked, enqueued, i, oops>>

Walk ==
  /\ At("walk")
  /\ IF next[last] = NULL
     THEN pc' = "link" /\ UNCHANGED last
     ELSE last' = next[last] /\ UNCHANGED pc
  /\ UNCHANGED <<table, masked, enqueued, i, oops>>

\* Of what dispatches, only ipcCleanup goes on to dispatch again.
Link ==
  /\ At("link")
  /\ next' = [next EXCEPT ![last] = i]
  /\ pc' = IF func[enqueued] = "ipcCleanup" THEN "run" ELSE "unlink"
  /\ masked' = FALSE
  /\ UNCHANGED <<reserved, func, current, locals, oops>>

KeepsSlot(s) == reserved  \* variant: the slot is not given back
GivesSlotBack(s) == [reserved EXCEPT ![s] = FALSE]
Unlink ==
  /\ At("unlink")
  /\ current' = next[enqueued]
  /\ next' = [next EXCEPT ![enqueued] = NULL]
  /\ func' = [func EXCEPT ![enqueued] = DFE_NONE]
  /\ reserved' = GivesSlotBack(enqueued)
  /\ pc' = "fetch"
  /\ UNCHANGED <<masked, locals, oops>>

KernelStep ==
  \/ Fetch \/ Check \/ FunctionReturns \/ FunctionDispatches
  \/ Scan \/ Claim \/ Fill \/ Walk \/ Link \/ Unlink

-----------------------------------------------------------------------------

Init ==
  /\ reserved = [s \in Slot |-> FALSE]
  /\ func = [s \in Slot |-> DFE_NONE]
  /\ next = [s \in Slot |-> NULL]
  /\ current = NULL
  /\ pc = "fetch" /\ masked = FALSE
  /\ enqueued = NULL /\ i = 0 /\ last = NULL
  /\ oops = "none"

Next == KernelStep \/ \E f \in Function : Interrupt(f)

Spec == Init /\ [][Next]_vars

\* The two windows of a dispatch with interrupts enabled: a slot was found free
\* and is not yet claimed, the end of the list was found and is not yet linked to.
Exposed == pc \in {"claim", "link"} /\ func[enqueued] \in Unmasked

SteadyNext == KernelStep \/ (~Exposed /\ \E f \in Function : Interrupt(f))

SteadySpec == Init /\ [][SteadyNext]_vars

\* The kernel's loop goes on.
FairSteadySpec == SteadySpec /\ WF_vars(KernelStep)

-----------------------------------------------------------------------------

\* queue.c asserts "Enqueued item disabled", "Unexpected queued function type":
\* what the kernel fetches is an entry somebody has dispatched.
FetchedIsEnabled == oops \notin {"disabled", "type"}

\* No slot leaks and none is used twice: the slots that are reserved are those
\* the list reaches, and the one a dispatch in the kernel has claimed.
ReservedIsLinked ==
  pc \notin {"fill", "walk", "link"} =>
    /\ HasEnd
    /\ \A s \in Slot : reserved[s] <=> s \in Entries

\* The list is a queue of functions: TaskQueue.
Tasks ==
  LET n == CHOOSE m \in 0 .. MAX_QUEUE_LENGTH : IsLength(m)
  IN [k \in 1 .. n |-> func[Linked[k - 1]]]
Queue == INSTANCE TaskQueue WITH tasks <- Tasks, Capacity <- MAX_QUEUE_LENGTH
ImplementsQueue == Queue!Spec

\* A function that was queued is run in the end: its slot is given back.
SlotIsGivenBack ==
  \A s \in Slot : reserved[s] ~> ~reserved[s] \/ oops # "none"

=============================================================================
