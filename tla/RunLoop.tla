------------------------------ MODULE RunLoop ------------------------------
(***************************************************************************)
(* The run loop of one slot of the process table (runloop/runloop.c): a    *)
(* ring that interrupts, system calls and the kernel fill through          *)
(* callbackInvoke (hal/proc/proc.c), and that the process in the slot      *)
(* empties with runLoopHandle of its library (api/app/src/gunwrlp.c).      *)
(*                                                                         *)
(* callbackInvoke called by an interrupt service routine or a system call  *)
(* is one step.  Called by a function the kernel runs (the notification of *)
(* a destroyed binding), it reserves a place in a critical section and     *)
(* fills it outside of it, so that an interrupt may come between the two.  *)
(* While the kernel is at it no process runs.  Every item has data: they   *)
(* all come from k_proc_callback_invoke_ptr.                               *)
(***************************************************************************)
EXTENDS Naturals, Sequences

CONSTANTS
  DISPATCH_QUEUE_SIZE,  \* places of the ring
  Item,                 \* what is dispatched, told apart as far as needed
  GEF_NONE              \* no item

ASSUME RunLoopAssumption ==
  /\ DISPATCH_QUEUE_SIZE \in Nat \ {0}
  /\ GEF_NONE \notin Item

Place == 0 .. DISPATCH_QUEUE_SIZE - 1
NULL == DISPATCH_QUEUE_SIZE  \* no token

VARIABLES
  queue,          \* the ring
  finishedIndex,  \* the place of the item that was finished last
  endIndex,       \* the place that was reserved last
  token,          \* the place the kernel has reserved and not filled
  user,           \* what the process in the slot is about to do
  current,        \* runLoopHandle: the item it handles
  data,           \* runLoopHandle: the data it has read
  oops            \* the panic that halted the CPU, if any

loop == <<queue, finishedIndex, endIndex>>
library == <<user, current, data>>
vars == <<loop, token, library, oops>>

\* A place after memzero.
Zero == [reserved |-> FALSE, handled |-> FALSE, dataHandled |-> FALSE,
         item |-> GEF_NONE]

Users == {"none", "get", "data", "execute", "wait", "blocked", "finished", "fug"}

TypeOK ==
  /\ queue \in [Place -> [reserved : BOOLEAN, handled : BOOLEAN,
                          dataHandled : BOOLEAN, item : Item \cup {GEF_NONE}]]
  /\ finishedIndex \in Place
  /\ endIndex \in Place
  /\ token \in Place \cup {NULL}
  /\ user \in Users
  /\ current \in Item \cup {GEF_NONE}
  /\ data \in Item \cup {GEF_NONE}
  /\ oops \in {"none", "item state"}

-----------------------------------------------------------------------------
(* The ring.                                                               *)

Following(k) == (k + 1) % DISPATCH_QUEUE_SIZE

nextIndex == Following(finishedIndex)

isEmpty == queue[nextIndex].item = GEF_NONE

\* Whether reserve may take place k.
Overwrites(k) == TRUE  \* variant: no test of a full ring
IsFree(k) == ~queue[k].reserved

\* Whether dispatch may fill place k.
IsReservedAndEmpty(k) == queue[k].reserved /\ queue[k].item = GEF_NONE

\* Once handled and dataHandled were set in q: a place that has both is wiped.
Finish(q, done) ==
  /\ queue' = IF done THEN [q EXCEPT ![nextIndex] = Zero] ELSE q
  /\ finishedIndex' = IF done THEN nextIndex ELSE finishedIndex
FinishesEarly(q) ==  \* variant: an item is finished before its data is read
  Finish(q, q[nextIndex].handled)
finishIfNeeded(q) ==
  Finish(q, q[nextIndex].handled /\ q[nextIndex].dataHandled)

\* A process that waits for an event is woken.
StaysBlocked == user  \* variant: callbackInvoke does not unlock
Unlocked == IF user = "blocked" THEN "get" ELSE user

-----------------------------------------------------------------------------
(* callbackInvoke.  It is ignored when the process has finished.           *)

Alive == user \in {"get", "data", "execute", "wait", "blocked"}

\* By an interrupt service routine, or in a system call.
Deliver(m) ==
  /\ oops = "none" /\ Alive
  /\ LET k == Following(endIndex)
     IN /\ IsFree(k)
        /\ oops' = IF queue[k].item = GEF_NONE THEN "none" ELSE "item state"
        /\ queue' = [queue EXCEPT ![k].reserved = TRUE, ![k].item = m]
        /\ endIndex' = k
  /\ user' = Unlocked
  /\ UNCHANGED <<finishedIndex, token, current, data>>

\* By a function the kernel runs.
Reserve ==
  /\ oops = "none" /\ Alive /\ token = NULL
  /\ LET k == Following(endIndex)
     IN /\ IsFree(k)
        /\ queue' = [queue EXCEPT ![k].reserved = TRUE]
        /\ endIndex' = k
        /\ token' = k
  /\ UNCHANGED <<finishedIndex, library, oops>>

Dispatch(m) ==
  /\ oops = "none" /\ token # NULL
  /\ oops' = IF IsReservedAndEmpty(token) THEN "none" ELSE "item state"
  /\ queue' = [queue EXCEPT ![token].item = m]
  /\ user' = Unlocked
  /\ token' = NULL
  /\ UNCHANGED <<finishedIndex, endIndex, current, data>>

-----------------------------------------------------------------------------
(* The process, and the functions the kernel runs for it.                  *)

At(step) == oops = "none" /\ token = NULL /\ user = step

\* runLoopHandle asks for an item.
GetItem ==
  /\ At("get")
  /\ \/ /\ isEmpty
        /\ user' = "wait"
        /\ UNCHANGED <<loop, current>>
     \/ /\ ~isEmpty
        /\ user' = IF queue[nextIndex].handled THEN "fug" ELSE "data"
        /\ current' = queue[nextIndex].item
        /\ finishIfNeeded([queue EXCEPT ![nextIndex].handled = TRUE])
        /\ UNCHANGED endIndex
  /\ UNCHANGED <<token, data, oops>>

\* It asks for the item's data.  What else a refusal leaves is not looked at.
Pending ==
  ~isEmpty /\ queue[nextIndex].handled /\ ~queue[nextIndex].dataHandled
GetData ==
  /\ At("data")
  /\ user' = IF Pending THEN "execute" ELSE "fug"
  /\ data' = queue[nextIndex].item
  /\ finishIfNeeded([queue EXCEPT ![nextIndex].dataHandled = TRUE])
  /\ UNCHANGED <<endIndex, token, current, oops>>

\* The listener returns.
Execute ==
  /\ At("execute")
  /\ user' = "get"
  /\ current' = GEF_NONE /\ data' = GEF_NONE
  /\ UNCHANGED <<loop, token, oops>>

\* waitForEvent, run by the kernel in a critical section.
WaitForEvent ==
  /\ At("wait")
  /\ user' = IF isEmpty THEN "blocked" ELSE "get"
  /\ UNCHANGED <<loop, token, current, data, oops>>

\* The process says bye, in a listener or out of its run loop.
Bye ==
  /\ At("get") \/ At("execute")
  /\ user' = "finished"
  /\ current' = GEF_NONE /\ data' = GEF_NONE
  /\ UNCHANGED <<loop, token, oops>>

\* k_runloop_procCleanup.
KeepsIndices == finishedIndex' = finishedIndex /\ endIndex' = 0  \* variant
ZeroesIndices == finishedIndex' = 0 /\ endIndex' = 0
Cleanup ==
  /\ At("finished")
  /\ queue' = [k \in Place |-> Zero]
  /\ ZeroesIndices
  /\ user' = "none"
  /\ UNCHANGED <<token, current, data, oops>>

\* Another process is started in the slot.
Hatch ==
  /\ At("none")
  /\ user' = "get"
  /\ UNCHANGED <<loop, token, current, data, oops>>

-----------------------------------------------------------------------------

Init ==
  /\ queue = [k \in Place |-> Zero]
  /\ finishedIndex = 0 /\ endIndex = 0
  /\ token = NULL
  /\ user = "none"
  /\ current = GEF_NONE /\ data = GEF_NONE
  /\ oops = "none"

Kernel == \E m \in Item : Dispatch(m)
Library == GetItem \/ GetData \/ Execute \/ WaitForEvent
Next ==
  \/ \E m \in Item : Deliver(m)
  \/ Reserve \/ Kernel
  \/ Library \/ Bye \/ Cleanup \/ Hatch

Spec == Init /\ [][Next]_vars

\* The kernel finishes what it has begun, and a process that is READY again
\* and again is resumed in the end; its listeners return.
FairSpec == Spec /\ WF_vars(Kernel) /\ SF_vars(Library)

-----------------------------------------------------------------------------

\* runloop.c asserts "Invalid dispatch item state": the place a token names is
\* reserved and empty when it is filled, whatever was dispatched since.
TokenIsGood == oops = "none"

\* gunwrlp.c says FUG_INCONSISTENT when the kernel refuses an item or its data
\* in the order the library asks for them: it never has to.
LibraryIsConsistent == user # "fug"

\* The data runLoopHandle decodes is that of the item whose decoder it uses.
DataBelongsToItem == data \in {GEF_NONE, current}

\* The ring is a mailbox: nothing is lost, repeated or overtaken, and a new
\* process starts with an empty one.
Length ==
  IF ~queue[nextIndex].reserved THEN 0
  ELSE 1 + ((endIndex + DISPATCH_QUEUE_SIZE - nextIndex) % DISPATCH_QUEUE_SIZE)
Nth(k) == (finishedIndex + k) % DISPATCH_QUEUE_SIZE
Box == [k \in 1 .. Length |-> queue[Nth(k)].item]
Mail == INSTANCE Mailbox WITH box <- Box, opened <- queue[nextIndex].handled,
          Hole <- GEF_NONE, Capacity <- DISPATCH_QUEUE_SIZE
ImplementsMailbox == Mail!Spec

\* Every item is handled, unless the process or the system is gone first.
EveryItemIsHandled ==
  \A k \in Place :
    queue[k].item # GEF_NONE ~>
      queue[k].item = GEF_NONE \/ user = "finished" \/ oops # "none"

-----------------------------------------------------------------------------

\* The state behind the safety properties, which every step preserves: a place
\* nobody holds is wiped, the one place that is reserved and empty is the
\* kernel's, and the one that is half read is the next one, while the library
\* is between the item and its data.
FreePlaceIsZero == \A k \in Place : ~queue[k].reserved => queue[k] = Zero

EmptyPlaceIsToken ==
  \A k \in Place : queue[k].reserved /\ queue[k].item = GEF_NONE => k = token

TokenIsEmpty ==
  token # NULL =>
    /\ queue[token].reserved /\ queue[token].item = GEF_NONE
    /\ ~queue[token].handled

ReservesForLiving == token # NULL => Alive

HalfReadIsNext ==
  \A k \in Place :
    /\ ~queue[k].dataHandled
    /\ queue[k].handled <=> k = nextIndex /\ user = "data"

LibraryFollows ==
  /\ user = "data" => queue[nextIndex].item = current
  /\ user # "execute" => data = GEF_NONE
  /\ user = "none" => \A k \in Place : queue[k] = Zero

SlotInv ==
  /\ TypeOK
  /\ FreePlaceIsZero
  /\ EmptyPlaceIsToken
  /\ TokenIsEmpty
  /\ ReservesForLiving
  /\ HalfReadIsNext
  /\ LibraryFollows
  /\ TokenIsGood
  /\ LibraryIsConsistent
  /\ DataBelongsToItem

\* The places that are reserved lie between the two indices.
Holds(n) ==
  /\ endIndex = Nth(n)
  /\ \A k \in 1 .. DISPATCH_QUEUE_SIZE : queue[Nth(k)].reserved <=> k <= n
ReservedIsContiguous == \E n \in 0 .. DISPATCH_QUEUE_SIZE : Holds(n)

IInv == SlotInv /\ ReservedIsContiguous

=============================================================================
