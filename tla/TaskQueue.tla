------------------------------ MODULE TaskQueue ------------------------------
(***************************************************************************)
(* What the dispatchers of the kernel's queue rely on (queue/queue.h): the *)
(* functions run in the order they were queued in, each once, none is      *)
(* lost; the one that runs stays at the head until it has returned.        *)
(***************************************************************************)
EXTENDS Naturals, Sequences

CONSTANTS Function, Capacity

VARIABLE tasks

Init == tasks = <<>>

\* Somebody queues a function.
Put(f) == Len(tasks) < Capacity /\ tasks' = Append(tasks, f)

\* The function at the head has returned.
Done == tasks # <<>> /\ tasks' = Tail(tasks)

Next == Done \/ \E f \in Function : Put(f)

Spec == Init /\ [][Next]_tasks
=============================================================================
