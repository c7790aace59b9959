----------------------------- MODULE ProcessTable -----------------------------
(***************************************************************************)
(* What a user of the kernel may rely on: the life of a process and the    *)
(* one CPU it runs on, with nothing of how the kernel chooses (enum        *)
(* k_proc_state in hal/proc/proc.h and the comments of its functions).     *)
(*                                                                         *)
(* A process leaves the CPU only back to the kernel, in the state its call *)
(* or the interrupt gives it; every other change is made while the kernel  *)
(* has the CPU, or by the call that leaves it.                             *)
(***************************************************************************)

CONSTANTS Proc, KERNEL

VARIABLES state, owner

Init ==
  /\ state \in [Proc -> {"NONE", "READY"}]
  /\ owner = KERNEL

\* The kernel hands the CPU to a process that is ready to run.
Run(p) ==
  /\ owner = KERNEL /\ state[p] = "READY"
  /\ owner' = p
  /\ state' = [state EXCEPT ![p] = "RUNNING"]

\* The process that runs gives the CPU back; the call that makes it do so may
\* resume one process q that was blocked.
GiveBack(p, q, to) ==
  /\ owner = p
  /\ owner' = KERNEL
  /\ q # p => state[q] = "BLOCKED"
  /\ state' = [state EXCEPT ![q] = "READY", ![p] = to]

\* The kernel moves one process along its life.
Step == {<<"NONE", "NEW">>, <<"NEW", "READY">>, <<"NEW", "NONE">>,
         <<"READY", "BLOCKED">>, <<"BLOCKED", "READY">>, <<"FINISHED", "NONE">>}
Change(p, to) ==
  /\ owner = KERNEL /\ UNCHANGED owner
  /\ <<state[p], to>> \in Step
  /\ state' = [state EXCEPT ![p] = to]

Next ==
  \E p \in Proc :
    \/ Run(p)
    \/ \E q \in Proc, to \in {"READY", "BLOCKED", "FINISHED"} : GiveBack(p, q, to)
    \/ \E to \in {"NONE", "NEW", "READY", "BLOCKED"} : Change(p, to)

Spec == Init /\ [][Next]_<<state, owner>>
=============================================================================
