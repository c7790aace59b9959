------------------------------- MODULE Mailbox -------------------------------
(***************************************************************************)
(* What a process relies on its run loop for (runloop/runloop.h): items    *)
(* come in the order in which their places were reserved, each is read     *)
(* once, its data after it, and a place that is not filled yet holds back  *)
(* what comes behind it.                                                   *)
(***************************************************************************)
EXTENDS Naturals, Sequences

CONSTANTS Item, Hole, Capacity

VARIABLES
  box,    \* items and holes, in the order of their places
  opened  \* the first item has been read, its data has not

Init == box = <<>> /\ opened = FALSE

\* Somebody reserves a place, and fills it later.
Reserve ==
  /\ Len(box) < Capacity
  /\ box' = Append(box, Hole)
  /\ UNCHANGED opened

Fill(k, m) ==
  /\ box[k] = Hole
  /\ box' = [box EXCEPT ![k] = m]
  /\ UNCHANGED opened

\* Both at once.
Put(m) ==
  /\ Len(box) < Capacity
  /\ box' = Append(box, m)
  /\ UNCHANGED opened

\* The process reads the first item, then its data.
Open ==
  /\ box # <<>> /\ Head(box) # Hole
  /\ ~opened /\ opened' = TRUE
  /\ UNCHANGED box

Take ==
  /\ opened /\ opened' = FALSE
  /\ box' = Tail(box)

\* The process is gone.
Clear == box' = <<>> /\ opened' = FALSE

Next ==
  \/ Reserve \/ Open \/ Take \/ Clear
  \/ \E m \in Item : Put(m) \/ \E k \in 1 .. Len(box) : Fill(k, m)

Spec == Init /\ [][Next]_<<box, opened>>
=============================================================================
