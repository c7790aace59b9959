---------------------------- MODULE SessionStack ----------------------------
(***************************************************************************)
(* The stack of sessions of the keyboard manager (gnwkbdm/session.c), and  *)
(* of each display of the display manager (gnwdispm/session.c, the same    *)
(* code): an array of pointers to sessions.  The one at 0 has the focus.   *)
(***************************************************************************)
EXTENDS Integers

CONSTANT MAX_SESSION  \* sessions, and places of the stack

ASSUME SessionAssumption == MAX_SESSION \in Nat \ {0}

Session == 0 .. MAX_SESSION - 1
Place == 0 .. MAX_SESSION - 1
NULL == MAX_SESSION  \* no session
Stack == [Place -> Session \cup {NULL}]

EmptyStack == [k \in Place |-> NULL]
Places(stack, s) == {k \in Place : stack[k] = s}

sessionOnTop(stack) == stack[0]

\* sessionEnable refuses a session that is new to a stack whose last place is taken.
IsFull(stack, s) == Places(stack, s) = {} /\ stack[MAX_SESSION - 1] # NULL

\* What is above its old place, or everything, moves down by one.
sessionEnable(stack, s) ==
  LET above == {k \in Place : \A j \in 0 .. k : stack[j] # s}
  IN [k \in Place |-> IF k = 0 THEN s
                      ELSE IF k - 1 \in above THEN stack[k - 1] ELSE stack[k]]

\* The loop of sessionDestroy starts at the last place of the session and walks
\* to the top, so that every place on its way gets what is below that place.
Emptied(stack, last) ==
  LET below == IF last = MAX_SESSION - 1 THEN NULL ELSE stack[last + 1]
  IN [k \in Place |-> IF k <= last THEN below ELSE stack[k]]

DestroysFirst(stack, s) ==  \* variant: the session is looked for from the top
  LET found == {k \in Place : stack[k] = s /\ \A j \in Places(stack, s) : k <= j}
  IN IF found = {} THEN stack ELSE Emptied(stack, CHOOSE k \in found : TRUE)
sessionDestroy(stack, s) ==
  LET found == {k \in Place : stack[k] = s /\ \A j \in Places(stack, s) : j <= k}
  IN IF found = {} THEN stack ELSE Emptied(stack, CHOOSE k \in found : TRUE)
=============================================================================
