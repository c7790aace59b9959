--------------------------- MODULE KeyboardProofs ---------------------------
(***************************************************************************)
(* The stack of the keyboard manager stays sound, although sessionDestroy  *)
(* leaves copies behind and drops living sessions; whoever has a session   *)
(* is accounted for; no stranger gets the keys of a process that is gone;  *)
(* and the keys fall back to the session below: for any number of sessions *)
(* and applications and any size of the tables.                            *)
(***************************************************************************)
EXTENDS KeyboardService, WellFoundedInduction, TLAPS

\* A set of natural numbers with a member has a least one.
LEMMA LeastNumber ==
  ASSUME NEW S, S \subseteq Nat, S # {}
  PROVE  Min(S) \in S /\ \A y \in S : Min(S) <= y
<1> DEFINE R == OpToRel(<, Nat)
<1>1. \A x, y \in Nat : y < x => <<y, x>> \in R
  BY Zenon DEF OpToRel
<1>2. \E x \in S : \A y \in S : ~ (<<y, x>> \in R)
  BY NatLessThanWellFounded, WFMin
<1> HIDE DEF R
<1>3. PICK x \in S : \A y \in S : ~ (<<y, x>> \in R)
  BY <1>2
<1>4. \A y \in S : ~ (y < x)
  BY <1>1, <1>3
<1>5. \A y \in S : x <= y
  BY <1>4
<1> QED
  BY <1>5, Zenon DEF Min

\* A set of places with a member has a last one.
LEMMA LastPlace ==
  ASSUME NEW S, S \subseteq Place, S # {}
  PROVE  \E k \in S : \A j \in S : j <= k
<1> DEFINE R == {m \in Nat : MAX_SESSION - m \in S}
<1>1. \A k \in S : k \in Nat /\ MAX_SESSION - k \in Nat /\ MAX_SESSION - k \in R
  BY SessionAssumption DEF Place
<1>2. R \subseteq Nat /\ R # {}
  BY <1>1
<1>3. PICK m \in R : \A y \in R : m <= y
  BY <1>2, LeastNumber
<1>4. m \in Nat /\ MAX_SESSION - m \in S
  BY <1>3
<1>5. \A j \in S : m <= MAX_SESSION - j
  BY <1>1, <1>3
<1> HIDE DEF R
<1>6. \A j \in S : j <= MAX_SESSION - m
  BY <1>1, <1>4, <1>5, SessionAssumption
<1> QED
  BY <1>4, <1>6

-----------------------------------------------------------------------------
(* What the operations on the stack keep.                                  *)

NoHoles(stack) ==
  \A k \in Place : stack[k] # NULL => \A j \in 0 .. k : stack[j] # NULL

\* sessionEnable leaves no holes, and nothing new but the session.
LEMMA EnableKeeps ==
  ASSUME NEW stack \in Stack, NEW s \in Session, NoHoles(stack)
  PROVE  /\ sessionEnable(stack, s) \in Stack
         /\ NoHoles(sessionEnable(stack, s))
         /\ \A k \in Place : LET t == sessionEnable(stack, s)[k]
                             IN t = s \/ \E j \in Place : t = stack[j]
<1> DEFINE above == {k \in Place : \A j \in 0 .. k : stack[j] # s}
           new == [k \in Place |-> IF k = 0 THEN s
                                   ELSE IF k - 1 \in above THEN stack[k - 1] ELSE stack[k]]
<1>1. new = sessionEnable(stack, s)
  BY DEF sessionEnable
<1>2. \A k \in Place : k # 0 => k - 1 \in Place
  BY SessionAssumption DEF Place
<1>3. \A k \in Place : k # 0 => new[k] = stack[k - 1] \/ new[k] = stack[k]
  OBVIOUS
<1>4. 0 \in Place /\ new[0] = s /\ s # NULL
  BY SessionAssumption DEF Place, Session, NULL
<1>5. new \in Stack
  BY <1>2 DEF Stack
<1>6. ASSUME NEW k \in Place, new[k] # NULL, NEW j \in 0 .. k, j # 0
      PROVE  new[j] # NULL
  <2>1. k # 0 /\ k - 1 \in Place /\ j \in Place /\ j - 1 \in Place
    BY <1>2, <1>6, SessionAssumption DEF Place
  <2>2. stack[k - 1] # NULL \/ stack[k] # NULL
    BY <1>3, <1>6, <2>1
  <2>3. stack[j - 1] # NULL
    <3>1. j - 1 \in 0 .. k - 1 /\ j - 1 \in 0 .. k
      BY <2>1 DEF Place
    <3> QED
      BY <2>1, <2>2, <3>1 DEF NoHoles
  <2>4. CASE j - 1 \in above
    BY <1>6, <2>1, <2>3, <2>4
  <2>5. CASE j - 1 \notin above
    <3>1. PICK i \in 0 .. j - 1 : stack[i] = s
      BY <2>1, <2>5
    <3>2. k - 1 \notin above
      BY <2>1, <3>1 DEF Place
    <3>3. stack[k] # NULL
      BY <1>6, <2>1, <3>2
    <3>4. stack[j] # NULL
      BY <3>3 DEF NoHoles
    <3> QED
      BY <1>6, <2>1, <2>5, <3>4
  <2> QED
    BY <2>4, <2>5
<1>7. NoHoles(new)
  <2> SUFFICES ASSUME NEW k \in Place, new[k] # NULL, NEW j \in 0 .. k
               PROVE  new[j] # NULL
    BY DEF NoHoles
  <2>1. CASE j = 0
    BY <1>4, <2>1
  <2>2. CASE j # 0
    BY <1>6, <2>2
  <2> QED
    BY <2>1, <2>2
<1>8. \A k \in Place : new[k] = s \/ \E j \in Place : new[k] = stack[j]
  BY <1>2, <1>3, <1>4
<1> HIDE DEF new
<1> QED
  BY <1>1, <1>5, <1>7, <1>8

\* sessionDestroy leaves no holes, nothing new, and not the session.
LEMMA DestroyKeeps ==
  ASSUME NEW stack \in Stack, NEW s \in Session, NoHoles(stack)
  PROVE  /\ sessionDestroy(stack, s) \in Stack
         /\ NoHoles(sessionDestroy(stack, s))
         /\ \A k \in Place : LET t == sessionDestroy(stack, s)[k]
                             IN t # s /\ (t = NULL \/ \E j \in Place : t = stack[j])
<1> DEFINE found == {k \in Place : stack[k] = s /\ \A j \in Places(stack, s) : j <= k}
<1>1. Places(stack, s) \subseteq Place
  BY DEF Places
<1>2. Places(stack, s) # {} => found # {}
  BY <1>1, LastPlace DEF Places
<1>3. CASE found = {}
  <2>1. sessionDestroy(stack, s) = stack
    BY <1>3 DEF sessionDestroy
  <2>2. \A k \in Place : stack[k] # s
    BY <1>2, <1>3 DEF Places
  <2> QED
    BY <2>1, <2>2
<1>4. CASE found # {}
  <2> DEFINE last == CHOOSE k \in found : TRUE
             below == IF last = MAX_SESSION - 1 THEN NULL ELSE stack[last + 1]
             new == [k \in Place |-> IF k <= last THEN below ELSE stack[k]]
  <2>1. sessionDestroy(stack, s) = new
    BY <1>4, Zenon DEF sessionDestroy, Emptied
  <2>2. last \in found
    BY <1>4
  <2>3. last \in Place /\ \A j \in Place : stack[j] = s => j <= last
    BY <2>2 DEF Places
  <2> HIDE DEF last
  <2>4. last # MAX_SESSION - 1 => last + 1 \in Place
    BY <2>3, SessionAssumption DEF Place
  <2>5. below # s /\ (below = NULL \/ \E j \in Place : below = stack[j])
    BY <2>3, <2>4 DEF Place, Session, NULL
  <2>6. \A k \in Place : new[k] # s /\ (new[k] = NULL \/ \E j \in Place : new[k] = stack[j])
    BY <2>3, <2>5 DEF Place
  <2>7. below \in Session \cup {NULL}
    BY <2>4 DEF Stack
  <2>8. new \in Stack
    BY <2>7 DEF Stack
  <2>9. NoHoles(new)
    <3> SUFFICES ASSUME NEW k \in Place, new[k] # NULL, NEW j \in 0 .. k
                 PROVE  new[j] # NULL
      BY DEF NoHoles
    <3>1. j \in Place
      BY SessionAssumption DEF Place
    <3>2. CASE k <= last
      BY <2>3, <3>1, <3>2 DEF Place
    <3>3. CASE ~ (k <= last)
      <4>1. stack[k] # NULL /\ last # MAX_SESSION - 1 /\ last + 1 \in 0 .. k
        BY <2>3, <3>3, SessionAssumption DEF Place
      <4>2. stack[last + 1] # NULL /\ stack[j] # NULL
        BY <4>1 DEF NoHoles
      <4> QED
        BY <3>1, <4>1, <4>2
    <3> QED
      BY <3>2, <3>3
  <2> HIDE DEF new, below
  <2> QED
    BY <2>1, <2>6, <2>8, <2>9
<1> QED
  BY <1>3, <1>4

-----------------------------------------------------------------------------
(* The invariant: what the manager keeps, with the types the steps need.   *)

ManagerTyped ==
  /\ sessions \in [Session -> Client \cup {NONE_PROC_ID}]
  /\ keyboardStack \in Stack
  /\ inbox \in Seq(Message)
  /\ handling \in Handling
  /\ toManager \in [Client -> Nat]

Owned(stack, owner) ==
  \A k \in Place : stack[k] # NULL => owner[stack[k]] # NONE_PROC_ID
OneEach(owner) ==
  \A s, t \in Session : owner[s] = owner[t] /\ s # t => owner[s] = NONE_PROC_ID

IInv ==
  /\ ManagerTyped
  /\ NoHoles(keyboardStack)
  /\ Owned(keyboardStack, sessions)
  /\ OneEach(sessions)

LEMMA SoundStack == IInv => StackIsSound
  BY DEF IInv, NoHoles, Owned, OneEach, StackIsSound

LEMMA InitHolds == Init => IInv
<1> SUFFICES ASSUME Init PROVE IInv
  OBVIOUS
<1>1. ManagerTyped
  BY DEF Init, ManagerTyped, EmptyStack, Stack, None, Handling
<1>2. NoHoles(keyboardStack) /\ Owned(keyboardStack, sessions)
  BY DEF Init, EmptyStack, NoHoles, Owned
<1>3. OneEach(sessions)
  BY DEF Init, OneEach
<1> QED
  BY <1>1, <1>2, <1>3 DEF IInv

\* A session that is destroyed leaves the stack as it loses its process.
LEMMA DestroysKeeps ==
  ASSUME IInv, NEW found \in SUBSET Session, Destroys(found),
         found = {} \/ \E s \in found : found = {s}
  PROVE  /\ sessions' \in [Session -> Client \cup {NONE_PROC_ID}]
         /\ keyboardStack' \in Stack
         /\ NoHoles(keyboardStack')
         /\ Owned(keyboardStack', sessions')
         /\ OneEach(sessions')
<1>1. sessions' \in [Session -> Client \cup {NONE_PROC_ID}]
  BY DEF Destroys, IInv, ManagerTyped
<1>2. OneEach(sessions')
  BY DEF Destroys, IInv, ManagerTyped, OneEach
<1>3. CASE found = {}
  <2>1. keyboardStack' = keyboardStack /\ sessions' = sessions
    BY <1>3 DEF Destroys, IInv, ManagerTyped
  <2> QED
    BY <2>1 DEF IInv, ManagerTyped
<1>4. CASE found # {}
  <2>1. PICK s \in found : found = {s}
    BY <1>4
  <2>2. Min(found) = s
    <3>1. found \subseteq Nat
      BY DEF Session
    <3> QED
      BY <2>1, <3>1, LeastNumber
  <2>3. s \in Session /\ keyboardStack \in Stack /\ NoHoles(keyboardStack)
    BY <2>1 DEF IInv, ManagerTyped
  <2>4. keyboardStack' = sessionDestroy(keyboardStack, s)
    BY <1>4, <2>2 DEF Destroys
  <2>5. /\ keyboardStack' \in Stack
        /\ NoHoles(keyboardStack')
        /\ \A k \in Place : LET t == keyboardStack'[k]
                            IN t # s /\ (t = NULL \/ \E j \in Place : t = keyboardStack[j])
    BY <2>3, <2>4, DestroyKeeps
  <2>6. \A t \in Session : t # s => sessions'[t] = sessions[t]
    BY <2>1 DEF Destroys
  <2>7. Owned(keyboardStack', sessions')
    BY <2>5, <2>6 DEF Owned, IInv, Stack
  <2> QED
    BY <1>1, <1>2, <2>5, <2>7
<1> QED
  BY <1>3, <1>4

LEMMA StepKeeps == IInv /\ [Next]_vars => IInv'
<1> SUFFICES ASSUME IInv, [Next]_vars PROVE IInv'
  OBVIOUS
<1> DEFINE Unmoved == UNCHANGED <<sessions, keyboardStack>>
<1>0. /\ sessions \in [Session -> Client \cup {NONE_PROC_ID}]
      /\ keyboardStack \in Stack
      /\ inbox \in Seq(Message)
      /\ handling \in Handling
      /\ toManager \in [Client -> Nat]
      /\ NoHoles(keyboardStack)
      /\ Owned(keyboardStack, sessions)
      /\ OneEach(sessions)
  BY DEF IInv, ManagerTyped
<1>a. ASSUME Unmoved, inbox' \in Seq(Message), handling' \in Handling,
             toManager' \in [Client -> Nat]
      PROVE  IInv'
  BY <1>0, <1>a DEF IInv, ManagerTyped, NoHoles, Owned, OneEach
<1>b. ASSUME NEW kind, Takes(kind)
      PROVE  /\ inbox' \in Seq(Message)
             /\ Head(inbox) \in Message
             /\ Head(inbox).kind = kind
  <2>1. inbox # <<>> /\ inbox' = Tail(inbox) /\ Head(inbox).kind = kind
    BY <1>b DEF Takes
  <2> QED
    BY <1>0, <2>1
<1>c. \A p \in Client : SessionsOf(p) = {} \/ \E s \in SessionsOf(p) : SessionsOf(p) = {s}
  BY <1>0, ServiceAssumption DEF SessionsOf, OneEach
<1>d. \A p \in Client : SessionsOf(p) \in SUBSET Session
  BY DEF SessionsOf
<1>e. \A p \in Client : Letter("attach", p) \in Message /\ Letter("destroyed", p) \in Message
  BY DEF Letter, Message
<1>f. Letter("key", NONE_PROC_ID) \in Message
  BY DEF Letter, Message
<1>1. CASE KeyPress
  <2>1. inbox' \in Seq(Message)
    BY <1>0, <1>1, <1>f DEF KeyPress
  <2> QED
    BY <1>0, <1>1, <1>a, <2>1 DEF KeyPress, bindings
<1>2. ASSUME NEW p \in Client, Start(p) PROVE IInv'
  BY <1>0, <1>2, <1>a DEF Start, manager, bindings
<1>3. ASSUME NEW p \in Client, RegisterNotification(p) PROVE IInv'
  BY <1>0, <1>3, <1>a DEF RegisterNotification, manager, bindings
<1>4. ASSUME NEW p \in Client, SendAttach(p) PROVE IInv'
  <2>1. inbox' = Append(inbox, Letter("attach", p)) /\ UNCHANGED <<handling, toManager>>
    BY <1>4 DEF SendAttach
  <2>2. inbox' \in Seq(Message)
    BY <1>0, <1>e, <2>1
  <2> QED
    BY <1>0, <1>4, <1>a, <2>1, <2>2 DEF SendAttach
<1>5. ASSUME NEW p \in Client, SendAttachFails(p) PROVE IInv'
  BY <1>0, <1>5, <1>a DEF SendAttachFails, manager, bindings
<1>6. ASSUME NEW p \in Client, RegisterListener(p) PROVE IInv'
  BY <1>0, <1>6, <1>a DEF RegisterListener, manager, bindings
<1>7. ASSUME NEW p \in Client, HandleItem(p) PROVE IInv'
  BY <1>0, <1>7, <1>a DEF HandleItem, manager, bindings
<1>8. ASSUME NEW p \in Client, Bye(p) PROVE IInv'
  <2>1. Notices(p) \in Seq(Message)
    <3>1. toManager[p] \in Nat /\ Letter("destroyed", p) \in Message
      BY <1>0, <1>e
    <3> QED
      BY <3>1 DEF Notices
  <2>2. inbox' = inbox \o Notices(p) \/ inbox' = inbox
    BY <1>8 DEF Bye
  <2>3. inbox' \in Seq(Message)
    <3>1. inbox \o Notices(p) \in Seq(Message)
      BY <1>0, <2>1
    <3> QED
      BY <1>0, <2>2, <3>1
  <2>4. toManager' \in [Client -> Nat]
    BY <1>0, <1>8 DEF Bye
  <2> QED
    BY <1>0, <1>8, <1>a, <2>3, <2>4 DEF Bye
<1>9. CASE TakeAttach
  <2> DEFINE p == Head(inbox).proc
             free == SessionsOf(NONE_PROC_ID)
             s == Min(free)
             refused == HasSession(p) \/ free = {} \/ IsFull(keyboardStack, s)
  <2>1. inbox' \in Seq(Message) /\ Head(inbox) \in Message /\ Head(inbox).kind = "attach"
    BY <1>9, <1>b DEF TakeAttach
  <2>2. p \in Client
    BY <2>1 DEF Message
  <2>3. handling' \in Handling /\ toManager' = toManager
    <3>1. \/ handling' = [call |-> "reply", proc |-> p, ok |-> FALSE]
          \/ handling' = [call |-> "reply", proc |-> p, ok |-> TRUE]
      BY <1>9 DEF TakeAttach
    <3>2. toManager' = toManager
      BY <1>9 DEF TakeAttach, bindings
    <3>3. \A q \in Client, b \in BOOLEAN : [call |-> "reply", proc |-> q, ok |-> b] \in Handling
      BY DEF Handling
    <3> QED
      BY <2>2, <3>1, <3>2, <3>3
  <2>4. CASE refused
    BY <1>0, <1>9, <1>a, <2>1, <2>3, <2>4 DEF TakeAttach
  <2>5. CASE ~refused
    <3>1. sessions' = [sessions EXCEPT ![s] = p] /\ keyboardStack' = sessionEnable(keyboardStack, s)
      BY <1>9, <2>5 DEF TakeAttach
    <3>2. s \in Session /\ sessions[s] = NONE_PROC_ID
      <4>1. free \subseteq Nat /\ free # {}
        BY <2>5 DEF SessionsOf, Session
      <4>2. s \in free
        BY <4>1, LeastNumber
      <4> QED
        BY <4>2 DEF SessionsOf
    <3>3. \A t \in Session : sessions[t] # p
      BY <2>5 DEF HasSession, SessionsOf
    <3> HIDE DEF p, s
    <3>4. /\ keyboardStack' \in Stack
          /\ NoHoles(keyboardStack')
          /\ \A k \in Place : keyboardStack'[k] = s
                              \/ \E j \in Place : keyboardStack'[k] = keyboardStack[j]
      BY <1>0, <3>1, <3>2, EnableKeeps
    <3>5. sessions' \in [Session -> Client \cup {NONE_PROC_ID}]
      BY <1>0, <2>2, <3>1
    <3>6. /\ sessions'[s] = p
          /\ p # NONE_PROC_ID
          /\ \A t \in Session : t # s => sessions'[t] = sessions[t]
      BY <1>0, <2>2, <3>1, <3>2, ServiceAssumption
    <3>7. Owned(keyboardStack', sessions')
      BY <1>0, <3>4, <3>6 DEF Owned, Stack
    <3>8. OneEach(sessions')
      BY <1>0, <3>3, <3>6 DEF OneEach
    <3> QED
      BY <1>0, <2>1, <2>3, <3>4, <3>5, <3>7, <3>8 DEF IInv, ManagerTyped, NoHoles, Owned, OneEach
  <2> QED
    BY <2>4, <2>5
<1>10. CASE Reply
  <2>1. handling.proc \in Client
    BY <1>0, <1>10 DEF Reply, Calls, Handling
  <2>2. handling' \in Handling
    BY <1>10 DEF Reply, Crash, None, Handling
  <2>3. toManager' \in [Client -> Nat]
    BY <1>0, <1>10, <2>1 DEF Reply
  <2> QED
    BY <1>0, <1>10, <1>a, <2>2, <2>3 DEF Reply
<1>11. CASE TakeDestroyed
  <2>1. inbox' \in Seq(Message) /\ Head(inbox) \in Message /\ Head(inbox).kind = "destroyed"
    BY <1>11, <1>b DEF TakeDestroyed
  <2>2. Head(inbox).proc \in Client
    BY <2>1 DEF Message
  <2>3. Destroys(SessionsOf(Head(inbox).proc)) /\ UNCHANGED <<handling, toManager>>
    BY <1>11 DEF TakeDestroyed, bindings
  <2>4. /\ sessions' \in [Session -> Client \cup {NONE_PROC_ID}]
        /\ keyboardStack' \in Stack
        /\ NoHoles(keyboardStack')
        /\ Owned(keyboardStack', sessions')
        /\ OneEach(sessions')
    BY <1>c, <1>d, <2>2, <2>3, DestroysKeeps
  <2> QED
    BY <1>0, <2>1, <2>3, <2>4 DEF IInv, ManagerTyped, NoHoles, Owned, OneEach
<1>12. CASE TakeKey
  <2>1. inbox' \in Seq(Message)
    BY <1>12, <1>b DEF TakeKey
  <2>2. sessionOnTop(keyboardStack) # NULL => sessionOnTop(keyboardStack) \in Session
    BY <1>0, SessionAssumption DEF sessionOnTop, Stack, Place
  <2>3. handling' \in Handling
    BY <1>12, <2>2 DEF TakeKey, None, Handling
  <2> QED
    BY <1>0, <1>12, <1>a, <2>1, <2>3 DEF TakeKey, bindings
<1>13. CASE SendKey
  <2>1. handling.session \in Session
    BY <1>0, <1>13 DEF SendKey, Calls, Handling
  <2>2. PICK found \in {{handling.session}, {}} : Destroys(found)
    BY <1>13 DEF SendKey
  <2>3. /\ sessions' \in [Session -> Client \cup {NONE_PROC_ID}]
        /\ keyboardStack' \in Stack
        /\ NoHoles(keyboardStack')
        /\ Owned(keyboardStack', sessions')
        /\ OneEach(sessions')
    BY <2>1, <2>2, DestroysKeeps
  <2>4. handling' \in Handling
    BY <1>13 DEF SendKey, Crash, None, Handling
  <2>5. UNCHANGED <<inbox, toManager>>
    BY <1>13 DEF SendKey, bindings
  <2> QED
    BY <1>0, <2>3, <2>4, <2>5 DEF IInv, ManagerTyped, NoHoles, Owned, OneEach
<1>14. CASE Fug
  <2>1. handling' \in Handling /\ inbox' \in Seq(Message) /\ toManager' \in [Client -> Nat]
    BY <1>14 DEF Fug, None, Handling
  <2>2. sessions' = [s \in Session |-> NONE_PROC_ID] /\ keyboardStack' = EmptyStack
    BY <1>14 DEF Fug
  <2> QED
    BY <2>1, <2>2 DEF IInv, ManagerTyped, NoHoles, Owned, OneEach, EmptyStack, Stack
<1>15. CASE UNCHANGED vars
  BY <1>0, <1>15, <1>a DEF vars, manager, bindings
<1> QED
  BY <1>1, <1>2, <1>3, <1>4, <1>5, <1>6, <1>7, <1>8, <1>9, <1>10, <1>11, <1>12, <1>13, <1>14,
     <1>15 DEF Next, Manager, Application

-----------------------------------------------------------------------------
\* For any number of sessions and applications, and any size of the run loops
\* and of the table of bindings, the stack of gnwkbdm/session.c never points to
\* a session without a process and has no holes, and nobody has two sessions.
THEOREM StackStaysSound == Spec => []StackIsSound
<1>1. Spec => []IInv
  BY InitHolds, StepKeeps, PTL DEF Spec
<1> QED
  BY <1>1, SoundStack, PTL

-----------------------------------------------------------------------------
(* Who has a session is accounted for.  The reply that is about to bind the *)
(* process must be a good one, and a manager that is gone has no sessions.  *)

ToldIn(box, p) == \E i \in 1 .. Len(box) : box[i] = Letter("destroyed", p)
Owed(p) == handling.call = "reply" /\ handling.proc = p /\ handling.ok
Accounted(p) ==
  toManager[p] > 0 \/ Owed(p) \/ handling.call = "crash" \/ ToldIn(inbox, p)
DeadHasNone == ~alive => handling = None /\ \A s \in Session : sessions[s] = NONE_PROC_ID
AccountInv ==
  /\ DeadHasNone
  /\ \A p \in Client : HasSession(p) => Accounted(p)

LEMMA ConcatTells ==
  ASSUME NEW box \in Seq(Message), NEW more \in Seq(Message), NEW p,
         ToldIn(box, p) \/ ToldIn(more, p)
  PROVE  ToldIn(box \o more, p)
<1>1. CASE ToldIn(box, p)
  <2>1. PICK i \in 1 .. Len(box) : box[i] = Letter("destroyed", p)
    BY <1>1 DEF ToldIn
  <2>2. i \in 1 .. Len(box \o more) /\ (box \o more)[i] = box[i]
    OBVIOUS
  <2> QED
    BY <2>1, <2>2 DEF ToldIn
<1>2. CASE ToldIn(more, p)
  <2>1. PICK i \in 1 .. Len(more) : more[i] = Letter("destroyed", p)
    BY <1>2 DEF ToldIn
  <2>2. Len(box) + i \in 1 .. Len(box \o more) /\ (box \o more)[Len(box) + i] = more[i]
    OBVIOUS
  <2> QED
    BY <2>1, <2>2 DEF ToldIn
<1> QED
  BY <1>1, <1>2

LEMMA AppendTells ==
  ASSUME NEW box \in Seq(Message), NEW m \in Message, NEW p, ToldIn(box, p)
  PROVE  ToldIn(Append(box, m), p)
<1>1. PICK i \in 1 .. Len(box) : box[i] = Letter("destroyed", p)
  BY DEF ToldIn
<1>2. i \in 1 .. Len(Append(box, m)) /\ Append(box, m)[i] = box[i]
  OBVIOUS
<1> QED
  BY <1>1, <1>2 DEF ToldIn

LEMMA TailTells ==
  ASSUME NEW box \in Seq(Message), box # <<>>, NEW p, ToldIn(box, p),
         Head(box) # Letter("destroyed", p)
  PROVE  ToldIn(Tail(box), p)
<1>1. PICK i \in 1 .. Len(box) : box[i] = Letter("destroyed", p)
  BY DEF ToldIn
<1>2. i # 1
  BY <1>1
<1>3. i - 1 \in 1 .. Len(Tail(box)) /\ Tail(box)[i - 1] = box[i]
  BY <1>2
<1> QED
  BY <1>1, <1>3 DEF ToldIn

LEMMA AccountKept == IInv /\ AccountInv /\ [Next]_vars => AccountInv'
<1> SUFFICES ASSUME IInv, AccountInv, [Next]_vars PROVE AccountInv'
  OBVIOUS
<1>0. /\ sessions \in [Session -> Client \cup {NONE_PROC_ID}]
      /\ inbox \in Seq(Message)
      /\ handling \in Handling
      /\ toManager \in [Client -> Nat]
      /\ DeadHasNone
      /\ \A p \in Client : (\E s \in Session : sessions[s] = p) => Accounted(p)
  BY DEF IInv, ManagerTyped, AccountInv, HasSession, SessionsOf
<1>a. ASSUME DeadHasNone',
             \A p \in Client : (\E s \in Session : sessions'[s] = p) => Accounted(p)'
      PROVE  AccountInv'
  BY <1>a DEF AccountInv, HasSession, SessionsOf
<1> DEFINE Outside == UNCHANGED <<sessions, handling, alive>>
<1>b. ASSUME Outside, \A p \in Client : Accounted(p) => Accounted(p)'
      PROVE  AccountInv'
  <2>1. DeadHasNone'
    BY <1>0, <1>b DEF DeadHasNone, None
  <2> QED
    BY <1>0, <1>a, <1>b, <2>1
<1>c. ASSUME Outside, toManager' = toManager, \A p \in Client : ToldIn(inbox, p) => ToldIn(inbox', p)
      PROVE  AccountInv'
  <2>1. \A p \in Client : Accounted(p) => Accounted(p)'
    BY <1>c DEF Accounted, Owed, ToldIn
  <2> QED
    BY <1>b, <1>c, <2>1
<1>d. ASSUME NEW kind, Takes(kind), toManager' = toManager, UNCHANGED alive,
             NEW p \in Client, Accounted(p), Head(inbox) # Letter("destroyed", p)
      PROVE  toManager'[p] > 0 \/ ToldIn(inbox', p)
  <2>1. handling = None /\ inbox # <<>> /\ inbox' = Tail(inbox)
    BY <1>d DEF Takes
  <2>2. toManager[p] > 0 \/ ToldIn(inbox, p)
    BY <1>d, <2>1 DEF Accounted, Owed, None
  <2> QED
    BY <1>0, <1>d, <2>1, <2>2, TailTells
<1>e. \A p, q \in Client : p # q => Letter("destroyed", p) # Letter("destroyed", q)
  BY DEF Letter
<1>f. \A p \in Client : Letter("attach", p) \in Message /\ Letter("destroyed", p) \in Message
  BY DEF Letter, Message
<1>g. Letter("key", NONE_PROC_ID) \in Message
  BY DEF Letter, Message
<1>1. CASE KeyPress
  <2>1. inbox' = inbox \/ inbox' = Append(inbox, Letter("key", NONE_PROC_ID))
    BY <1>1 DEF KeyPress
  <2>2. \A p \in Client : ToldIn(inbox, p) => ToldIn(inbox', p)
    BY <1>0, <1>g, <2>1, AppendTells
  <2>3. Outside /\ toManager' = toManager
    BY <1>1 DEF KeyPress, bindings
  <2> QED
    BY <1>c, <2>2, <2>3
<1>2. ASSUME NEW p \in Client,
             Start(p) \/ RegisterNotification(p) \/ SendAttachFails(p)
               \/ RegisterListener(p) \/ HandleItem(p) \/ UNCHANGED vars
      PROVE  AccountInv'
  <2>1. Outside /\ toManager' = toManager /\ inbox' = inbox
    BY <1>2 DEF Start, RegisterNotification, SendAttachFails, RegisterListener, HandleItem,
                manager, bindings, vars
  <2> QED
    BY <1>c, <2>1
<1>3. ASSUME NEW p \in Client, SendAttach(p) PROVE AccountInv'
  <2>1. inbox' = Append(inbox, Letter("attach", p)) /\ Outside /\ toManager' = toManager
    BY <1>3 DEF SendAttach
  <2>2. \A q \in Client : ToldIn(inbox, q) => ToldIn(inbox', q)
    BY <1>0, <1>f, <2>1, AppendTells
  <2> QED
    BY <1>c, <2>1, <2>2
<1>4. ASSUME NEW p \in Client, Bye(p) PROVE AccountInv'
  <2>1. Outside /\ toManager' = [toManager EXCEPT ![p] = 0]
    BY <1>4 DEF Bye
  <2>2. CASE alive
    <3>1. inbox' = inbox \o Notices(p)
      BY <1>4, <2>2 DEF Bye
    <3>2. toManager[p] \in Nat /\ Letter("destroyed", p) \in Message
      BY <1>0, <1>f
    <3>3. Notices(p) \in Seq(Message) /\ Len(Notices(p)) = toManager[p]
      BY <3>2 DEF Notices
    <3>4. toManager[p] > 0 => ToldIn(Notices(p), p)
      <4>1. toManager[p] > 0 => 1 \in 1 .. toManager[p] /\ Notices(p)[1] = Letter("destroyed", p)
        BY <3>2 DEF Notices
      <4> QED
        BY <3>3, <4>1 DEF ToldIn
    <3>5. \A q \in Client : ToldIn(inbox, q) => ToldIn(inbox', q)
      BY <1>0, <3>1, <3>3, ConcatTells
    <3>6. toManager[p] > 0 => ToldIn(inbox', p)
      BY <1>0, <3>1, <3>3, <3>4, ConcatTells
    <3>7. \A q \in Client : q # p => toManager'[q] = toManager[q]
      BY <1>0, <2>1
    <3>8. \A q \in Client : Accounted(q) => Accounted(q)'
      <4> SUFFICES ASSUME NEW q \in Client, Accounted(q) PROVE Accounted(q)'
        OBVIOUS
      <4>1. CASE toManager[q] > 0
        BY <3>6, <3>7, <4>1 DEF Accounted, ToldIn
      <4>2. CASE ToldIn(inbox, q)
        BY <3>5, <4>2 DEF Accounted, ToldIn
      <4>3. CASE Owed(q) \/ handling.call = "crash"
        BY <2>1, <4>3 DEF Accounted, Owed
      <4> QED
        BY <4>1, <4>2, <4>3 DEF Accounted
    <3> QED
      BY <1>b, <2>1, <3>8
  <2>3. CASE ~alive
    <3>1. DeadHasNone' /\ \A s \in Session : sessions'[s] = NONE_PROC_ID
      BY <1>0, <2>1, <2>3 DEF DeadHasNone, None
    <3> QED
      BY <1>a, <3>1, ServiceAssumption
  <2> QED
    BY <2>2, <2>3
<1>5. CASE TakeAttach
  <2> DEFINE p == Head(inbox).proc
             s == Min(SessionsOf(NONE_PROC_ID))
  <2>1. Takes("attach") /\ UNCHANGED <<alive, toManager>> /\ alive
    BY <1>5 DEF TakeAttach, Takes, bindings
  <2>2. \A q \in Client : Head(inbox) # Letter("destroyed", q)
    BY <2>1 DEF Takes, Letter
  <2>3. \A q \in Client : Accounted(q) => Accounted(q)'
    <3> SUFFICES ASSUME NEW q \in Client, Accounted(q) PROVE Accounted(q)'
      OBVIOUS
    <3>1. toManager'[q] > 0 \/ ToldIn(inbox', q)
      BY <1>d, <2>1, <2>2
    <3> QED
      BY <3>1 DEF Accounted, ToldIn
  <2>4. \/ UNCHANGED sessions
        \/ /\ sessions' = [sessions EXCEPT ![s] = p]
           /\ handling' = [call |-> "reply", proc |-> p, ok |-> TRUE]
    BY <1>5 DEF TakeAttach
  <2> HIDE DEF p, s
  <2>5. ASSUME NEW q \in Client, NEW t \in Session, sessions'[t] = q
        PROVE  sessions[t] = q \/ Owed(q)'
    BY <1>0, <2>4, <2>5 DEF Owed
  <2>6. DeadHasNone'
    BY <2>1 DEF DeadHasNone
  <2>7. \A q \in Client : Owed(q)' => Accounted(q)'
    BY DEF Accounted
  <2> QED
    BY <1>0, <1>a, <2>3, <2>5, <2>6, <2>7
<1>6. CASE Reply
  <2>1. alive /\ UNCHANGED <<alive, sessions, inbox>> /\ handling.call = "reply"
    BY <1>6 DEF Reply, Calls
  <2>2. handling.proc \in Client
    BY <1>0, <2>1 DEF Handling
  <2>3. \/ handling' = Crash
        \/ toManager' = [toManager EXCEPT ![handling.proc] = IF handling.ok THEN @ + 1 ELSE @]
    BY <1>6 DEF Reply
  <2>4. ASSUME NEW q \in Client, Accounted(q) PROVE Accounted(q)'
    <3>1. CASE handling' = Crash
      BY <3>1 DEF Accounted, Crash
    <3>2. CASE ToldIn(inbox, q)
      BY <2>1, <3>2 DEF Accounted, ToldIn
    <3>3. CASE toManager' = [toManager EXCEPT ![handling.proc] = IF handling.ok THEN @ + 1 ELSE @]
               /\ ~ToldIn(inbox, q)
      <4>1. toManager[q] > 0 \/ (handling.proc = q /\ handling.ok)
        BY <2>1, <2>4, <3>3 DEF Accounted, Owed
      <4>2. toManager'[q] > 0
        BY <1>0, <2>2, <3>3, <4>1
      <4> QED
        BY <4>2 DEF Accounted
    <3> QED
      BY <2>3, <3>1, <3>2, <3>3
  <2>5. DeadHasNone'
    BY <2>1 DEF DeadHasNone
  <2> QED
    BY <1>0, <1>a, <2>1, <2>4, <2>5
<1>7. CASE TakeDestroyed
  <2> DEFINE p == Head(inbox).proc
  <2>1. Takes("destroyed") /\ UNCHANGED <<alive, toManager>> /\ alive
    BY <1>7 DEF TakeDestroyed, Takes, bindings
  <2>2. sessions' = [s \in Session |-> IF s \in SessionsOf(p) THEN NONE_PROC_ID ELSE sessions[s]]
    BY <1>7 DEF TakeDestroyed, Destroys
  <2>3. ASSUME NEW q \in Client, NEW t \in Session, sessions'[t] = q
        PROVE  sessions[t] = q /\ Head(inbox) # Letter("destroyed", q)
    <3>1. t \notin SessionsOf(p) /\ sessions[t] = q
      BY <2>2, <2>3, ServiceAssumption
    <3>2. q # p
      BY <3>1 DEF SessionsOf
    <3>3. Letter("destroyed", q).proc = q
      BY DEF Letter
    <3> QED
      BY <3>1, <3>2, <3>3
  <2>4. ASSUME NEW q \in Client, Accounted(q), Head(inbox) # Letter("destroyed", q)
        PROVE  Accounted(q)'
    <3>1. toManager'[q] > 0 \/ ToldIn(inbox', q)
      BY <1>d, <2>1, <2>4
    <3> QED
      BY <3>1 DEF Accounted, ToldIn
  <2>5. DeadHasNone'
    BY <2>1 DEF DeadHasNone
  <2> QED
    BY <1>0, <1>a, <2>3, <2>4, <2>5
<1>8. CASE TakeKey
  <2>1. Takes("key") /\ UNCHANGED <<alive, toManager, sessions>> /\ alive
    BY <1>8 DEF TakeKey, Takes, bindings
  <2>2. \A q \in Client : Head(inbox) # Letter("destroyed", q)
    BY <2>1 DEF Takes, Letter
  <2>3. ASSUME NEW q \in Client, Accounted(q) PROVE Accounted(q)'
    <3>1. toManager'[q] > 0 \/ ToldIn(inbox', q)
      BY <1>d, <2>1, <2>2, <2>3
    <3> QED
      BY <3>1 DEF Accounted, ToldIn
  <2>4. DeadHasNone'
    BY <2>1 DEF DeadHasNone
  <2> QED
    BY <1>0, <1>a, <2>1, <2>3, <2>4
<1>9. CASE SendKey
  <2>1. alive /\ UNCHANGED <<alive, inbox, toManager>> /\ handling.call = "send"
    BY <1>9 DEF SendKey, Calls, bindings
  <2>2. \A q \in Client, t \in Session : sessions'[t] = q => sessions[t] = q
    <3>1. PICK found : Destroys(found)
      BY <1>9 DEF SendKey
    <3> QED
      BY <3>1, ServiceAssumption DEF Destroys
  <2>3. ASSUME NEW q \in Client, Accounted(q) PROVE Accounted(q)'
    <3>1. toManager[q] > 0 \/ ToldIn(inbox, q)
      BY <2>1, <2>3 DEF Accounted, Owed
    <3> QED
      BY <2>1, <3>1 DEF Accounted, ToldIn
  <2>4. DeadHasNone'
    BY <2>1 DEF DeadHasNone
  <2> QED
    BY <1>0, <1>a, <2>2, <2>3, <2>4
<1>10. CASE Fug
  <2>1. handling' = None /\ \A s \in Session : sessions'[s] = NONE_PROC_ID
    BY <1>10 DEF Fug
  <2>2. DeadHasNone'
    BY <2>1 DEF DeadHasNone, None
  <2> QED
    BY <1>a, <2>1, <2>2, ServiceAssumption
<1>11. CASE UNCHANGED vars
  BY <1>11, <1>c DEF vars, manager, bindings
<1> QED
  BY <1>1, <1>2, <1>3, <1>4, <1>5, <1>6, <1>7, <1>8, <1>9, <1>10, <1>11
     DEF Next, Manager, Application

\* The kernel's notices and the bindings of gnwkbdm/manager.c are enough: for any
\* number of applications, whoever has a session is bound to the manager, about
\* to be, or his end is in the manager's run loop.
THEOREM SessionStaysAccountedFor == Spec => []SessionIsAccountedFor
<1>1. Init => AccountInv
  BY ServiceAssumption DEF Init, AccountInv, DeadHasNone, HasSession, SessionsOf
<1>2. Spec => []IInv
  BY InitHolds, StepKeeps, PTL DEF Spec
<1>3. AccountInv => SessionIsAccountedFor
  BY DEF AccountInv, Accounted, Owed, ToldIn, SessionIsAccountedFor
<1> QED
  BY <1>1, <1>2, <1>3, AccountKept, PTL DEF Spec

-----------------------------------------------------------------------------
(* No stranger gets keys.  Who listens has been answered, so it is bound;   *)
(* the question of a process is the last the manager hears of it until it   *)
(* is answered, since the process waits meanwhile: the notice of an earlier *)
(* process with the same identifier has been read by then.                  *)

Asks(box, p) == \E i \in 1 .. Len(box) : box[i] = Letter("attach", p)
Answering(p) == handling.call = "reply" /\ handling.proc = p
NothingFollows(box, p) ==
  \A i, j \in 1 .. Len(box) : box[i] = Letter("attach", p) /\ i < j => box[j].proc # p
Known(p) ==
  /\ alive /\ (app[p] = "listen" \/ p \in listening) => toManager[p] > 0
  /\ toManager[p] > 0 => ~ToldIn(inbox, p)
  /\ Asks(inbox, p) \/ Answering(p) => Waiting(p)
  /\ NothingFollows(inbox, p)
  /\ Answering(p) => ~ToldIn(inbox, p) /\ ~Asks(inbox, p)

AppState == {"none", "idle", "send", "wait", "unbound", "listen"}
ClientsTyped == app \in [Client -> AppState] /\ listening \subseteq Client
StrangerInv == ClientsTyped /\ \A p \in Client : Known(p)

LEMMA AppendLetter ==
  ASSUME NEW box \in Seq(Message), NEW m \in Message, NEW p \in Client
  PROVE  /\ ToldIn(Append(box, m), p) => ToldIn(box, p) \/ m = Letter("destroyed", p)
         /\ Asks(Append(box, m), p) => Asks(box, p) \/ m = Letter("attach", p)
         /\ NothingFollows(box, p) /\ (m.proc # p \/ ~Asks(box, p))
              => NothingFollows(Append(box, m), p)
<1> DEFINE new == Append(box, m)
<1>1. Len(box) \in Nat /\ Len(new) = Len(box) + 1 /\ new[Len(box) + 1] = m
  OBVIOUS
<1>2. \A i \in 1 .. Len(box) : new[i] = box[i]
  OBVIOUS
<1>3. \A i \in 1 .. Len(new) : i \in 1 .. Len(box) \/ i = Len(box) + 1
  BY <1>1
<1> HIDE DEF new
<1>4. ToldIn(new, p) => ToldIn(box, p) \/ m = Letter("destroyed", p)
  BY <1>1, <1>2, <1>3 DEF ToldIn
<1>5. Asks(new, p) => Asks(box, p) \/ m = Letter("attach", p)
  BY <1>1, <1>2, <1>3 DEF Asks
<1>6. ASSUME NothingFollows(box, p), m.proc # p \/ ~Asks(box, p)
      PROVE  NothingFollows(new, p)
  <2> SUFFICES ASSUME NEW i \in 1 .. Len(new), NEW j \in 1 .. Len(new),
                      new[i] = Letter("attach", p), i < j
               PROVE  new[j].proc # p
    BY DEF NothingFollows
  <2>1. i \in 1 .. Len(box) /\ box[i] = Letter("attach", p)
    BY <1>1, <1>2, <1>3
  <2>2. m.proc # p
    BY <1>6, <2>1 DEF Asks
  <2>3. CASE j \in 1 .. Len(box)
    BY <1>2, <1>6, <2>1, <2>3 DEF NothingFollows
  <2>4. CASE j = Len(box) + 1
    BY <1>1, <2>2, <2>4
  <2> QED
    BY <1>3, <2>3, <2>4
<1> QED
  BY <1>4, <1>5, <1>6 DEF new

LEMMA TailLetters ==
  ASSUME NEW box \in Seq(Message), box # <<>>, NEW p \in Client
  PROVE  /\ ToldIn(Tail(box), p) => ToldIn(box, p)
         /\ Asks(Tail(box), p) => Asks(box, p)
         /\ NothingFollows(box, p) => NothingFollows(Tail(box), p)
         /\ NothingFollows(box, p) /\ Head(box) = Letter("attach", p)
              => ~ToldIn(Tail(box), p) /\ ~Asks(Tail(box), p)
<1> DEFINE rest == Tail(box)
<1>1. Len(rest) = Len(box) - 1 /\ Len(box) \in Nat /\ 1 \in 1 .. Len(box) /\ box[1] = Head(box)
  OBVIOUS
<1>2. \A i \in 1 .. Len(rest) : i + 1 \in 1 .. Len(box) /\ rest[i] = box[i + 1]
  OBVIOUS
<1> HIDE DEF rest
<1>3. ToldIn(rest, p) => ToldIn(box, p)
  BY <1>2 DEF ToldIn
<1>4. Asks(rest, p) => Asks(box, p)
  BY <1>2 DEF Asks
<1>5. ASSUME NothingFollows(box, p) PROVE NothingFollows(rest, p)
  <2> SUFFICES ASSUME NEW i \in 1 .. Len(rest), NEW j \in 1 .. Len(rest),
                      rest[i] = Letter("attach", p), i < j
               PROVE  rest[j].proc # p
    BY DEF NothingFollows
  <2>1. /\ i + 1 \in 1 .. Len(box) /\ j + 1 \in 1 .. Len(box) /\ i + 1 < j + 1
        /\ rest[i] = box[i + 1] /\ rest[j] = box[j + 1]
    BY <1>1, <1>2
  <2> QED
    BY <1>5, <2>1 DEF NothingFollows
<1>6. ASSUME NothingFollows(box, p), Head(box) = Letter("attach", p)
      PROVE  ~ToldIn(rest, p) /\ ~Asks(rest, p)
  <2>1. ASSUME NEW i \in 1 .. Len(rest) PROVE rest[i].proc # p
    <3>1. i + 1 \in 1 .. Len(box) /\ 1 < i + 1 /\ rest[i] = box[i + 1]
      BY <1>1, <1>2
    <3> QED
      BY <1>1, <1>6, <3>1 DEF NothingFollows
  <2>2. Letter("attach", p).proc = p /\ Letter("destroyed", p).proc = p
    BY DEF Letter
  <2> QED
    BY <2>1, <2>2 DEF ToldIn, Asks
<1> QED
  BY <1>3, <1>4, <1>5, <1>6 DEF rest

\* Notices of the end of q.
LEMMA ConcatLetters ==
  ASSUME NEW box \in Seq(Message), NEW more \in Seq(Message), NEW p \in Client, NEW q \in Client,
         \A k \in 1 .. Len(more) : more[k] = Letter("destroyed", q)
  PROVE  /\ p # q => (ToldIn(box \o more, p) => ToldIn(box, p))
         /\ Asks(box \o more, p) => Asks(box, p)
         /\ NothingFollows(box, p) /\ (p # q \/ ~Asks(box, p))
              => NothingFollows(box \o more, p)
<1> DEFINE new == box \o more
<1>1. \A i \in 1 .. Len(box) : new[i] = box[i]
  OBVIOUS
<1>2. ASSUME NEW i \in 1 .. Len(new)
      PROVE  i \in 1 .. Len(box) \/ new[i] = Letter("destroyed", q)
  <2>1. CASE i \notin 1 .. Len(box)
    <3> DEFINE k == i - Len(box)
    <3>1. Len(box) \in Nat /\ Len(more) \in Nat /\ Len(new) = Len(box) + Len(more)
      OBVIOUS
    <3>2. k \in 1 .. Len(more) /\ i = Len(box) + k
      BY <2>1, <3>1
    <3>3. new[Len(box) + k] = more[k]
      BY <3>1, <3>2
    <3> QED
      BY <3>2, <3>3
  <2> QED
    BY <2>1
<1>3. /\ Letter("destroyed", q) # Letter("attach", p)
      /\ p # q => Letter("destroyed", q) # Letter("destroyed", p)
      /\ Letter("destroyed", q).proc = q
  BY DEF Letter
<1>4. Len(box) \in Nat /\ Len(new) \in Nat
  OBVIOUS
<1> HIDE DEF new
<1>5. p # q => (ToldIn(new, p) => ToldIn(box, p))
  BY <1>1, <1>2, <1>3 DEF ToldIn
<1>6. Asks(new, p) => Asks(box, p)
  BY <1>1, <1>2, <1>3 DEF Asks
<1>7. ASSUME NothingFollows(box, p), p # q \/ ~Asks(box, p) PROVE NothingFollows(new, p)
  <2> SUFFICES ASSUME NEW i \in 1 .. Len(new), NEW j \in 1 .. Len(new),
                      new[i] = Letter("attach", p), i < j
               PROVE  new[j].proc # p
    BY DEF NothingFollows
  <2>1. i \in 1 .. Len(box) /\ box[i] = Letter("attach", p)
    BY <1>1, <1>2, <1>3
  <2>2. p # q
    BY <1>7, <2>1 DEF Asks
  <2>3. CASE j \in 1 .. Len(box)
    BY <1>1, <1>7, <2>1, <2>3 DEF NothingFollows
  <2>4. CASE new[j] = Letter("destroyed", q)
    BY <1>3, <2>2, <2>4
  <2> QED
    BY <1>2, <2>3, <2>4
<1> QED
  BY <1>5, <1>6, <1>7 DEF new

LEMMA StrangerKept == IInv /\ AccountInv /\ StrangerInv /\ [Next]_vars => StrangerInv'
<1> SUFFICES ASSUME IInv, AccountInv, StrangerInv, [Next]_vars PROVE StrangerInv'
  OBVIOUS
<1>0. /\ inbox \in Seq(Message)
      /\ handling \in Handling
      /\ toManager \in [Client -> Nat]
      /\ app \in [Client -> AppState]
      /\ listening \subseteq Client
      /\ ~alive => handling = None
      /\ \A p \in Client : Known(p)
  BY DEF IInv, ManagerTyped, AccountInv, DeadHasNone, StrangerInv, ClientsTyped
<1>a. ASSUME ClientsTyped', \A q \in Client : Known(q)' PROVE StrangerInv'
  BY <1>a DEF StrangerInv
<1>b. \A q \in Client : Letter("attach", q) \in Message /\ Letter("destroyed", q) \in Message
  BY DEF Letter, Message
<1>c. Letter("key", NONE_PROC_ID) \in Message
  BY DEF Letter, Message
<1>d. \A q, r \in Client :
        /\ Letter("attach", q) # Letter("destroyed", r)
        /\ q # r => Letter("attach", q) # Letter("attach", r)
        /\ Letter("key", NONE_PROC_ID) # Letter("attach", q)
        /\ Letter("key", NONE_PROC_ID) # Letter("destroyed", q)
        /\ Letter("attach", q).proc = q
        /\ Letter("key", NONE_PROC_ID).proc # q
  BY ServiceAssumption DEF Letter
\* What the others do not touch.
<1>e. ASSUME NEW q \in Client, UNCHANGED <<handling, alive>>, inbox' = inbox,
             app'[q] = app[q], toManager'[q] = toManager[q], q \in listening' <=> q \in listening
      PROVE  Known(q)'
  BY <1>0, <1>e DEF Known, Answering, Waiting
\* The manager has taken a message.
<1>f. ASSUME NEW kind, Takes(kind), UNCHANGED <<app, listening, alive, toManager>>,
             NEW q \in Client, ~Answering(q)'
      PROVE  Known(q)'
  <2>1. inbox # <<>> /\ inbox' = Tail(inbox)
    BY <1>f DEF Takes
  <2>2. /\ ToldIn(inbox', q) => ToldIn(inbox, q)
        /\ Asks(inbox', q) => Asks(inbox, q)
        /\ NothingFollows(inbox, q) => NothingFollows(inbox', q)
    BY <1>0, <2>1, TailLetters
  <2> QED
    BY <1>0, <1>f, <2>2 DEF Known, Waiting
<1>g. None.call # "reply" /\ Crash.call # "reply"
  BY DEF None, Crash
<1>1. CASE KeyPress
  <2>1. UNCHANGED <<handling, alive, app, listening, toManager>>
    BY <1>1 DEF KeyPress, clients, bindings
  <2>2. inbox' = inbox \/ inbox' = Append(inbox, Letter("key", NONE_PROC_ID))
    BY <1>1 DEF KeyPress
  <2>3. ASSUME NEW q \in Client PROVE Known(q)'
    <3>1. CASE inbox' = inbox
      BY <1>e, <2>1, <3>1
    <3>2. CASE inbox' = Append(inbox, Letter("key", NONE_PROC_ID))
      <4>1. /\ ToldIn(inbox', q) => ToldIn(inbox, q)
            /\ Asks(inbox', q) => Asks(inbox, q)
            /\ NothingFollows(inbox, q) => NothingFollows(inbox', q)
        BY <1>0, <1>c, <1>d, <3>2, AppendLetter
      <4> QED
        BY <1>0, <2>1, <4>1 DEF Known, Answering, Waiting
    <3> QED
      BY <2>2, <3>1, <3>2
  <2>4. ClientsTyped'
    BY <1>0, <2>1 DEF ClientsTyped
  <2> QED
    BY <1>a, <2>3, <2>4
<1>2. ASSUME NEW p \in Client,
             Start(p) \/ RegisterNotification(p) \/ SendAttachFails(p)
               \/ RegisterListener(p) \/ HandleItem(p)
      PROVE  StrangerInv'
  <2>1. UNCHANGED <<handling, alive, toManager>> /\ inbox' = inbox
    BY <1>2 DEF Start, RegisterNotification, SendAttachFails, RegisterListener, HandleItem,
                manager, bindings
  <2>2. PICK next \in AppState \ {"wait", "unbound"} : app' = [app EXCEPT ![p] = next]
                                                         \/ app' = app
    BY <1>2 DEF Start, RegisterNotification, SendAttachFails, RegisterListener, HandleItem,
                AppState
  <2>3. ~Waiting(p)
    BY <1>2 DEF Start, RegisterNotification, SendAttachFails, RegisterListener, HandleItem, Waiting
  <2>4. \A q \in Client : q # p => (q \in listening' <=> q \in listening)
    BY <1>2 DEF Start, RegisterNotification, SendAttachFails, RegisterListener, HandleItem
  <2>5. alive /\ (app'[p] = "listen" \/ p \in listening')
          => app[p] = "listen" \/ p \in listening
    BY <1>0, <1>2 DEF Start, RegisterNotification, SendAttachFails, RegisterListener, HandleItem
  <2>6. Known(p)'
    BY <1>0, <2>1, <2>3, <2>5 DEF Known, Answering
  <2>7. \A q \in Client : q # p => Known(q)'
    BY <1>0, <1>e, <2>1, <2>2, <2>4
  <2>8. listening' \subseteq Client
    BY <1>0, <1>2 DEF Start, RegisterNotification, SendAttachFails, RegisterListener, HandleItem
  <2>9. ClientsTyped'
    BY <1>0, <2>2, <2>8 DEF ClientsTyped
  <2> QED
    BY <1>a, <2>6, <2>7, <2>9
<1>3. ASSUME NEW p \in Client, SendAttach(p) PROVE StrangerInv'
  <2>1. /\ inbox' = Append(inbox, Letter("attach", p))
        /\ UNCHANGED <<handling, alive, toManager, listening>>
        /\ app[p] = "send"
    BY <1>3 DEF SendAttach
  <2>2. PICK next \in {"wait", "unbound"} : app' = [app EXCEPT ![p] = next]
    BY <1>3 DEF SendAttach
  <2>3. ~Asks(inbox, p) /\ ~Answering(p)
    BY <1>0, <2>1 DEF Known, Waiting
  <2>4. ASSUME NEW q \in Client PROVE Known(q)'
    <3>1. /\ ToldIn(inbox', q) => ToldIn(inbox, q)
          /\ Asks(inbox', q) => Asks(inbox, q) \/ q = p
          /\ NothingFollows(inbox, q) => NothingFollows(inbox', q)
      <4>1. /\ Letter("attach", p) \in Message
            /\ Letter("attach", p) # Letter("destroyed", q)
            /\ Letter("attach", p).proc = p
            /\ q # p => Letter("attach", p) # Letter("attach", q)
        BY <1>b, <1>d
      <4>2. NothingFollows(inbox, q) /\ (q # p \/ ~Asks(inbox, q))
        BY <1>0, <2>3 DEF Known
      <4> QED
        BY <1>0, <2>1, <4>1, <4>2, AppendLetter
    <3>2. Waiting(p)' /\ app'[p] # "listen"
      BY <1>0, <2>2 DEF Waiting
    <3>3. q # p => app'[q] = app[q]
      BY <1>0, <2>2
    <3> QED
      BY <1>0, <2>1, <2>3, <3>1, <3>2, <3>3 DEF Known, Answering, Waiting
  <2>5. ClientsTyped'
    BY <1>0, <2>1, <2>2 DEF ClientsTyped, AppState
  <2> QED
    BY <1>a, <2>4, <2>5
<1>4. ASSUME NEW p \in Client, Bye(p) PROVE StrangerInv'
  <2>1. /\ UNCHANGED <<handling, alive>>
        /\ app[p] = "idle" /\ app' = [app EXCEPT ![p] = "none"]
        /\ listening' = listening \ {p}
        /\ toManager' = [toManager EXCEPT ![p] = 0]
    BY <1>4 DEF Bye, ClearsListener
  <2>2. inbox' = inbox \o Notices(p) \/ inbox' = inbox
    BY <1>4 DEF Bye
  <2>3. /\ Notices(p) \in Seq(Message)
        /\ \A k \in 1 .. Len(Notices(p)) : Notices(p)[k] = Letter("destroyed", p)
    <3>1. toManager[p] \in Nat /\ Letter("destroyed", p) \in Message
      BY <1>0, <1>b
    <3> QED
      BY <3>1 DEF Notices
  <2>4. ~Asks(inbox, p) /\ ~Answering(p)
    BY <1>0, <2>1 DEF Known, Waiting
  <2>5. \A q \in Client :
          /\ q # p => (ToldIn(inbox', q) => ToldIn(inbox, q))
          /\ Asks(inbox', q) => Asks(inbox, q)
          /\ NothingFollows(inbox, q) => NothingFollows(inbox', q)
    <3>1. CASE inbox' = inbox
      BY <3>1
    <3>2. CASE inbox' = inbox \o Notices(p)
      BY <1>0, <2>3, <2>4, <3>2, ConcatLetters
    <3> QED
      BY <2>2, <3>1, <3>2
  <2>6. app'[p] = "none" /\ p \notin listening' /\ toManager'[p] = 0
    BY <1>0, <2>1
  <2>7. Known(p)'
    BY <1>0, <2>1, <2>4, <2>5, <2>6 DEF Known, Answering
  <2>8. ASSUME NEW q \in Client, q # p PROVE Known(q)'
    <3>1. app'[q] = app[q] /\ toManager'[q] = toManager[q] /\ (q \in listening' <=> q \in listening)
      BY <1>0, <2>1, <2>8
    <3> QED
      BY <1>0, <2>1, <2>5, <2>8, <3>1 DEF Known, Answering, Waiting
  <2>9. ClientsTyped'
    BY <1>0, <2>1 DEF ClientsTyped, AppState
  <2> QED
    BY <1>a, <2>7, <2>8, <2>9
<1>5. CASE TakeAttach
  <2>1. Takes("attach") /\ UNCHANGED <<app, listening, alive, toManager>>
    BY <1>5 DEF TakeAttach, clients, bindings
  <2>2. inbox # <<>> /\ inbox' = Tail(inbox) /\ Head(inbox).kind = "attach"
    BY <2>1 DEF Takes
  <2>3. Head(inbox) \in Message
    BY <1>0, <2>2
  <2>4. PICK p \in Client : p = Head(inbox).proc /\ Head(inbox) = Letter("attach", p)
    BY <2>2, <2>3 DEF Message, Letter
  <2>5. \A q \in Client : Answering(q)' => q = p
    BY <1>5, <2>4 DEF TakeAttach, Answering
  <2>6. Asks(inbox, p)
    <3>1. 1 \in 1 .. Len(inbox) /\ inbox[1] = Head(inbox)
      BY <1>0, <2>2
    <3> QED
      BY <2>4, <3>1 DEF Asks
  <2>7. /\ ~ToldIn(inbox', p) /\ ~Asks(inbox', p)
        /\ NothingFollows(inbox', p)
    BY <1>0, <2>2, <2>4, TailLetters DEF Known
  <2>8. Known(p)'
    <3>1. Known(p) /\ Waiting(p) /\ Waiting(p)' /\ (ToldIn(inbox', p) => ToldIn(inbox, p))
      BY <1>0, <2>1, <2>4, <2>6, <2>7 DEF Known, Waiting
    <3> QED
      BY <2>1, <2>7, <3>1 DEF Known
  <2>9. \A q \in Client : q # p => Known(q)'
    BY <1>f, <2>1, <2>5
  <2>10. ClientsTyped'
    BY <1>0, <2>1 DEF ClientsTyped
  <2>11. \A q \in Client : Known(q)'
    BY <2>8, <2>9
  <2> QED
    BY <1>a, <2>10, <2>11
<1>6. CASE Reply
  <2>1. UNCHANGED <<inbox, alive, listening>> /\ handling.call = "reply"
    BY <1>6 DEF Reply, Calls
  <2>2. PICK p \in Client : p = handling.proc /\ Answering(p)
    BY <1>0, <2>1 DEF Handling, Answering
  <2>3. /\ Known(p)
        /\ ~ToldIn(inbox, p) /\ ~Asks(inbox, p)
    BY <1>0, <2>2 DEF Known
  <2>4. \A q \in Client : ~Answering(q)'
    BY <1>6, <1>g DEF Reply, Answering
  <2>5. CASE UNCHANGED <<app, toManager>>
    <3>1. ClientsTyped'
      BY <1>0, <2>1, <2>5 DEF ClientsTyped
    <3>2. \A q \in Client : Known(q)'
      BY <1>0, <2>1, <2>4, <2>5 DEF Known, Waiting
    <3> QED
      BY <1>a, <3>1, <3>2
  <2>6. CASE /\ app' = [app EXCEPT ![p] = IF handling.ok /\ @ = "wait" THEN "listen" ELSE "idle"]
             /\ toManager' = [toManager EXCEPT ![p] = IF handling.ok THEN @ + 1 ELSE @]
    <3>1. ClientsTyped'
      BY <1>0, <2>1, <2>2, <2>6 DEF ClientsTyped, AppState
    <3>2. ASSUME NEW q \in Client, q # p PROVE Known(q)'
      <4>1. app'[q] = app[q] /\ toManager'[q] = toManager[q]
        BY <1>0, <2>6, <3>2
      <4> QED
        BY <1>0, <2>1, <2>4, <4>1 DEF Known, Waiting
    <3>3. /\ app'[p] = "listen" => toManager'[p] > 0
          /\ toManager[p] > 0 => toManager'[p] > 0
      <4>1. toManager'[p] = IF handling.ok THEN toManager[p] + 1 ELSE toManager[p]
        BY <1>0, <2>2, <2>6
      <4>2. app'[p] = IF handling.ok /\ app[p] = "wait" THEN "listen" ELSE "idle"
        BY <1>0, <2>2, <2>6
      <4>3. toManager[p] \in Nat
        BY <1>0, <2>2
      <4> QED
        BY <4>1, <4>2, <4>3
    <3>4. alive /\ (app'[p] = "listen" \/ p \in listening) => toManager'[p] > 0
      BY <2>3, <3>3 DEF Known
    <3>5. ToldIn(inbox', p) = ToldIn(inbox, p) /\ Asks(inbox', p) = Asks(inbox, p)
          /\ NothingFollows(inbox', p)
      BY <2>1, <2>3 DEF Known
    <3>6. Known(p)'
      BY <2>1, <2>2, <2>3, <2>4, <3>4, <3>5 DEF Known
    <3>7. \A q \in Client : Known(q)'
      BY <3>2, <3>6
    <3> QED
      BY <1>a, <3>1, <3>7
  <2> QED
    BY <1>6, <2>2, <2>5, <2>6 DEF Reply
<1>7. CASE TakeDestroyed \/ TakeKey
  <2>1. PICK kind : Takes(kind)
    BY <1>7 DEF TakeDestroyed, TakeKey
  <2>2. UNCHANGED <<app, listening, alive, toManager>>
    BY <1>7 DEF TakeDestroyed, TakeKey, clients, bindings
  <2>3. \A q \in Client : ~Answering(q)'
    <3>1. handling = None
      BY <2>1 DEF Takes
    <3>2. handling'.call # "reply"
      BY <1>7, <1>g, <3>1 DEF TakeDestroyed, TakeKey
    <3> QED
      BY <3>2 DEF Answering
  <2>4. ClientsTyped'
    BY <1>0, <2>2 DEF ClientsTyped
  <2> QED
    BY <1>a, <1>f, <2>1, <2>2, <2>3, <2>4
<1>8. CASE SendKey
  <2>1. UNCHANGED <<inbox, alive, app, listening, toManager>>
    BY <1>8 DEF SendKey, bindings
  <2>2. \A q \in Client : ~Answering(q)'
    BY <1>8, <1>g DEF SendKey, Answering
  <2>3. \A q \in Client : Known(q)'
    BY <1>0, <2>1, <2>2 DEF Known, Waiting
  <2>4. ClientsTyped'
    BY <1>0, <2>1 DEF ClientsTyped
  <2> QED
    BY <1>a, <2>3, <2>4
<1>9. CASE Fug
  <2>1. /\ alive' = FALSE /\ inbox' = <<>> /\ handling' = None /\ UNCHANGED listening
        /\ app' = [p \in Client |-> IF Fails(p) THEN "idle" ELSE app[p]]
    BY <1>9 DEF Fug
  <2>2. \A q \in Client : ~ToldIn(inbox', q) /\ ~Asks(inbox', q) /\ NothingFollows(inbox', q)
    BY <2>1 DEF ToldIn, Asks, NothingFollows
  <2>3. \A q \in Client : ~Answering(q)'
    BY <1>g, <2>1 DEF Answering
  <2>4. \A q \in Client : Known(q)'
    BY <2>1, <2>2, <2>3 DEF Known
  <2>5. ClientsTyped'
    BY <1>0, <2>1 DEF ClientsTyped, AppState
  <2> QED
    BY <1>a, <2>4, <2>5
<1>10. CASE UNCHANGED vars
  <2>1. UNCHANGED <<handling, alive, app, toManager, listening>> /\ inbox' = inbox
    BY <1>10 DEF vars, manager, clients, bindings
  <2>2. \A q \in Client : Known(q)'
    BY <1>e, <2>1
  <2>3. ClientsTyped'
    BY <1>0, <2>1 DEF ClientsTyped
  <2> QED
    BY <1>a, <2>2, <2>3
<1> QED
  BY <1>1, <1>2, <1>3, <1>4, <1>5, <1>6, <1>7, <1>8, <1>9, <1>10
     DEF Next, Manager, Application

\* For any number of applications and any limits of the tables: when the manager
\* sends a key to the process of the session on top, and that process listens for
\* keys, then it has attached itself; it is not another one in the slot of the
\* process that did (gnwkbdm/manager.c, gunwkeyboard.c of the library).
THEOREM NoStrangerGetsKeys == Spec => []StrangersGetNoKeys
<1>1. Init => AccountInv
  BY ServiceAssumption DEF Init, AccountInv, DeadHasNone, HasSession, SessionsOf
<1>2. Init => StrangerInv
  BY DEF Init, StrangerInv, ClientsTyped, AppState, Known, ToldIn, Asks, Answering,
         NothingFollows, None
<1>3. Spec => []IInv
  BY InitHolds, StepKeeps, PTL DEF Spec
<1>4. IInv /\ AccountInv /\ StrangerInv => StrangersGetNoKeys
  <2> SUFFICES ASSUME IInv, AccountInv, StrangerInv, handling.call = "send",
                      sessions[handling.session] \in listening
               PROVE  LET p == sessions[handling.session]
                      IN /\ toManager[p] > 0
                         /\ \A i \in 1 .. Len(inbox) : inbox[i] # Letter("destroyed", p)
    BY DEF StrangersGetNoKeys
  <2>1. alive
    BY DEF AccountInv, DeadHasNone, None
  <2> QED
    BY <2>1 DEF StrangerInv, ClientsTyped, Known, ToldIn
<1> QED
  BY <1>1, <1>2, <1>3, <1>4, AccountKept, StrangerKept, PTL DEF Spec
-----------------------------------------------------------------------------
(* Where the keys go when the session on top is destroyed.  sessionDestroy *)
(* walks to the top, so that the session loses every place from its last   *)
(* one up; what gets the keys is the one below that place, which is right  *)
(* below the top only because the places of a session are adjacent.        *)

Adjacent(stack) ==
  \A i, j, k \in Place : i <= j /\ j <= k /\ stack[i] = stack[k] => stack[j] = stack[i]

LEMMA EnableKeepsAdjacent ==
  ASSUME NEW stack \in Stack, NEW s \in Session, Adjacent(stack),
         \A k \in Place : stack[k] # s
  PROVE  Adjacent(sessionEnable(stack, s))
<1> DEFINE new == sessionEnable(stack, s)
<1>1. \A k \in Place : k # 0 => k - 1 \in Place /\ \A j \in 0 .. k - 1 : j \in Place
  BY SessionAssumption DEF Place
<1>2. \A k \in Place : new[k] = IF k = 0 THEN s ELSE stack[k - 1]
  BY <1>1 DEF sessionEnable
<1> HIDE DEF new
<1> SUFFICES ASSUME NEW i \in Place, NEW j \in Place, NEW k \in Place,
                    i <= j, j <= k, new[i] = new[k]
             PROVE  new[j] = new[i]
  BY DEF Adjacent, new
<1>3. CASE i = 0
  <2>1. k = 0
    BY <1>1, <1>2, <1>3
  <2>2. j = 0
    BY <2>1 DEF Place
  <2> QED
    BY <1>3, <2>2
<1>4. CASE i # 0
  <2>1. j # 0 /\ k # 0
    BY <1>4 DEF Place
  <2>2. /\ i - 1 \in Place /\ j - 1 \in Place /\ k - 1 \in Place
        /\ i - 1 <= j - 1 /\ j - 1 <= k - 1
    BY <1>1, <1>4, <2>1 DEF Place
  <2>3. stack[i - 1] = stack[k - 1]
    BY <1>2, <1>4, <2>1
  <2> QED
    BY <1>2, <1>4, <2>1, <2>2, <2>3 DEF Adjacent
<1> QED
  BY <1>3, <1>4

\* What the top becomes when a session with a place on an adjacent stack goes.
LEMMA DestroyKeepsAdjacent ==
  ASSUME NEW stack \in Stack, NEW s \in Session, Adjacent(stack)
  PROVE  /\ Adjacent(sessionDestroy(stack, s))
         /\ stack[0] = s =>
              LET t == sessionDestroy(stack, s)[0]
              IN \/ \E k \in Place : stack[k] = t /\ t # s
                                     /\ \A j \in 0 .. k - 1 : stack[j] = s
                 \/ t = NULL /\ \A j \in Place : stack[j] = s
<1> DEFINE found == {k \in Place : stack[k] = s /\ \A j \in Places(stack, s) : j <= k}
<1>1. Places(stack, s) \subseteq Place
  BY DEF Places
<1>2. Places(stack, s) # {} => found # {}
  BY <1>1, LastPlace DEF Places
<1>3. 0 \in Place
  BY SessionAssumption DEF Place
<1>4. CASE found = {}
  <2>1. sessionDestroy(stack, s) = stack
    BY <1>4 DEF sessionDestroy
  <2>2. \A k \in Place : stack[k] # s
    BY <1>2, <1>4 DEF Places
  <2> QED
    BY <1>3, <2>1, <2>2
<1>5. CASE found # {}
  <2> DEFINE last == CHOOSE k \in found : TRUE
             below == IF last = MAX_SESSION - 1 THEN NULL ELSE stack[last + 1]
             new == [k \in Place |-> IF k <= last THEN below ELSE stack[k]]
  <2>1. sessionDestroy(stack, s) = new
    BY <1>5, Zenon DEF sessionDestroy, Emptied
  <2>2. last \in found
    BY <1>5
  <2>3. last \in Place /\ stack[last] = s /\ \A j \in Place : stack[j] = s => j <= last
    BY <2>2 DEF Places
  <2> HIDE DEF last
  <2>4. last # MAX_SESSION - 1 => last + 1 \in Place /\ below = stack[last + 1] /\ below # s
    BY <2>3, SessionAssumption DEF Place
  <2> HIDE DEF below
  <2>5. \A k \in Place : new[k] = IF k <= last THEN below ELSE stack[k]
    OBVIOUS
  <2>6. last = MAX_SESSION - 1 => below = NULL /\ \A k \in Place : k <= last
    BY SessionAssumption DEF Place, below
  <2> HIDE DEF new
  <2>7. Adjacent(new)
    <3> SUFFICES ASSUME NEW i \in Place, NEW j \in Place, NEW k \in Place,
                        i <= j, j <= k, new[i] = new[k]
                 PROVE  new[j] = new[i]
      BY DEF Adjacent
    <3>1. i \in Int /\ j \in Int /\ k \in Int /\ last \in Int
      BY <2>3 DEF Place
    <3>2. CASE j <= last
      BY <2>5, <3>1, <3>2
    <3>3. CASE i > last
      BY <2>5, <3>1, <3>3 DEF Adjacent
    <3>4. CASE i <= last /\ j > last
      <4>1. last # MAX_SESSION - 1
        BY <2>6, <3>1, <3>4
      <4>2. new[i] = stack[last + 1] /\ new[k] = stack[k] /\ new[j] = stack[j]
        BY <2>4, <2>5, <3>1, <3>4, <4>1
      <4>3. last + 1 \in Place /\ last + 1 <= j
        BY <2>4, <3>1, <3>4, <4>1
      <4> QED
        BY <4>2, <4>3 DEF Adjacent
    <3> QED
      BY <3>1, <3>2, <3>3, <3>4
  <2>8. new[0] = below
    BY <1>3, <2>3, <2>5 DEF Place
  <2>9. ASSUME stack[0] = s
        PROVE  \A j \in 0 .. last : stack[j] = s
    <3> SUFFICES ASSUME NEW j \in 0 .. last PROVE stack[j] = s
      OBVIOUS
    <3>1. j \in Place /\ 0 <= j /\ j <= last
      BY <2>3, SessionAssumption DEF Place
    <3>2. stack[0] = stack[last] => stack[j] = stack[0]
      BY <1>3, <2>3, <3>1 DEF Adjacent
    <3> QED
      BY <2>3, <2>9, <3>2
  <2>10. ASSUME stack[0] = s, last # MAX_SESSION - 1
         PROVE  \E k \in Place : stack[k] = below /\ below # s
                                 /\ \A j \in 0 .. k - 1 : stack[j] = s
    <3>1. \A j \in 0 .. (last + 1) - 1 : stack[j] = s
      BY <2>3, <2>9, <2>10 DEF Place
    <3> QED
      BY <2>4, <2>10, <3>1
  <2>11. ASSUME stack[0] = s, last = MAX_SESSION - 1
         PROVE  below = NULL /\ \A j \in Place : stack[j] = s
    BY <2>6, <2>9, <2>11 DEF Place
  <2> QED
    BY <2>1, <2>7, <2>8, <2>10, <2>11
<1> QED
  BY <1>4, <1>5

FocusInv == IInv /\ Adjacent(keyboardStack)

\* The process of a session is destroyed, or it is not, or nobody's.
LEMMA DestroysFocus ==
  ASSUME FocusInv, NEW found \in SUBSET Session, Destroys(found),
         found = {} \/ \E s \in found : found = {s}
  PROVE  /\ Adjacent(keyboardStack')
         /\ LET s == sessionOnTop(keyboardStack)
                t == sessionOnTop(keyboardStack')
            IN s # NULL /\ sessions'[s] = NONE_PROC_ID =>
                 \/ \E k \in Place : keyboardStack[k] = t /\ t # s
                                     /\ \A j \in 0 .. k - 1 : keyboardStack[j] = s
                 \/ t = NULL /\ \A j \in Place : keyboardStack[j] = s
<1>1. /\ sessions \in [Session -> Client \cup {NONE_PROC_ID}]
      /\ keyboardStack \in Stack
      /\ Owned(keyboardStack, sessions)
      /\ Adjacent(keyboardStack)
  BY DEF FocusInv, IInv, ManagerTyped
<1>2. 0 \in Place
  BY SessionAssumption DEF Place
<1>3. ASSUME keyboardStack[0] # NULL
      PROVE  keyboardStack[0] \in Session /\ sessions[keyboardStack[0]] # NONE_PROC_ID
  BY <1>1, <1>2, <1>3 DEF Stack, Owned
<1>4. \A t \in Session : t \notin found => sessions'[t] = sessions[t]
  BY DEF Destroys
<1>5. CASE found = {}
  <2>1. keyboardStack' = keyboardStack
    BY <1>5 DEF Destroys
  <2> QED
    BY <1>1, <1>3, <1>4, <1>5, <2>1 DEF sessionOnTop
<1>6. CASE found # {}
  <2>1. PICK u \in found : found = {u}
    BY <1>6
  <2>2. Min(found) = u
    <3>1. found \subseteq Nat
      BY DEF Session
    <3> QED
      BY <2>1, <3>1, LeastNumber
  <2>3. keyboardStack' = sessionDestroy(keyboardStack, u) /\ u \in Session
    BY <1>6, <2>1, <2>2 DEF Destroys
  <2>4. /\ Adjacent(keyboardStack')
        /\ keyboardStack[0] = u =>
             \/ \E k \in Place : keyboardStack[k] = keyboardStack'[0] /\ keyboardStack'[0] # u
                                 /\ \A j \in 0 .. k - 1 : keyboardStack[j] = u
             \/ keyboardStack'[0] = NULL /\ \A j \in Place : keyboardStack[j] = u
    BY <1>1, <2>3, DestroyKeepsAdjacent
  <2>5. ASSUME keyboardStack[0] # NULL, sessions'[keyboardStack[0]] = NONE_PROC_ID
        PROVE  keyboardStack[0] = u
    BY <1>3, <1>4, <2>1, <2>5
  <2> QED
    BY <2>4, <2>5 DEF sessionOnTop
<1> QED
  BY <1>5, <1>6
LEMMA FocusStep ==
  IInv /\ Adjacent(keyboardStack) /\ [Next]_vars =>
    /\ Adjacent(keyboardStack')
    /\ LET s == sessionOnTop(keyboardStack)
           t == sessionOnTop(keyboardStack')
       IN alive' /\ s # NULL /\ sessions'[s] = NONE_PROC_ID =>
            \/ \E k \in Place : keyboardStack[k] = t /\ t # s
                                /\ \A j \in 0 .. k - 1 : keyboardStack[j] = s
            \/ t = NULL /\ \A j \in Place : keyboardStack[j] = s
<1> DEFINE Falls ==
             LET s == sessionOnTop(keyboardStack)
                 t == sessionOnTop(keyboardStack')
             IN s # NULL /\ sessions'[s] = NONE_PROC_ID =>
                  \/ \E k \in Place : keyboardStack[k] = t /\ t # s
                                      /\ \A j \in 0 .. k - 1 : keyboardStack[j] = s
                  \/ t = NULL /\ \A j \in Place : keyboardStack[j] = s
<1> SUFFICES ASSUME IInv, Adjacent(keyboardStack), [Next]_vars
             PROVE  Adjacent(keyboardStack') /\ (alive' => Falls)
  BY Zenon
<1>0. /\ sessions \in [Session -> Client \cup {NONE_PROC_ID}]
      /\ keyboardStack \in Stack
      /\ inbox \in Seq(Message)
      /\ handling \in Handling
      /\ Owned(keyboardStack, sessions)
      /\ OneEach(sessions)
      /\ Adjacent(keyboardStack)
      /\ FocusInv
  BY DEF IInv, ManagerTyped, FocusInv
<1>1. ASSUME keyboardStack[0] # NULL
      PROVE  keyboardStack[0] \in Session /\ sessions[keyboardStack[0]] # NONE_PROC_ID
  BY <1>0, <1>1, SessionAssumption DEF Stack, Owned, Place
<1>2. ASSUME UNCHANGED <<sessions, keyboardStack>>
      PROVE  Adjacent(keyboardStack') /\ Falls
  BY <1>0, <1>1, <1>2 DEF sessionOnTop
<1>3. ASSUME NEW found \in SUBSET Session, Destroys(found),
             found = {} \/ \E s \in found : found = {s}
      PROVE  Adjacent(keyboardStack') /\ Falls
  BY <1>0, <1>3, DestroysFocus, Zenon
<1>4. CASE TakeAttach
  <2> DEFINE p == Head(inbox).proc
             free == SessionsOf(NONE_PROC_ID)
             s == Min(free)
             refused == HasSession(p) \/ free = {} \/ IsFull(keyboardStack, s)
  <2>1. p \in Client
    <3>1. Head(inbox) \in Message /\ Head(inbox).kind = "attach"
      BY <1>0, <1>4 DEF TakeAttach, Takes
    <3> QED
      BY <3>1 DEF Message
  <2>2. CASE refused
    BY <1>2, <1>4, <2>2 DEF TakeAttach
  <2>3. CASE ~refused
    <3>1. sessions' = [sessions EXCEPT ![s] = p] /\ keyboardStack' = sessionEnable(keyboardStack, s)
      BY <1>4, <2>3 DEF TakeAttach
    <3>2. s \in Session /\ sessions[s] = NONE_PROC_ID
      <4>1. free \subseteq Nat /\ free # {}
        BY <2>3 DEF SessionsOf, Session
      <4>2. s \in free
        BY <4>1, LeastNumber
      <4> QED
        BY <4>2 DEF SessionsOf
    <3> HIDE DEF p, s
    <3>3. \A k \in Place : keyboardStack[k] # s
      BY <1>0, <3>2 DEF Owned, Stack, Session, NULL
    <3>4. Adjacent(keyboardStack')
      BY <1>0, <3>1, <3>2, <3>3, EnableKeepsAdjacent
    <3>5. \A t \in Session : sessions[t] # NONE_PROC_ID => sessions'[t] # NONE_PROC_ID
      BY <1>0, <2>1, <3>1, ServiceAssumption
    <3>6. Falls
      BY <1>1, <3>5 DEF sessionOnTop
    <3> QED
      BY <3>4, <3>6
  <2> QED
    BY <2>2, <2>3
<1>5. CASE TakeDestroyed
  <2> DEFINE p == Head(inbox).proc
  <2>1. p \in Client
    <3>1. Head(inbox) \in Message /\ Head(inbox).kind = "destroyed"
      BY <1>0, <1>5 DEF TakeDestroyed, Takes
    <3> QED
      BY <3>1 DEF Message
  <2>2. SessionsOf(p) = {} \/ \E s \in SessionsOf(p) : SessionsOf(p) = {s}
    BY <1>0, <2>1, ServiceAssumption DEF SessionsOf, OneEach
  <2>3. SessionsOf(p) \in SUBSET Session /\ Destroys(SessionsOf(p))
    BY <1>5 DEF TakeDestroyed, SessionsOf
  <2> QED
    BY <1>3, <2>2, <2>3
<1>6. CASE SendKey
  <2>1. handling.session \in Session
    BY <1>0, <1>6 DEF SendKey, Calls, Handling
  <2>2. PICK found \in {{handling.session}, {}} : Destroys(found)
    BY <1>6 DEF SendKey
  <2> QED
    BY <1>3, <2>1, <2>2
<1>7. CASE Fug
  <2>1. keyboardStack' = EmptyStack /\ ~alive'
    BY <1>7 DEF Fug
  <2>2. Adjacent(keyboardStack')
    BY <2>1 DEF Adjacent, EmptyStack
  <2> QED
    BY <2>1, <2>2
<1>8. CASE KeyPress \/ Reply \/ TakeKey \/ UNCHANGED vars
  BY <1>2, <1>8 DEF KeyPress, Reply, TakeKey, vars, manager
<1>9. ASSUME NEW p \in Client, Start(p) \/ Application(p)
      PROVE  Adjacent(keyboardStack') /\ (alive' => Falls)
  <2>1. UNCHANGED <<sessions, keyboardStack>>
    BY <1>9 DEF Application, Start, RegisterNotification, SendAttach, SendAttachFails,
                RegisterListener, HandleItem, Bye, manager
  <2> QED
    BY <1>2, <2>1
<1> QED
  BY <1>4, <1>5, <1>6, <1>7, <1>8, <1>9 DEF Next, Manager

\* For any number of sessions: whenever the session on top of the stack of
\* gnwkbdm/session.c is destroyed, the keys go to the one right below it, or to
\* nobody if there is none, although the loop that shifts the stack runs the
\* wrong way and other sessions may have been dropped by it before.
THEOREM KeysFallBack == Spec => FocusFallsBack
<1>1. Init => FocusInv
  BY InitHolds DEF Init, EmptyStack, Adjacent, FocusInv
<1>2. FocusInv /\ [Next]_vars => FocusInv'
  BY StepKeeps, FocusStep DEF FocusInv
<1>3. FocusInv /\ [Next]_vars =>
        [LET s == sessionOnTop(keyboardStack)
             t == sessionOnTop(keyboardStack')
         IN alive' /\ s # NULL /\ sessions'[s] = NONE_PROC_ID =>
              \/ \E k \in Place : keyboardStack[k] = t /\ t # s
                                  /\ \A j \in 0 .. k - 1 : keyboardStack[j] = s
              \/ t = NULL /\ \A j \in Place : keyboardStack[j] = s]_vars
  BY FocusStep, Zenon DEF FocusInv
<1> QED
  BY <1>1, <1>2, <1>3, PTL DEF Spec, FocusFallsBack

=============================================================================
