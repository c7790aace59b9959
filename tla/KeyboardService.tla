--------------------------- MODULE KeyboardService ---------------------------
(***************************************************************************)
(* The keyboard from the interrupt to the application: the driver emits a  *)
(* key to the keyboard manager (user/gnwkbdm), which sends it to the       *)
(* application whose session is on top of its stack.  Applications attach  *)
(* with attachToKeyboard of the library (api/app/src/gunwkeyboard.c), and  *)
(* the kernel's IPC binds both sides to each other, so that the manager is *)
(* told when an application is gone.                                       *)
(*                                                                         *)
(* A system call is one step, and so is the rest of a listener between two *)
(* of them.  An application that waits for a reply does not run.  The      *)
(* manager is started once, at boot.  An OOPS halts the CPU.               *)
(***************************************************************************)
EXTENDS SessionStack, Sequences, FiniteSets, FiniteSetsExt

CONSTANTS
  Client,               \* process identifiers of applications
  NONE_PROC_ID,         \* no process
  DISPATCH_QUEUE_SIZE,  \* items of a run loop
  MAX_BINDING,          \* bindings of the kernel
  MAX_ATTACH            \* bound: attachToKeyboard calls of one application

ASSUME ServiceAssumption ==
  /\ NONE_PROC_ID \notin Client
  /\ IsFiniteSet(Client)
  /\ {DISPATCH_QUEUE_SIZE, MAX_BINDING, MAX_ATTACH} \subseteq Nat \ {0}

VARIABLES
  sessions,         \* manager: the process of each session
  keyboardStack,    \* manager: the stack of sessions
  inbox,            \* manager: its run loop
  handling,         \* manager: what its listener is about to call
  alive,            \* manager: it has not crashed
  app,              \* what each application is about to do
  attached,         \* attachToKeyboard calls each application has begun
  notified,         \* applications with a listener for destroyed sessions
  listening,        \* applications with a listener for keys
  pending,          \* items in the run loop of each application
  toManager,        \* kernel: bindings with the application as the sender
  toClient,         \* kernel: bindings with the application as the receiver
  oops              \* the panic that halted the CPU, if any

manager == <<sessions, keyboardStack, inbox, handling, alive>>
clients == <<app, attached, notified, listening, pending>>
bindings == <<toManager, toClient>>
vars == <<manager, clients, bindings, oops>>

Message == [kind : {"attach", "destroyed"}, proc : Client]
             \cup [kind : {"key"}, proc : {NONE_PROC_ID}]
Handling ==
  [call : {"none", "crash"}]
    \cup [call : {"reply"}, proc : Client, ok : BOOLEAN]
    \cup [call : {"send"}, session : Session]

None == [call |-> "none"]
Crash == [call |-> "crash"]
Letter(kind, p) == [kind |-> kind, proc |-> p]

Waiting(p) == app[p] \in {"wait", "unbound"}
Fits(box, n) == Len(box) + n <= DISPATCH_QUEUE_SIZE
BindingsUsed == MapThenSumSet(LAMBDA p : toManager[p] + toClient[p], Client)

-----------------------------------------------------------------------------
(* The driver and the applications.                                        *)

\* The event goes to the run loop of the manager, which holds the device.
KeyPress ==
  /\ oops = "none"
  /\ IF alive /\ Fits(inbox, 1)
     THEN inbox' = Append(inbox, Letter("key", NONE_PROC_ID)) /\ oops' = "none"
     ELSE oops' = "emit" /\ UNCHANGED inbox
  /\ UNCHANGED <<sessions, keyboardStack, handling, alive, clients, bindings>>

\* A process is started in a slot that is free.
Start(p) ==
  /\ oops = "none" /\ app[p] = "none"
  /\ app' = [app EXCEPT ![p] = "idle"]
  /\ UNCHANGED <<manager, attached, notified, listening, pending, bindings, oops>>

\* attachToKeyboard begins: ipcRegisterNotification.
RegisterNotification(p) ==
  /\ oops = "none" /\ app[p] = "idle" /\ attached[p] < MAX_ATTACH
  /\ app' = [app EXCEPT ![p] = "send"]
  /\ attached' = [attached EXCEPT ![p] = @ + 1]
  /\ notified' = notified \cup {p}
  /\ UNCHANGED <<manager, listening, pending, bindings, oops>>

\* ipcSend with GIBF_BIND, once the query is in the manager's run loop.  If
\* there is no binding left the sender waits all the same, and fails.
SendAttach(p) ==
  /\ oops = "none" /\ app[p] = "send" /\ alive /\ Fits(inbox, 1)
  /\ inbox' = Append(inbox, Letter("attach", p))
  /\ IF BindingsUsed < MAX_BINDING
     THEN /\ toClient' = [toClient EXCEPT ![p] = @ + 1]
          /\ app' = [app EXCEPT ![p] = "wait"]
     ELSE /\ app' = [app EXCEPT ![p] = "unbound"]
          /\ UNCHANGED toClient
  /\ UNCHANGED <<sessions, keyboardStack, handling, alive, attached, notified,
                 listening, pending, toManager, oops>>

\* The run loop of the manager is full; or there is no manager, so that ipcSend
\* succeeds and the result, which nobody has written, says anything.
SendAttachFails(p) ==
  /\ oops = "none" /\ app[p] = "send"
  /\ \/ alive /\ ~Fits(inbox, 1) /\ app' = [app EXCEPT ![p] = "idle"]
     \/ ~alive /\ \E next \in {"idle", "listen"} : app' = [app EXCEPT ![p] = next]
  /\ UNCHANGED <<manager, attached, notified, listening, pending, bindings, oops>>

\* attachToKeyboard ends: ipcRegister of the listener for keys.
RegisterListener(p) ==
  /\ oops = "none" /\ app[p] = "listen"
  /\ app' = [app EXCEPT ![p] = "idle"]
  /\ listening' = listening \cup {p}
  /\ UNCHANGED <<manager, attached, notified, pending, bindings, oops>>

\* The application handles an item of its run loop.
HandleItem(p) ==
  /\ oops = "none" /\ app[p] = "idle" /\ pending[p] > 0
  /\ pending' = [pending EXCEPT ![p] = @ - 1]
  /\ UNCHANGED <<manager, app, attached, notified, listening, bindings, oops>>

\* k_ipc_procCleanup notifies the receiver of each binding of which the process
\* is the sender, and forgets the others.  The kernel runs the cleanups before
\* any process.
Forgets(p) == <<>>  \* variant: the receiver is not notified
Notices(p) == [k \in 1 .. toManager[p] |-> Letter("destroyed", p)]
KeepsListener(p) == listening  \* variant: listeners outlive their process
ClearsListener(p) == listening \ {p}
Bye(p) ==
  /\ oops = "none" /\ app[p] = "idle"
  /\ app' = [app EXCEPT ![p] = "none"]
  /\ attached' = [attached EXCEPT ![p] = 0]
  /\ notified' = notified \ {p}
  /\ listening' = ClearsListener(p)
  /\ pending' = [pending EXCEPT ![p] = 0]
  /\ toManager' = [toManager EXCEPT ![p] = 0]
  /\ toClient' = [toClient EXCEPT ![p] = 0]
  /\ IF alive
     THEN /\ inbox' = inbox \o Notices(p)
          /\ oops' = IF Fits(inbox, toManager[p]) THEN "none" ELSE "notice"
     ELSE UNCHANGED <<inbox, oops>>
  /\ UNCHANGED <<sessions, keyboardStack, handling, alive>>

-----------------------------------------------------------------------------
(* The manager.                                                            *)

Takes(kind) ==
  /\ oops = "none" /\ alive /\ handling = None
  /\ inbox # <<>> /\ Head(inbox).kind = kind
  /\ inbox' = Tail(inbox)

Calls(call) == oops = "none" /\ alive /\ handling.call = call

SessionsOf(p) == {s \in Session : sessions[s] = p}

\* keyboard_attach: refused for a process that has a session, and if there is no
\* session left or the stack is full.
HasSession(p) == SessionsOf(p) # {}
TakeAttach ==
  /\ Takes("attach")
  /\ LET p == Head(inbox).proc
         free == SessionsOf(NONE_PROC_ID)
     IN IF HasSession(p) \/ free = {} \/ IsFull(keyboardStack, Min(free))
        THEN /\ handling' = [call |-> "reply", proc |-> p, ok |-> FALSE]
             /\ UNCHANGED <<sessions, keyboardStack>>
        ELSE /\ handling' = [call |-> "reply", proc |-> p, ok |-> TRUE]
             /\ sessions' = [sessions EXCEPT ![Min(free)] = p]
             /\ keyboardStack' = sessionEnable(keyboardStack, Min(free))
  /\ UNCHANGED <<alive, clients, bindings, oops>>

\* ipcReply, with GIBF_BIND for an application that has got its session.
Reply ==
  /\ Calls("reply")
  /\ LET p == handling.proc
     IN IF handling.ok /\ BindingsUsed >= MAX_BINDING
        THEN handling' = Crash /\ UNCHANGED <<app, toManager>>
        ELSE /\ handling' = None
             /\ app' = [app EXCEPT ![p] = IF handling.ok /\ @ = "wait" THEN "listen" ELSE "idle"]
             /\ toManager' = [toManager EXCEPT ![p] = IF handling.ok THEN @ + 1 ELSE @]
  /\ UNCHANGED <<sessions, keyboardStack, inbox, alive, attached, notified,
                 listening, pending, toClient, oops>>

\* sessionDestroy of the session the process has, if any.
Destroys(found) ==
  /\ sessions' = [s \in Session |-> IF s \in found THEN NONE_PROC_ID ELSE sessions[s]]
  /\ keyboardStack' = IF found = {} THEN keyboardStack
                      ELSE sessionDestroy(keyboardStack, Min(found))

\* onSessionDestroy.
TakeDestroyed ==
  /\ Takes("destroyed")
  /\ Destroys(SessionsOf(Head(inbox).proc))
  /\ UNCHANGED <<handling, alive, clients, bindings, oops>>

\* onDeviceEvent, up to ipcSendDirect.
TakeKey ==
  /\ Takes("key")
  /\ handling' = IF sessionOnTop(keyboardStack) = NULL THEN None
                 ELSE [call |-> "send", session |-> sessionOnTop(keyboardStack)]
  /\ UNCHANGED <<sessions, keyboardStack, alive, clients, bindings, oops>>

\* The process may have said bye in between: then nobody listens, which is no
\* error.  If its run loop is full the manager destroys its session and crashes.
SendKey ==
  /\ Calls("send")
  /\ LET s == handling.session
         p == sessions[s]
         forbidden == p \in listening /\ toClient[p] = 0
         full == p \in listening /\ ~forbidden /\ pending[p] >= DISPATCH_QUEUE_SIZE
     IN /\ handling' = IF full THEN Crash ELSE None
        /\ Destroys(IF full \/ forbidden THEN {s} ELSE {})
        /\ pending' = IF p \in listening /\ ~full /\ ~forbidden
                      THEN [pending EXCEPT ![p] = @ + 1] ELSE pending
  /\ UNCHANGED <<inbox, alive, app, attached, notified, listening, bindings, oops>>

\* fug says bye: senders that wait are failed, applications that the manager is
\* bound to are notified.  Nobody starts the manager again.
FailsNobody(p) == FALSE  \* variant: replies of a dead handler stay pending
Fails(p) == Waiting(p)
Fug ==
  /\ Calls("crash")
  /\ alive' = FALSE
  /\ sessions' = [s \in Session |-> NONE_PROC_ID]
  /\ keyboardStack' = EmptyStack
  /\ inbox' = <<>>
  /\ handling' = None
  /\ app' = [p \in Client |-> IF Fails(p) THEN "idle" ELSE app[p]]
  /\ LET told(p) == IF p \in notified THEN toClient[p] ELSE 0
     IN /\ pending' = [p \in Client |-> Min({pending[p] + told(p), DISPATCH_QUEUE_SIZE})]
        /\ oops' = IF \E p \in Client : pending[p] + told(p) > DISPATCH_QUEUE_SIZE
                   THEN "notice" ELSE "none"
  /\ toManager' = [p \in Client |-> 0]
  /\ toClient' = [p \in Client |-> 0]
  /\ UNCHANGED <<attached, notified, listening>>

-----------------------------------------------------------------------------
Manager == TakeAttach \/ Reply \/ TakeDestroyed \/ TakeKey \/ SendKey \/ Fug
Application(p) ==
  \/ RegisterNotification(p) \/ SendAttach(p) \/ SendAttachFails(p)
  \/ RegisterListener(p) \/ HandleItem(p) \/ Bye(p)

\* The manager is in its run loop, with the device acquired.
Init ==
  /\ sessions = [s \in Session |-> NONE_PROC_ID]
  /\ keyboardStack = EmptyStack
  /\ inbox = <<>>
  /\ handling = None
  /\ alive = TRUE
  /\ app = [p \in Client |-> "none"]
  /\ attached = [p \in Client |-> 0]
  /\ notified = {}
  /\ listening = {}
  /\ pending = [p \in Client |-> 0]
  /\ toManager = [p \in Client |-> 0]
  /\ toClient = [p \in Client |-> 0]
  /\ oops = "none"

Next == KeyPress \/ Manager \/ \E p \in Client : Start(p) \/ Application(p)

Spec == Init /\ [][Next]_vars

\* The manager gets the CPU whenever it is READY for long enough.
FairSpec == Spec /\ WF_vars(Manager)

-----------------------------------------------------------------------------
(* What the manager, the kernel and the library promise each other.        *)

\* The stack never points to a session that has been destroyed, which another
\* process may own by now; it has no holes, so that whoever is on it gets the
\* keys once those above are gone; and a process has one session at most.
StackIsSound ==
  /\ \A k \in Place : keyboardStack[k] # NULL =>
       /\ sessions[keyboardStack[k]] # NONE_PROC_ID
       /\ \A j \in 0 .. k : keyboardStack[j] # NULL
  /\ \A s, t \in Session : sessions[s] = sessions[t] /\ s # t => sessions[s] = NONE_PROC_ID

\* A session outlives its process only until the manager has read of its end:
\* either the process is bound, or about to be, or the notice is on its way.
SessionIsAccountedFor ==
  \A p \in Client :
    HasSession(p) =>
      \/ toManager[p] > 0
      \/ handling.call = "reply" /\ handling.proc = p
      \/ handling.call = "crash"
      \/ \E i \in 1 .. Len(inbox) : inbox[i] = Letter("destroyed", p)

\* A key is never sent to a process that has taken the slot of the one whose
\* session is on top: who listens has attached itself.
StrangersGetNoKeys ==
  handling.call = "send" =>
    LET p == sessions[handling.session]
    IN p \in listening =>
         /\ toManager[p] > 0
         /\ \A i \in 1 .. Len(inbox) : inbox[i] # Letter("destroyed", p)

\* When the session on top is destroyed, the one right below it gets the keys, or
\* nobody if there is none.
FocusFallsBack ==
  [][LET s == sessionOnTop(keyboardStack)
         t == sessionOnTop(keyboardStack')
     IN alive' /\ s # NULL /\ sessions'[s] = NONE_PROC_ID =>
          \/ \E k \in Place : keyboardStack[k] = t /\ t # s
                              /\ \A j \in 0 .. k - 1 : keyboardStack[j] = s
          \/ t = NULL /\ \A j \in Place : keyboardStack[j] = s]_vars

\* session.c, "Shift stack": a session stays on the stack until it is destroyed.
FocusIsKept ==
  [][\A s \in Session :
       Places(keyboardStack, s) # {} /\ sessions'[s] # NONE_PROC_ID
         => Places(keyboardStack', s) # {}]_vars

\* Whoever waits for the answer of attachToKeyboard gets one, or an error.
AttachReturns == \A p \in Client : Waiting(p) ~> ~Waiting(p) \/ oops # "none"

\* The session of a process that is gone is destroyed in the end.
GoneIsForgotten ==
  \A p \in Client : app[p] = "none" /\ HasSession(p) ~> ~HasSession(p) \/ oops # "none"
=============================================================================
