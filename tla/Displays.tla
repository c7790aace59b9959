------------------------------ MODULE Displays ------------------------------
(***************************************************************************)
(* The display manager (user/gnwdispm), the first process there is, and    *)
(* applications that send each other and the manager queries over the      *)
(* kernel's IPC (Ipc): to get a display, attach to it and push frames      *)
(* (api/app/src/gunwdisplay.c), or anything else.                          *)
(*                                                                         *)
(* There is one display.  A listener of the manager is two steps: all it   *)
(* does before its reply, and the reply.  What a device call answers that  *)
(* may fail is open.                                                       *)
(***************************************************************************)
EXTENDS Ipc, SessionStack

CONSTANTS
  Registration,  \* what the applications register: process, path, binding, permissions
  Query,         \* what they send: sender, path, process, bytes of the reply, binding
  BindData       \* what they ask for with a reply: process, flag and permissions

VARIABLES
  sessions,      \* the process of each session
  displayStack,  \* the stack of sessions of the display
  registered,    \* how far the start of the manager has come
  answer         \* the flag of the reply that a listener of the manager is about to send

managerVars == <<sessions, displayStack, registered, answer>>
vars == <<ipcVars, managerVars>>

Manager == 0
Application == Proc \ {Manager}

DISPMGR_PATH_GET == <<"d", "m", "/", "g">>
DISPMGR_PATH_ATTACH == <<"d", "m", "/", "a">>
DISPMGR_PATH_PUSH == <<"d", "m", "/", "p">>

\* Paths are made of letters and digits, and of what separates and marks their
\* components.
Path == Seq(AlphaNumeric \cup {"/", ":", "_"})
Flag == {"NONE", "BIND", "UPDATE", "UNBIND"}
ASSUME DisplaysAssumption ==
  /\ AlphaNumeric \cap {"/", ":", "_"} = {}
  /\ {"a", "c", "d", "g", "i", "m", "p", "s"} \subseteq AlphaNumeric
  /\ \A r \in Registration :
       r.procId \in Application /\ r.path \in Path /\ r.bindingRequired \in BOOLEAN
  /\ \A q \in Query :
       q.sender \in Application /\ q.path \in Path /\ q.bindData.flag \in Flag
  /\ \A b \in BindData : b.procId \in Application /\ b.flag \in Flag

\* The listeners of the manager in the order of their registration, and the one
\* that requires a binding.
Listeners == <<DISPMGR_PATH_GET, DISPMGR_PATH_ATTACH, SessionDestroyed, DISPMGR_PATH_PUSH>>

Init ==
  /\ k_ipc_init
  /\ alive = {Manager} /\ waiting = {}
  /\ runLoop = [p \in Proc |-> <<>>]
  /\ hand = [p \in Proc |-> Nothing]
  /\ oops = FALSE
  /\ sessions = [s \in Session |-> NONE]
  /\ displayStack = EmptyStack
  /\ registered = 0
  /\ answer = "none"

-----------------------------------------------------------------------------
(* The manager.                                                            *)

Register ==
  /\ registered < Len(Listeners)
  /\ LET path == Listeners[registered + 1]
     IN k_scr_usr_ipcRegister(Manager, path, path = DISPMGR_PATH_PUSH, {})
  /\ registered' = registered + 1
  /\ UNCHANGED <<sessions, displayStack, answer>>

sessionsOf(p) == {s \in Session : sessions[s] = p}
sessionForProc(p) == Min(sessionsOf(p))

\* The session that sessionCreate takes, if there is one, and the stack that
\* sessionEnable leaves.
Created == Min(sessionsOf(NONE))
Enabled(s) == sessionEnable(displayStack, s)

\* sessionDestroy of session.c
Destroy(s) ==
  /\ sessions' = [sessions EXCEPT ![s] = NONE]
  /\ displayStack' = sessionDestroy(displayStack, s)

\* The manager takes a message that is for this listener and has what it asks for.
WellFormed(m) == m.data = m.path /\ m.token # NoToken
TakeFor(path) ==
  /\ registered = Len(Listeners) /\ answer = "none"
  /\ Take(Manager)
  /\ hand'[Manager].path = path
  /\ UNCHANGED registered
TakeQuery(path) == TakeFor(path) /\ WellFormed(hand'[Manager])

\* A message of another size than the listener expects.
TakeInconsistent ==
  /\ \E path \in ToSet(Listeners) \ {SessionDestroyed} : TakeFor(path)
  /\ ~WellFormed(hand'[Manager])
  /\ answer' = "fug"
  /\ UNCHANGED <<sessions, displayStack>>

GetDisplay ==
  /\ TakeQuery(DISPMGR_PATH_GET)
  /\ answer' = "NONE"
  /\ UNCHANGED <<sessions, displayStack>>

\* display_attachToDisplay: the session is new and on top, or is destroyed again if
\* the device refuses the format.  A process that has a session, a display that is
\* unknown or of another kind, and a lack of sessions or places are refused.
AttachToDisplay ==
  /\ TakeQuery(DISPMGR_PATH_ATTACH)
  /\ LET p == hand'[Manager].from
         s == Created
     IN \/ answer' = "NONE" /\ UNCHANGED <<sessions, displayStack>>
        \/ /\ sessionsOf(p) = {} /\ sessionsOf(NONE) # {} /\ ~IsFull(displayStack, s)
           /\ \/ /\ sessions' = [sessions EXCEPT ![s] = p]
                 /\ displayStack' = Enabled(s)
                 /\ answer' = "BIND"
              \/ /\ displayStack' = sessionDestroy(Enabled(s), s)
                 /\ answer' = "NONE"
                 /\ UNCHANGED sessions

\* display_pushFrame: for another display, or if the device refuses the frame, the
\* session is destroyed; the binding is not.  A session not on top is told to wait.
PushFrame ==
  /\ TakeQuery(DISPMGR_PATH_PUSH)
  /\ answer' = "NONE"
  /\ LET p == hand'[Manager].from
     IN \/ sessionsOf(p) # {} /\ Destroy(sessionForProc(p))
        \/ UNCHANGED <<sessions, displayStack>>

\* The rest of the listener: a reply nobody waits for any more is forgotten, any
\* other failure is the end of the manager.
Reply ==
  LET m == hand[Manager]
  IN /\ answer \in {"NONE", "BIND"}
     /\ Runs(Manager)
     /\ IF Rebinds(m.from, Manager, [flag |-> answer, permissions |-> {}])
        THEN Answer(Manager, [flag |-> answer, permissions |-> {}]) /\ answer' = "none"
        ELSE answer' = "fug" /\ UNCHANGED ipcVars
     /\ UNCHANGED <<sessions, displayStack, registered>>

\* As OnSessionDestroy would be if it left the session of the process alone.
OnSessionDestroyIgnores ==
  /\ TakeFor(SessionDestroyed)
  /\ answer' = "return"
  /\ UNCHANGED <<sessions, displayStack>>

OnSessionDestroy ==
  /\ TakeFor(SessionDestroyed)
  /\ answer' = "return"
  /\ LET p == hand'[Manager].data
     IN IF sessionsOf(p) # {} THEN Destroy(sessionForProc(p))
        ELSE UNCHANGED <<sessions, displayStack>>

Returns ==
  /\ answer = "return" /\ Return(Manager)
  /\ answer' = "none"
  /\ UNCHANGED <<sessions, displayStack, registered>>

\* What is left of the manager is nobody's.
Fug ==
  /\ answer = "fug" /\ k_scr_usr_bye(Manager)
  /\ answer' = "none" /\ registered' = 0
  /\ sessions' = [s \in Session |-> NONE]
  /\ displayStack' = EmptyStack

-----------------------------------------------------------------------------
(* The applications.                                                       *)

\* The applications start when the manager is ready (bound): it is the first process
\* that k_startup starts.  Once it has ended, its slot is the next one given away, and
\* what would be in it is not the manager: nothing more is started.
StartApplication == registered = Len(Listeners) /\ \E p \in Application : Start(p)

\* An application registers a listener once (bound).
ApplicationRegisters(p) ==
  \E r \in Registration :
    /\ r.procId = p
    /\ \A i \in DOMAIN ipcListenerRegister : ipcListenerRegister[i] # r
    /\ k_scr_usr_ipcRegister(p, r.path, r.bindingRequired, r.permissionMask)
Send(p) == \E q \in Query : q.sender = p /\ k_scr_usr_ipcSend(p, q)
Answers(p) ==
  \E b \in BindData : b.procId = p /\ Answer(p, [flag |-> b.flag, permissions |-> b.permissions])
Bye(p) == k_scr_usr_bye(p)

Next ==
  \/ Register \/ TakeInconsistent \/ GetDisplay \/ AttachToDisplay \/ PushFrame
  \/ OnSessionDestroy \/ Reply \/ Returns \/ Fug
  \/ /\ \/ StartApplication
        \/ \E p \in Application :
             ApplicationRegisters(p) \/ Send(p) \/ Take(p) \/ Answers(p) \/ Return(p) \/ Bye(p)
     /\ UNCHANGED managerVars

Spec == Init /\ [][Next]_vars

-----------------------------------------------------------------------------
\* A session belongs to the process that attached to the display and to no other
\* that has got its slot: the process is bound to the manager or about to be, or the
\* notice of its end is on its way, or the manager is about to end itself.
SessionIsAnnounced ==
  \A s \in Session :
    LET p == sessions[s]
        m == hand[Manager]
    IN p # NONE =>
         \/ p \in alive /\ Bindings(p, Manager) # {}
         \/ p \in alive /\ answer = "BIND" /\ m.from = p
         \/ Notice(p) \in ToSet(runLoop[Manager])
         \/ answer = "fug"
=============================================================================
