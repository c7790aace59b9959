--------------------------------- MODULE Ipc ---------------------------------
(***************************************************************************)
(* Messages between processes (kernel/ipc): the listeners they register by *)
(* path, the queries they send each other, the replies they wait for, and  *)
(* the bindings that let one process call another.                         *)
(*                                                                         *)
(* A system call is one step: the kernel is not interrupted by a process.  *)
(* The end of a process is one step with the job k_ipc_procCleanup, which  *)
(* the kernel runs before any process (see Scheduler for both).  A run     *)
(* loop is the mailbox that RunLoop implements.  What a refused call       *)
(* returns is left out: it changes nothing.                                *)
(***************************************************************************)
EXTENDS Integers, Sequences, FiniteSets, SequencesExt, FiniteSetsExt

CONSTANTS
  MAX_PROC, MAX_IPC_LISTENER, MAX_IPC_TOKEN, MAX_BINDING, DISPATCH_QUEUE_SIZE,
  GNW_PATH_IPC_MAX_LENGTH,
  AlphaNumeric  \* the characters of the components of a path

ASSUME IpcAssumption ==
  {MAX_PROC, MAX_IPC_LISTENER, MAX_IPC_TOKEN, MAX_BINDING, DISPATCH_QUEUE_SIZE,
   GNW_PATH_IPC_MAX_LENGTH} \subseteq Nat \ {0}

VARIABLES
  alive,                \* the processes there are
  ipcListenerRegister, ipcReplyRegister, bindings,
  waiting,              \* the processes locked with PLT_IPC
  runLoop,              \* the messages in the run loop of each process
  hand,                 \* the message its listener is working on
  oops                  \* the kernel has panicked

ipcVars == <<alive, ipcListenerRegister, ipcReplyRegister, bindings, waiting, runLoop, hand, oops>>

Proc == 0 .. MAX_PROC - 1
KERNEL == -1
NONE == -2
Token == 0 .. MAX_IPC_TOKEN - 1
NoToken == MAX_IPC_TOKEN

NoListener == [procId |-> NONE, path |-> <<>>, bindingRequired |-> FALSE, permissionMask |-> {}]
NoReply == [senderProcId |-> NONE, handlerProcId |-> NONE]
NoBinding == [sender |-> NONE, receiver |-> NONE, permissions |-> {}]

\* A message names the listener it is for by its path. What became of its
\* sender since, "living", "gone" or "dismissed", is not known to the code.
Message(path, from, token, bound, data) ==
  [path |-> path, from |-> from, token |-> token, bound |-> bound, data |-> data,
   fate |-> "living"]
Nothing == Message(<<>>, NONE, NoToken, FALSE, <<>>)

Free == Proc \ alive
Runs(p) == ~oops /\ p \in alive \ waiting

-----------------------------------------------------------------------------
(* Paths.                                                                  *)

pathGlobalValidate(path) ==
  /\ path # <<>>
  /\ path[1] # "/" /\ Last(path) # "/"
  /\ ToSet(path) \subseteq AlphaNumeric \cup {"/"}
  /\ \A i \in 1 .. Len(path) - 1 : <<path[i], path[i + 1]>> # <<"/", "/">>

Prefixed(path, prefix) ==
  /\ Len(path) > 2
  /\ SubSeq(path, 1, 2) = <<prefix, "/">>
  /\ pathGlobalValidate(SubSeq(path, 3, Len(path)))
pathDirectValidate(path) == Prefixed(path, ":")
pathNotificationValidate(path) == Prefixed(path, "_")

\* GNW_PATH_IPC_BINDING_NOTIFICATION_SESSION_DESTROYED
SessionDestroyed == <<"_", "/", "i", "p", "c", "/", "s", "d">>

\* The entries a path leads to: of their paths it is compared with as many
\* characters as it has itself.
ListenersForPath(path) ==
  {i \in DOMAIN ipcListenerRegister : IsPrefix(path, ipcListenerRegister[i].path)}

-----------------------------------------------------------------------------
(* IPC_REGISTER.                                                           *)

AnyProc(p) == TRUE  \* variant: no precondition
receivesKernelNotifications(p) ==
  \E i \in DOMAIN ipcListenerRegister :
    /\ ipcListenerRegister[i].procId = p
    /\ ipcListenerRegister[i].path = SessionDestroyed

Registrable(p, path, bindingRequired, permissionMask) ==
  /\ path # <<>> /\ Len(path) <= GNW_PATH_IPC_MAX_LENGTH
  /\ permissionMask # {} => bindingRequired
  /\ \/ pathGlobalValidate(path) /\ ListenersForPath(path) = {}
     \/ pathDirectValidate(path) /\ bindingRequired
     \/ pathNotificationValidate(path) /\ ~bindingRequired
  /\ bindingRequired => receivesKernelNotifications(p)

k_ipc_register(p, path, bindingRequired, permissionMask) ==
  LET free == {i \in DOMAIN ipcListenerRegister : ipcListenerRegister[i].procId = NONE}
  IN /\ Registrable(p, path, bindingRequired, permissionMask)
     /\ IF free = {}
        THEN oops' = TRUE /\ UNCHANGED ipcListenerRegister
        ELSE /\ ipcListenerRegister' =
                  [ipcListenerRegister EXCEPT ![Min(free)] =
                     [procId |-> p, path |-> path, bindingRequired |-> bindingRequired,
                      permissionMask |-> permissionMask]]
             /\ UNCHANGED oops
     /\ UNCHANGED <<alive, ipcReplyRegister, bindings, waiting, runLoop, hand>>

\* The system call: a descriptor that is not in the memory of the process is a panic,
\* and is left out.
k_scr_usr_ipcRegister(p, path, bindingRequired, permissionMask) ==
  Runs(p) /\ k_ipc_register(p, path, bindingRequired, permissionMask)

-----------------------------------------------------------------------------
(* Bindings.                                                               *)

Bindings(sender, receiver) ==
  {i \in DOMAIN bindings : bindings[i].sender = sender /\ bindings[i].receiver = receiver}

\* The notice that a process has destroyed a binding goes to the other side of
\* it, if that listens for it; a run loop it does not fit in is a panic.
Notice(p) == Message(SessionDestroyed, KERNEL, NoToken, FALSE, p)
Notifiable(p) ==
  \E i \in ListenersForPath(SessionDestroyed) : ipcListenerRegister[i].procId = p
Fits(boxes) == \A p \in Proc : Len(boxes[p]) <= DISPATCH_QUEUE_SIZE

\* What GIBF_BIND, GIBF_UPDATE and GIBF_UNBIND do for a process and its peer. A
\* binding that exists is not looked for before another one is created.
Rebinds(peer, p, bindData) ==
  CASE bindData.flag = "NONE" -> TRUE
    [] bindData.flag = "BIND" -> Bindings(NONE, NONE) # {}
    [] OTHER -> Bindings(peer, p) # {}

Rebound(peer, p, bindData) ==
  LET new == [sender |-> peer, receiver |-> p, permissions |-> bindData.permissions]
  IN IF ~Rebinds(peer, p, bindData) \/ bindData.flag = "NONE" THEN bindings
     ELSE CASE bindData.flag = "BIND" -> [bindings EXCEPT ![Min(Bindings(NONE, NONE))] = new]
            [] bindData.flag = "UPDATE" -> [bindings EXCEPT ![Min(Bindings(peer, p))] = new]
            [] bindData.flag = "UNBIND" -> [bindings EXCEPT ![Min(Bindings(peer, p))] = NoBinding]

Dismisses(peer, p, bindData) == bindData.flag = "UNBIND" /\ Rebinds(peer, p, bindData)

\* What is left of a message of a sender whose fate is sealed, for a listener that
\* requires a binding.
Sealed(message, from, fate) ==
  IF message.bound /\ message.from = from /\ message.fate = "living"
  THEN [message EXCEPT !.fate = fate] ELSE message

\* The messages in the boxes, and those in hand, once p has changed its binding.
BoxesRebound(boxes, peer, p, bindData) ==
  IF ~Dismisses(peer, p, bindData) THEN boxes
  ELSE LET sealed == [boxes EXCEPT ![p] = [i \in DOMAIN @ |-> Sealed(@[i], peer, "dismissed")]]
       IN IF Notifiable(peer)
          THEN [sealed EXCEPT ![peer] = Append(@, Notice(p))] ELSE sealed

HandRebound(peer, p, bindData) ==
  IF Dismisses(peer, p, bindData)
  THEN [hand EXCEPT ![p] = Sealed(@, peer, "dismissed")] ELSE hand

-----------------------------------------------------------------------------
(* IPC_SEND.                                                               *)

\* The listener a query is for: the first one, of the process it names if it is direct.
Heard(q) ==
  {i \in ListenersForPath(q.path) :
     \/ pathGlobalValidate(q.path)
     \/ pathDirectValidate(q.path) /\ ipcListenerRegister[i].procId = q.procId}

\* A listener may require that its process has bound the sender, with all the
\* permissions it asks for; only the first binding counts.
Allowed(p, listener) ==
  listener.bindingRequired =>
    LET found == Bindings(p, listener.procId)
    IN found # {} /\ listener.permissionMask \subseteq bindings[Min(found)].permissions

FreeTokens == {t \in Token : ipcReplyRegister[t].senderProcId = NONE}

\* The query is put in the run loop of the listener, then the binding is changed.
\* A run loop that is full refuses it: the sender is unlocked before it runs again.
k_ipc_send(p, q) ==
  LET listener == ipcListenerRegister[Min(Heard(q))]
      h == listener.procId
      reply == [senderProcId |-> p, handlerProcId |-> h]
      token == IF q.replyBytes = 0 THEN NoToken ELSE Min(FreeTokens)
      delivered == [runLoop EXCEPT ![h] =
                      Append(@, Message(listener.path, p, token, listener.bindingRequired, q.path))]
  IN /\ q.path # <<>> /\ Len(q.path) <= GNW_PATH_IPC_MAX_LENGTH
     /\ Heard(q) # {}
     /\ pathDirectValidate(q.path) => listener.bindingRequired
     /\ Allowed(p, listener)
     /\ IF q.replyBytes # 0 /\ FreeTokens = {}
        THEN oops' = TRUE /\ UNCHANGED <<ipcReplyRegister, waiting, bindings, runLoop, hand>>
        ELSE /\ Fits(delivered)
             /\ IF q.replyBytes = 0
                THEN UNCHANGED <<ipcReplyRegister, waiting>>
                ELSE /\ ipcReplyRegister' = [ipcReplyRegister EXCEPT ![token] = reply]
                     /\ waiting' = waiting \cup {p}
             /\ bindings' = Rebound(h, p, q.bindData)
             /\ runLoop' = BoxesRebound(delivered, h, p, q.bindData)
             /\ hand' = HandRebound(h, p, q.bindData)
             /\ oops' = ~Fits(runLoop')
     /\ UNCHANGED <<alive, ipcListenerRegister>>

k_scr_usr_ipcSend(p, q) == Runs(p) /\ k_ipc_send(p, q)

-----------------------------------------------------------------------------
(* IPC_REPLY.                                                              *)

\* The lock is dropped with the last reply a process waits for.
StillAwaited(replies) == {replies[t].senderProcId : t \in Token}

\* As k_ipc_reply would be if it unlocked the sender before it clears the reply.
ReplyUnlocksFirst(p, token, bindData) ==
  LET s == ipcReplyRegister[token].senderProcId
  IN /\ ipcReplyRegister[token].handlerProcId = p
     /\ Rebinds(s, p, bindData)
     /\ bindings' = Rebound(s, p, bindData)
     /\ runLoop' = BoxesRebound(runLoop, s, p, bindData)
     /\ oops' = ~Fits(runLoop')
     /\ ipcReplyRegister' = [ipcReplyRegister EXCEPT ![token] = NoReply]
     /\ waiting' = waiting \ ({s} \ StillAwaited(ipcReplyRegister))
     /\ UNCHANGED <<alive, ipcListenerRegister>>

\* Only the process that has the query may answer; if the binding it asks for
\* cannot be had, nothing is answered.
k_ipc_reply(p, token, bindData) ==
  LET s == ipcReplyRegister[token].senderProcId
  IN /\ ipcReplyRegister[token].handlerProcId = p
     /\ Rebinds(s, p, bindData)
     /\ bindings' = Rebound(s, p, bindData)
     /\ runLoop' = BoxesRebound(runLoop, s, p, bindData)
     /\ oops' = ~Fits(runLoop')
     /\ ipcReplyRegister' = [ipcReplyRegister EXCEPT ![token] = NoReply]
     /\ waiting' = waiting \ ({s} \ StillAwaited(ipcReplyRegister'))
     /\ UNCHANGED <<alive, ipcListenerRegister>>

-----------------------------------------------------------------------------
(* The end of a process.                                                   *)

\* Who is told that p is gone, once for each binding: those it was bound by. What
\* it had bound itself is forgotten without a word.
Told(p, r) ==
  IF r # p /\ Notifiable(r)
  THEN [k \in 1 .. Cardinality(Bindings(p, r)) |-> Notice(p)] ELSE <<>>

k_ipc_procCleanup(p) ==
  LET failed == {t \in Token : ipcReplyRegister[t].handlerProcId = p}
      dropped == failed \cup {t \in Token : ipcReplyRegister[t].senderProcId = p}
  IN /\ ipcListenerRegister' =
          [i \in DOMAIN ipcListenerRegister |->
             IF ipcListenerRegister[i].procId = p THEN NoListener ELSE ipcListenerRegister[i]]
     /\ ipcReplyRegister' =
          [t \in Token |-> IF t \in dropped THEN NoReply ELSE ipcReplyRegister[t]]
     /\ waiting' = waiting \ ({ipcReplyRegister[t].senderProcId : t \in failed}
                                \ StillAwaited(ipcReplyRegister'))
     /\ bindings' = [i \in DOMAIN bindings |->
                       IF p \in {bindings[i].sender, bindings[i].receiver}
                       THEN NoBinding ELSE bindings[i]]

\* BYE and FUG, with the cleanups: the run loop of the process is emptied too.
k_scr_usr_bye(p) ==
  /\ Runs(p)
  /\ k_ipc_procCleanup(p)
  /\ alive' = alive \ {p}
  /\ runLoop' = [r \in Proc |->
                   IF r = p THEN <<>>
                   ELSE [i \in DOMAIN runLoop[r] |-> Sealed(runLoop[r][i], p, "gone")] \o Told(p, r)]
  /\ hand' = [r \in Proc |-> IF r = p THEN Nothing ELSE Sealed(hand[r], p, "gone")]
  /\ oops' = ~Fits(runLoop')

\* A slot is given to a new process.
Start(p) ==
  /\ ~oops /\ p \in Free /\ \A q \in Free : p <= q
  /\ alive' = alive \cup {p}
  /\ UNCHANGED <<ipcListenerRegister, ipcReplyRegister, bindings, waiting, runLoop, hand, oops>>

\* A process takes the next message and calls the listener it is for.
Take(p) ==
  /\ Runs(p) /\ hand[p] = Nothing /\ runLoop[p] # <<>>
  /\ hand' = [hand EXCEPT ![p] = Head(runLoop[p])]
  /\ runLoop' = [runLoop EXCEPT ![p] = Tail(@)]
  /\ UNCHANGED <<alive, ipcListenerRegister, ipcReplyRegister, bindings, waiting, oops>>

\* A listener returns that owes no reply.
Return(p) ==
  /\ Runs(p) /\ hand[p] # Nothing /\ hand[p].token = NoToken
  /\ hand' = [hand EXCEPT ![p] = Nothing]
  /\ UNCHANGED <<alive, ipcListenerRegister, ipcReplyRegister, bindings, waiting, runLoop, oops>>

\* A listener replies and returns.
Answer(p, bindData) ==
  /\ Runs(p) /\ hand[p].token # NoToken
  /\ k_ipc_reply(p, hand[p].token, bindData)
  /\ hand' = [hand EXCEPT ![p] = Nothing]

k_ipc_init ==
  /\ ipcListenerRegister = [i \in 0 .. MAX_IPC_LISTENER - 1 |-> NoListener]
  /\ ipcReplyRegister = [t \in Token |-> NoReply]
  /\ bindings = [i \in 0 .. MAX_BINDING - 1 |-> NoBinding]

-----------------------------------------------------------------------------
(* Properties.                                                             *)

\* The message with this token, in hand or in a run loop of p.
Holds(p, token) ==
  \/ hand[p].token = token
  \/ \E i \in DOMAIN runLoop[p] : runLoop[p][i].token = token

\* Nobody waits in vain: a process is locked exactly when it has one reply to come,
\* and the query for it, with its name on it, is with a process that is alive and
\* may answer it, or is about to call its end.  No other query bears its token.
EveryReplyIsOwed ==
  /\ \A p \in Proc :
       LET tokens == {t \in Token : ipcReplyRegister[t].senderProcId = p}
       IN Cardinality(tokens) = IF p \in waiting THEN 1 ELSE 0
  /\ \A t \in Token :
       LET reply == ipcReplyRegister[t]
       IN reply # NoReply => /\ reply.handlerProcId \in alive
                             /\ Holds(reply.handlerProcId, t)
  /\ \A p \in Proc :
       \A m \in {hand[p]} \cup ToSet(runLoop[p]) :
         m.token # NoToken =>
           ipcReplyRegister[m.token] = [senderProcId |-> m.from, handlerProcId |-> p]

\* A listener that requires a binding never takes one process for another: if the
\* sender of a message it has or will get is gone, and its slot perhaps given away,
\* then the notice of it comes after that message.
GoneIsAnnounced ==
  \A p \in alive :
    /\ hand[p].bound /\ hand[p].fate = "gone"
         => Notice(hand[p].from) \in ToSet(runLoop[p])
    /\ \A i \in DOMAIN runLoop[p] :
         runLoop[p][i].bound /\ runLoop[p][i].fate = "gone"
           => \E j \in i + 1 .. Len(runLoop[p]) : runLoop[p][j] = Notice(runLoop[p][i].from)
=============================================================================
