--------------------------- MODULE DisplaysProofs ---------------------------
(***************************************************************************)
(* The kernel's messages between processes and the display manager that    *)
(* lives on them: nobody waits in vain for a reply, no process is taken    *)
(* for another one with its identifier, and no session outlives its        *)
(* process unnoticed.  For any number of processes, listeners, tokens and  *)
(* bindings, and whatever the applications register, send and answer.      *)
(***************************************************************************)
EXTENDS Displays, FiniteSetTheorems, WellFoundedInduction, TLAPS

-----------------------------------------------------------------------------
(* The messages of a process, the one in hand first.  Parameters are used  *)
(* instead of the variables, so that the lemmas are about any messages.    *)

Mail == [path : Path, from : Proc \cup {KERNEL, NONE}, token : Token \cup {NoToken},
         bound : BOOLEAN, data : Path \cup Proc, fate : {"living", "gone", "dismissed"}]

Position(loop) == 0 .. Len(loop)
Item(h, loop, i) == IF i = 0 THEN h ELSE loop[i]
Has(h, loop, t) == \E i \in Position(loop) : Item(h, loop, i).token = t

\* A message with a token is a query that p owes a reply to.
IsOwed(m, p, replies) ==
  m.token # NoToken => replies[m.token] = [senderProcId |-> m.from, handlerProcId |-> p]

\* Known: the processes p has bound and would be told of.
IsKnown(m, known) == m.bound /\ m.fate = "living" => m.from \in known

\* What is left of a process that is gone is read before the notice of its end.
IsFollowed(m, loop, i) ==
  m.bound /\ m.fate = "gone" => \E j \in i + 1 .. Len(loop) : loop[j] = Notice(m.from)

\* Only the kernel says that a process is gone.
IsGenuine(m) == m.path = SessionDestroyed => m.data \in Proc /\ m = Notice(m.data)

TokensOnce(h, loop) ==
  \A i, j \in Position(loop) :
    Item(h, loop, i).token # NoToken /\ Item(h, loop, i).token = Item(h, loop, j).token => i = j

BoxIsSound(h, loop, p, replies, known) ==
  /\ h \in Mail /\ loop \in Seq(Mail)
  /\ TokensOnce(h, loop)
  /\ \A i \in Position(loop) :
       LET m == Item(h, loop, i)
       IN IsOwed(m, p, replies) /\ IsKnown(m, known) /\ IsFollowed(m, loop, i) /\ IsGenuine(m)

-----------------------------------------------------------------------------
(* The invariant of the kernel's tables.                                   *)

Slot == 0 .. MAX_BINDING - 1
Reply0 == [senderProcId : Proc \cup {NONE}, handlerProcId : Proc \cup {NONE}]
Knows(p) == {q \in Proc : Bindings(q, p) # {} /\ Notifiable(p)}

TablesTyped ==
  /\ alive \subseteq Proc /\ waiting \subseteq alive
  /\ ipcListenerRegister = [i \in 0 .. MAX_IPC_LISTENER - 1 |-> ipcListenerRegister[i]]
  /\ ipcReplyRegister \in [Token -> Reply0]
  /\ bindings = [i \in Slot |-> bindings[i]]
  /\ runLoop = [p \in Proc |-> runLoop[p]] /\ hand = [p \in Proc |-> hand[p]]

\* A listener is of a process there is, which is told of the end of others if the
\* listener requires a binding.
ListenerIsSound(i) ==
  LET l == ipcListenerRegister[i]
  IN l = NoListener \/ /\ l.procId \in alive /\ l.path \in Path /\ l.bindingRequired \in BOOLEAN
                       /\ l.bindingRequired => receivesKernelNotifications(l.procId)

\* A reply is owed to a process that waits for it and for no other.
ReplyIsSound(t) ==
  LET r == ipcReplyRegister[t]
  IN r = NoReply \/ /\ r.senderProcId \in waiting /\ r.handlerProcId \in alive
                    /\ Has(hand[r.handlerProcId], runLoop[r.handlerProcId], t)
                    /\ \A u \in Token : ipcReplyRegister[u].senderProcId = r.senderProcId => u = t

IpcInv ==
  /\ TablesTyped
  /\ \A i \in 0 .. MAX_IPC_LISTENER - 1 : ListenerIsSound(i)
  /\ \A t \in Token : ReplyIsSound(t)
  /\ \A p \in waiting : \E t \in Token : ipcReplyRegister[t].senderProcId = p
  /\ \A p \in Proc : BoxIsSound(hand[p], runLoop[p], p, ipcReplyRegister, Knows(p))
  /\ \A p \in Proc \ alive : hand[p] = Nothing /\ runLoop[p] = <<>>

\* The manager: it knows of the end of processes before it has a session, and
\* answers queries.
ManagerInv ==
  /\ sessions \in [Session -> Proc \cup {NONE}]
  /\ \A s, t \in Session : sessions[s] = sessions[t] /\ sessions[s] # NONE => s = t
  /\ registered \in 0 .. Len(Listeners)
  /\ answer \in {"none", "NONE", "BIND", "return", "fug"}
  /\ answer \in {"NONE", "BIND"} => hand[Manager].token # NoToken
  /\ \A s \in Session : sessions[s] # NONE => registered = Len(Listeners)
  /\ registered >= 3 /\ ~oops => receivesKernelNotifications(Manager)

IInv == IpcInv /\ ManagerInv /\ SessionIsAnnounced

-----------------------------------------------------------------------------
(* Paths.                                                                  *)

LEMMA FirstOfTwo == \A a, b : <<a, b>>[1] = a
OBVIOUS

LEMMA PathOfKernel ==
  /\ Len(SessionDestroyed) = 8
  /\ SessionDestroyed \in Path
<1> DEFINE S == AlphaNumeric \cup {"/", ":", "_"}
<1> DEFINE a == "_"
<1> DEFINE b == "/"
<1> DEFINE c == "i"
<1> DEFINE d == "p"
<1> DEFINE e == "c"
<1> DEFINE f == "s"
<1> DEFINE g == "d"
<1>1. SessionDestroyed = <<a, b, c, d, e, b, f, g>> /\ Path = Seq(S)
  BY Zenon DEF SessionDestroyed, Path
<1>2. a \in S /\ b \in S /\ c \in S /\ d \in S /\ e \in S /\ f \in S /\ g \in S
  BY DisplaysAssumption, Zenon
<1> HIDE DEF a, b, c, d, e, f, g, S
<1> QED BY <1>1, <1>2

LEMMA FirstOfKernel == SessionDestroyed[1] = "_"
<1> DEFINE a == "_"
<1> DEFINE b == "/"
<1> DEFINE c == "i"
<1> DEFINE d == "p"
<1> DEFINE e == "c"
<1> DEFINE f == "s"
<1> DEFINE g == "d"
<1>1. SessionDestroyed = <<a, b, c, d, e, b, f, g>>
  BY Zenon DEF SessionDestroyed
<1> HIDE DEF a, b, c, d, e, f, g
<1>2. SessionDestroyed[1] = a
  BY <1>1
<1> QED BY <1>2, Zenon DEF a

LEMMA PathsOfManager ==
  /\ Len(Listeners) = 4
  /\ Listeners[3] = SessionDestroyed
  /\ \A i \in 1 .. 4 : Listeners[i] \in Path
  /\ DISPMGR_PATH_PUSH # SessionDestroyed
  /\ DISPMGR_PATH_GET # SessionDestroyed /\ DISPMGR_PATH_ATTACH # SessionDestroyed
<1> DEFINE S == AlphaNumeric \cup {"/", ":", "_"}
<1> DEFINE a == "d"
<1> DEFINE b == "m"
<1> DEFINE c == "/"
<1> DEFINE d == "g"
<1> DEFINE e == "a"
<1> DEFINE f == "p"
<1>1. /\ DISPMGR_PATH_GET = <<a, b, c, d>> /\ DISPMGR_PATH_ATTACH = <<a, b, c, e>>
      /\ DISPMGR_PATH_PUSH = <<a, b, c, f>> /\ Path = Seq(S)
  BY Zenon DEF DISPMGR_PATH_GET, DISPMGR_PATH_ATTACH, DISPMGR_PATH_PUSH, Path
<1>2. a \in S /\ b \in S /\ c \in S /\ d \in S /\ e \in S /\ f \in S
  BY DisplaysAssumption, Zenon
<1> HIDE DEF a, b, c, d, e, f, S
<1>3. /\ Len(DISPMGR_PATH_GET) = 4 /\ Len(DISPMGR_PATH_ATTACH) = 4 /\ Len(DISPMGR_PATH_PUSH) = 4
  BY <1>1
<1>4. DISPMGR_PATH_GET \in Path /\ DISPMGR_PATH_ATTACH \in Path /\ DISPMGR_PATH_PUSH \in Path
  BY <1>1, <1>2
<1>5. /\ Listeners[1] \in Path /\ Listeners[2] \in Path /\ Listeners[3] \in Path
      /\ Listeners[4] \in Path /\ Len(Listeners) = 4 /\ Listeners[3] = SessionDestroyed
  BY <1>4, PathOfKernel DEF Listeners
<1> QED BY <1>3, <1>5, PathOfKernel

LEMMA PrefixStarts ==
  ASSUME NEW S, NEW s \in Seq(S), NEW t \in Seq(S), s # <<>>, IsPrefix(s, t)
  PROVE  t[1] = s[1] /\ s[1] \in ToSet(s)
<1>1. /\ SubSeq(s, 1, Len(s)) = SubSeq(t, 1, Len(s))
      /\ Len(s) \in Nat /\ Len(t) \in Nat /\ 1 <= Len(s) /\ Len(s) <= Len(t)
  BY DEF IsPrefix
<1>2. SubSeq(s, 1, Len(s))[1] = s[1] /\ SubSeq(t, 1, Len(s))[1] = t[1]
  BY <1>1
<1> QED BY <1>1, <1>2 DEF ToSet

LEMMA FirstOfPart == ASSUME NEW S, NEW s \in Seq(S), Len(s) > 2 PROVE SubSeq(s, 1, 2)[1] = s[1]
OBVIOUS

\* The path of a listener that a query is for is not that of the kernel's notices.
LEMMA QueryIsNoNotice ==
  ASSUME NEW path \in Path, NEW heard \in Path, path # <<>>, IsPrefix(path, heard),
         pathGlobalValidate(path) \/ pathDirectValidate(path)
  PROVE  heard # SessionDestroyed
<1>1. heard[1] = path[1] /\ path[1] \in ToSet(path)
  BY PrefixStarts, Zenon DEF Path
<1>2. CASE pathGlobalValidate(path)
  <2>1. path[1] \in AlphaNumeric \cup {"/"}
    BY <1>1, <1>2, Zenon DEF pathGlobalValidate
  <2>2. "_" # "/"
    BY Zenon
  <2> QED BY <1>1, <2>1, <2>2, FirstOfKernel, DisplaysAssumption, Zenon
<1>3. CASE pathDirectValidate(path)
  <2>1. Len(path) > 2 /\ SubSeq(path, 1, 2) = <<":", "/">>
    BY <1>3, Zenon DEF pathDirectValidate, Prefixed
  <2>2. path[1] = ":"
    BY <2>1, FirstOfTwo, FirstOfPart, Zenon DEF Path
  <2>3. ":" # "_"
    BY Zenon
  <2> QED BY <1>1, <2>2, <2>3, FirstOfKernel, Zenon
<1> QED BY <1>2, <1>3

-----------------------------------------------------------------------------
(* Messages.                                                               *)

LEMMA ProcNumbers ==
  /\ Proc \subseteq Nat /\ Token \subseteq Nat /\ Manager \in Proc
  /\ NoToken \in Nat /\ NoToken \notin Token
  /\ KERNEL \notin Proc /\ NONE \notin Proc /\ KERNEL # NONE
  BY IpcAssumption DEF Proc, Token, Manager, NoToken, KERNEL, NONE

LEMMA NoticeIsMail ==
  ASSUME NEW p \in Proc
  PROVE  /\ Notice(p) \in Mail /\ Notice(p).token = NoToken /\ ~Notice(p).bound
         /\ Notice(p).path = SessionDestroyed /\ Notice(p).data = p
         /\ Notice(p).fate = "living"
<1>1. Notice(p).path = SessionDestroyed /\ Notice(p).data = p
  BY DEF Notice, Message
<1>2. Notice(p).token = NoToken /\ ~Notice(p).bound /\ Notice(p).fate = "living"
  BY DEF Notice, Message
<1>3. Notice(p) \in Mail
  <2> DEFINE P == Path
  <2> HIDE DEF P
  <2>1. SessionDestroyed \in P
    BY PathOfKernel DEF P
  <2>2. ASSUME NEW s \in P
        PROVE  [path |-> s, from |-> KERNEL, token |-> NoToken, bound |-> FALSE, data |-> p,
                fate |-> "living"]
                 \in [path : P, from : Proc \cup {KERNEL, NONE}, token : Token \cup {NoToken},
                      bound : BOOLEAN, data : P \cup Proc, fate : {"living", "gone", "dismissed"}]
    OBVIOUS
  <2> QED BY <2>1, <2>2 DEF Notice, Message, Mail, P
<1> QED BY <1>1, <1>2, <1>3

LEMMA NothingIsMail ==
  /\ Nothing \in Mail /\ Nothing.token = NoToken /\ ~Nothing.bound
  /\ Nothing.path # SessionDestroyed
<1> DEFINE P == Path
<1>1. <<>> \in P /\ <<>> # SessionDestroyed
  <2> DEFINE S == AlphaNumeric \cup {"/", ":", "_"}
  <2>1. P = Seq(S)
    BY DEF P, Path
  <2> HIDE DEF S
  <2>2. <<>> \in P
    BY <2>1
  <2> QED BY <2>2, PathOfKernel
<1> HIDE DEF P
<1>2. [path |-> <<>>, from |-> NONE, token |-> NoToken, bound |-> FALSE, data |-> <<>>,
       fate |-> "living"]
        \in [path : P, from : Proc \cup {KERNEL, NONE}, token : Token \cup {NoToken},
             bound : BOOLEAN, data : P \cup Proc, fate : {"living", "gone", "dismissed"}]
  BY <1>1
<1>3. Nothing \in Mail
  BY <1>2 DEF Nothing, Message, Mail, P
<1>4. Nothing.token = NoToken /\ ~Nothing.bound /\ Nothing.path = <<>>
  BY DEF Nothing, Message
<1> QED BY <1>1, <1>3, <1>4

\* A message that is sealed is the same but for its fate, and a notice is never.
LEMMA SealedIsMail ==
  ASSUME NEW m \in Mail, NEW q, NEW fate \in {"gone", "dismissed"}
  PROVE  LET n == Sealed(m, q, fate)
         IN /\ n \in Mail
            /\ n.path = m.path /\ n.from = m.from /\ n.token = m.token /\ n.bound = m.bound
            /\ n.data = m.data
            /\ n.bound /\ n.fate = "living" => m.fate = "living" /\ n.from # q
            /\ n.bound /\ n.fate = "gone" =>
                 m.fate = "gone" \/ (m.fate = "living" /\ n.from = q /\ fate = "gone")
            /\ ~m.bound => n = m
<1>1. CASE m.bound /\ m.from = q /\ m.fate = "living"
  <2>1. Sealed(m, q, fate) = [m EXCEPT !.fate = fate]
    BY <1>1 DEF Sealed
  <2> QED BY <1>1, <2>1 DEF Mail
<1>2. CASE ~(m.bound /\ m.from = q /\ m.fate = "living")
  BY <1>2 DEF Sealed
<1> QED BY <1>1, <1>2

\* The process takes its next message.
LEMMA BoxTaken ==
  ASSUME NEW loop, loop # <<>>, NEW p, NEW replies, NEW known,
         BoxIsSound(Nothing, loop, p, replies, known)
  PROVE  /\ BoxIsSound(Head(loop), Tail(loop), p, replies, known)
         /\ \A t \in Token : Has(Nothing, loop, t) => Has(Head(loop), Tail(loop), t)
<1> DEFINE h == Head(loop)
<1> DEFINE rest == Tail(loop)
<1>1. /\ loop \in Seq(Mail) /\ TokensOnce(Nothing, loop)
      /\ \A i \in Position(loop) :
           LET m == Item(Nothing, loop, i)
           IN IsOwed(m, p, replies) /\ IsKnown(m, known) /\ IsFollowed(m, loop, i) /\ IsGenuine(m)
  BY DEF BoxIsSound
<1>2. /\ h \in Mail /\ rest \in Seq(Mail) /\ Len(loop) \in Nat /\ Len(rest) = Len(loop) - 1
      /\ h = loop[1] /\ \A i \in 1 .. Len(rest) : rest[i] = loop[i + 1]
  BY <1>1
<1> HIDE DEF h, rest
<1>3. \A i \in Position(rest) : /\ i + 1 \in Position(loop) /\ i + 1 # 0 /\ i \in Nat
                                /\ Item(h, rest, i) = Item(Nothing, loop, i + 1)
  BY <1>2 DEF Position, Item
<1>4. TokensOnce(h, rest)
  BY <1>1, <1>3 DEF TokensOnce
<1>5. ASSUME NEW i \in Position(rest)
      PROVE  LET m == Item(h, rest, i)
             IN IsOwed(m, p, replies) /\ IsKnown(m, known) /\ IsFollowed(m, rest, i) /\ IsGenuine(m)
  <2> DEFINE m == Item(h, rest, i)
  <2> HIDE DEF m
  <2>1. IsOwed(m, p, replies) /\ IsKnown(m, known) /\ IsFollowed(m, loop, i + 1) /\ IsGenuine(m)
    BY <1>1, <1>3 DEF m
  <2>2. IsFollowed(m, rest, i)
    <3> SUFFICES ASSUME m.bound, m.fate = "gone"
                 PROVE  \E j \in i + 1 .. Len(rest) : rest[j] = Notice(m.from)
      BY DEF IsFollowed
    <3>1. PICK j \in (i + 1) + 1 .. Len(loop) : loop[j] = Notice(m.from)
      BY <2>1 DEF IsFollowed
    <3>2. j - 1 \in i + 1 .. Len(rest) /\ j - 1 \in 1 .. Len(rest) /\ (j - 1) + 1 = j
      BY <1>2, <1>3
    <3>3. rest[j - 1] = loop[j]
      BY <1>2, <3>2
    <3> QED BY <3>1, <3>2, <3>3
  <2> QED BY <2>1, <2>2 DEF m
<1>6. BoxIsSound(h, rest, p, replies, known)
  BY <1>2, <1>4, <1>5 DEF BoxIsSound
<1>7. ASSUME NEW t \in Token, Has(Nothing, loop, t) PROVE Has(h, rest, t)
  <2>1. PICK i \in Position(loop) : Item(Nothing, loop, i).token = t
    BY <1>7 DEF Has
  <2>2. i # 0
    BY <2>1, NothingIsMail, ProcNumbers DEF Item
  <2>3. i - 1 \in Position(rest) /\ (i - 1) + 1 = i
    BY <1>2, <2>2 DEF Position
  <2>4. Item(h, rest, i - 1).token = t
    BY <1>3, <2>1, <2>3
  <2> QED BY <2>3, <2>4 DEF Has
<1> QED BY <1>6, <1>7 DEF h, rest

\* The listener returns.
LEMMA BoxDropped ==
  ASSUME NEW h, NEW loop, NEW p, NEW replies, NEW known, BoxIsSound(h, loop, p, replies, known)
  PROVE  /\ BoxIsSound(Nothing, loop, p, replies, known)
         /\ \A t \in Token : Has(h, loop, t) /\ t # h.token => Has(Nothing, loop, t)
         /\ h.token \in Token => ~Has(Nothing, loop, h.token)
<1>1. /\ h \in Mail /\ loop \in Seq(Mail) /\ TokensOnce(h, loop)
      /\ \A i \in Position(loop) :
           LET m == Item(h, loop, i)
           IN IsOwed(m, p, replies) /\ IsKnown(m, known) /\ IsFollowed(m, loop, i) /\ IsGenuine(m)
  BY DEF BoxIsSound
<1>2. \A i \in Position(loop) : i # 0 => Item(Nothing, loop, i) = Item(h, loop, i)
  BY DEF Item
<1>3. Item(Nothing, loop, 0) = Nothing /\ Item(h, loop, 0) = h /\ 0 \in Position(loop)
  <2>1. Len(loop) \in Nat
    BY <1>1
  <2> QED BY <2>1 DEF Item, Position
<1>4. TokensOnce(Nothing, loop)
  BY <1>1, <1>2, <1>3, NothingIsMail DEF TokensOnce
<1>5. \A i \in Position(loop) :
        LET m == Item(Nothing, loop, i)
        IN IsOwed(m, p, replies) /\ IsKnown(m, known) /\ IsFollowed(m, loop, i) /\ IsGenuine(m)
  <2>1. IsOwed(Nothing, p, replies) /\ IsKnown(Nothing, known) /\ IsFollowed(Nothing, loop, 0)
        /\ IsGenuine(Nothing)
    BY NothingIsMail DEF IsOwed, IsKnown, IsFollowed, IsGenuine
  <2> QED BY <1>1, <1>2, <1>3, <2>1
<1>6. BoxIsSound(Nothing, loop, p, replies, known)
  BY <1>1, <1>4, <1>5, NothingIsMail DEF BoxIsSound
<1>7. \A t \in Token : Has(h, loop, t) /\ t # h.token => Has(Nothing, loop, t)
  BY <1>2, <1>3 DEF Has
<1>8. h.token \in Token => ~Has(Nothing, loop, h.token)
  <2> SUFFICES ASSUME h.token \in Token, NEW i \in Position(loop),
                      Item(Nothing, loop, i).token = h.token
               PROVE  FALSE
    BY DEF Has
  <2>1. i # 0
    BY <1>3, NothingIsMail, ProcNumbers
  <2>2. Item(h, loop, i).token = h.token /\ h.token # NoToken
    BY <1>2, <2>1, ProcNumbers
  <2> QED BY <1>1, <1>3, <2>1, <2>2 DEF TokensOnce
<1> QED BY <1>6, <1>7, <1>8

\* A message comes.
LEMMA BoxAdded ==
  ASSUME NEW h, NEW loop, NEW p, NEW replies, NEW known, BoxIsSound(h, loop, p, replies, known),
         NEW m \in Mail, m.fate = "living",
         IsOwed(m, p, replies), IsKnown(m, known), IsGenuine(m),
         m.token \in Token => ~Has(h, loop, m.token)
  PROVE  /\ BoxIsSound(h, Append(loop, m), p, replies, known)
         /\ \A t \in Token : Has(h, loop, t) => Has(h, Append(loop, m), t)
         /\ Has(h, Append(loop, m), m.token)
<1> DEFINE new == Append(loop, m)
<1>1. /\ h \in Mail /\ loop \in Seq(Mail) /\ TokensOnce(h, loop)
      /\ \A i \in Position(loop) :
           LET l == Item(h, loop, i)
           IN IsOwed(l, p, replies) /\ IsKnown(l, known) /\ IsFollowed(l, loop, i) /\ IsGenuine(l)
  BY DEF BoxIsSound
<1> DEFINE n == Len(loop)
<1>2. /\ new \in Seq(Mail) /\ n \in Nat /\ Len(new) = n + 1 /\ new[n + 1] = m
      /\ \A i \in 1 .. n : new[i] = loop[i]
  BY <1>1
<1> HIDE DEF new, n
<1>3. /\ \A i \in Position(loop) : i \in Position(new) /\ Item(h, new, i) = Item(h, loop, i)
      /\ \A i \in Position(new) : i \in Position(loop) \/ i = n + 1
      /\ n + 1 \in Position(new) /\ Item(h, new, n + 1) = m
  BY <1>2 DEF Position, Item, n
<1>4. TokensOnce(h, new)
  <2> SUFFICES ASSUME NEW i \in Position(new), NEW j \in Position(new),
                      Item(h, new, i).token # NoToken,
                      Item(h, new, i).token = Item(h, new, j).token
               PROVE  i = j
    BY DEF TokensOnce
  <2>1. Item(h, new, i).token \in Token
    <3>1. Item(h, new, i) \in Mail
      BY <1>1, <1>2 DEF Position, Item
    <3> QED BY <3>1 DEF Mail
  <2>2. CASE i \in Position(loop) /\ j \in Position(loop)
    BY <1>1, <1>3, <2>2 DEF TokensOnce
  <2>3. CASE i \in Position(loop) /\ j = n + 1
    BY <1>3, <2>1, <2>3 DEF Has
  <2>4. CASE i = n + 1 /\ j \in Position(loop)
    BY <1>3, <2>1, <2>4 DEF Has
  <2> QED BY <1>3, <2>2, <2>3, <2>4
<1>5. ASSUME NEW i \in Position(new)
      PROVE  LET l == Item(h, new, i)
             IN IsOwed(l, p, replies) /\ IsKnown(l, known) /\ IsFollowed(l, new, i) /\ IsGenuine(l)
  <2>1. CASE i = n + 1
    BY <1>3, <2>1 DEF IsFollowed
  <2>2. CASE i \in Position(loop)
    <3> DEFINE l == Item(h, loop, i)
    <3>1. IsOwed(l, p, replies) /\ IsKnown(l, known) /\ IsFollowed(l, loop, i) /\ IsGenuine(l)
      BY <1>1, <2>2
    <3>2. l = Item(h, new, i)
      BY <1>3, <2>2
    <3> HIDE DEF l
    <3>3. IsFollowed(l, new, i)
      <4>1. \A j \in i + 1 .. n : j \in i + 1 .. Len(new) /\ new[j] = loop[j]
        BY <1>2, <2>2 DEF Position
      <4> QED BY <3>1, <4>1 DEF IsFollowed, n
    <3> QED BY <3>1, <3>2, <3>3
  <2> QED BY <1>3, <2>1, <2>2
<1>6. BoxIsSound(h, new, p, replies, known)
  BY <1>1, <1>2, <1>4, <1>5 DEF BoxIsSound
<1>7. \A t \in Token : Has(h, loop, t) => Has(h, new, t)
  BY <1>3 DEF Has
<1>8. Has(h, new, m.token)
  BY <1>3 DEF Has
<1> QED BY <1>6, <1>7, <1>8 DEF new

\* The fate of a sender is sealed, and if it is gone a notice of it comes if it is known.
SealedLoop(loop, q, fate) == [i \in DOMAIN loop |-> Sealed(loop[i], q, fate)]

LEMMA SealedSequence ==
  ASSUME NEW loop \in Seq(Mail), NEW q, NEW fate \in {"gone", "dismissed"}
  PROVE  /\ SealedLoop(loop, q, fate) \in Seq(Mail)
         /\ Len(SealedLoop(loop, q, fate)) = Len(loop)
         /\ \A i \in 1 .. Len(loop) : SealedLoop(loop, q, fate)[i] = Sealed(loop[i], q, fate)
<1>1. \A i \in 1 .. Len(loop) : loop[i] \in Mail
  OBVIOUS
<1>2. \A i \in 1 .. Len(loop) : Sealed(loop[i], q, fate) \in Mail
  BY <1>1, SealedIsMail
<1> DEFINE s(i) == Sealed(loop[i], q, fate)
<1>3. \A i \in 1 .. Len(loop) : s(i) \in Mail
  BY <1>2
<1>4. SealedLoop(loop, q, fate) = [i \in 1 .. Len(loop) |-> s(i)]
  BY DEF SealedLoop
<1> HIDE DEF s
<1>5. Len(loop) \in Nat
  OBVIOUS
<1>6. /\ SealedLoop(loop, q, fate) \in Seq(Mail)
      /\ Len(SealedLoop(loop, q, fate)) = Len(loop)
      /\ \A i \in 1 .. Len(loop) : SealedLoop(loop, q, fate)[i] = s(i)
  BY <1>3, <1>4, <1>5
<1> QED BY <1>6 DEF s

LEMMA BoxSealed ==
  ASSUME NEW h, NEW loop, NEW p, NEW replies, NEW known, BoxIsSound(h, loop, p, replies, known),
         NEW q \in Proc, NEW fate \in {"gone", "dismissed"},
         NEW more \in Seq(Mail), \A k \in 1 .. Len(more) : more[k] = Notice(q),
         fate = "gone" /\ q \in known => more # <<>>
  PROVE  /\ BoxIsSound(Sealed(h, q, fate), SealedLoop(loop, q, fate) \o more, p, replies, known \ {q})
         /\ \A t \in Token :
              Has(h, loop, t) => Has(Sealed(h, q, fate), SealedLoop(loop, q, fate) \o more, t)
<1> DEFINE old(i) == Item(h, loop, i)
           g == Sealed(h, q, fate)
           s == SealedLoop(loop, q, fate)
           new == s \o more
           n == Len(loop)
<1>1. /\ h \in Mail /\ loop \in Seq(Mail) /\ TokensOnce(h, loop)
      /\ \A i \in Position(loop) :
           LET l == Item(h, loop, i)
           IN IsOwed(l, p, replies) /\ IsKnown(l, known) /\ IsFollowed(l, loop, i) /\ IsGenuine(l)
  BY DEF BoxIsSound
<1>2. /\ s \in Seq(Mail) /\ Len(s) = n /\ n \in Nat
      /\ \A i \in 1 .. n : s[i] = Sealed(loop[i], q, fate) /\ loop[i] \in Mail
  BY <1>1, SealedSequence
<1> HIDE DEF s
<1>3. g \in Mail
  BY <1>1, SealedIsMail
<1>4. /\ new \in Seq(Mail) /\ Len(new) = n + Len(more) /\ Len(more) \in Nat
      /\ \A i \in 1 .. n : new[i] = s[i]
      /\ \A i \in 1 .. Len(more) : new[n + i] = more[i]
  BY <1>2
<1> HIDE DEF new, g, n
<1>5. /\ 0 \in Position(loop) /\ \A i \in Position(loop) : i \in Position(new) /\ i <= n /\ i \in Nat
      /\ \A i \in Position(new) : i \in Position(loop) \/ (i - n \in 1 .. Len(more) /\ i # 0 /\ i \in Nat)
  BY <1>2, <1>4 DEF Position, n
<1>6. ASSUME NEW i \in Position(loop)
      PROVE  Item(g, new, i) = Sealed(old(i), q, fate) /\ old(i) \in Mail
  <2>1. CASE i = 0
    BY <1>1, <2>1 DEF Item, g
  <2>2. CASE i \in 1 .. n
    BY <1>2, <1>4, <2>2 DEF Item
  <2> QED BY <1>2, <2>1, <2>2 DEF Position, n
<1>7. ASSUME NEW i \in Position(new), i \notin Position(loop)
      PROVE  Item(g, new, i) = Notice(q)
  <2>1. i - n \in 1 .. Len(more) /\ i # 0 /\ i \in Nat /\ n + (i - n) = i
    BY <1>2, <1>5, <1>7
  <2>2. new[i] = more[i - n]
    BY <1>4, <2>1
  <2> QED BY <2>1, <2>2 DEF Item
<1>8. \A i \in Position(new) : Item(g, new, i).token # NoToken =>
        i \in Position(loop) /\ Item(g, new, i).token = old(i).token
  <2> SUFFICES ASSUME NEW i \in Position(new), Item(g, new, i).token # NoToken
               PROVE  i \in Position(loop) /\ Item(g, new, i).token = old(i).token
    OBVIOUS
  <2>1. i \in Position(loop)
    BY <1>7, NoticeIsMail
  <2>2. Item(g, new, i) = Sealed(old(i), q, fate) /\ old(i) \in Mail
    BY <1>6, <2>1
  <2> QED BY <2>1, <2>2, SealedIsMail
<1> HIDE DEF old
<1>9. TokensOnce(g, new)
  <2> SUFFICES ASSUME NEW i \in Position(new), NEW j \in Position(new),
                      Item(g, new, i).token # NoToken,
                      Item(g, new, i).token = Item(g, new, j).token
               PROVE  i = j
    BY DEF TokensOnce
  <2>1. i \in Position(loop) /\ j \in Position(loop) /\ old(i).token = old(j).token
        /\ old(i).token # NoToken
    BY <1>8
  <2> QED BY <1>1, <2>1 DEF TokensOnce, old
<1>10. ASSUME NEW i \in Position(new)
       PROVE  LET l == Item(g, new, i)
              IN IsOwed(l, p, replies) /\ IsKnown(l, known \ {q}) /\ IsFollowed(l, new, i) /\ IsGenuine(l)
  <2> DEFINE l == Item(g, new, i)
  <2> HIDE DEF l
  <2>1. CASE i \notin Position(loop)
    <3>1. l = Notice(q)
      BY <1>7, <2>1 DEF l
    <3> QED BY <3>1, NoticeIsMail DEF IsOwed, IsKnown, IsFollowed, IsGenuine, l
  <2>2. CASE i \in Position(loop)
    <3> DEFINE o == old(i)
    <3>1. l = Sealed(o, q, fate) /\ o \in Mail
      BY <1>6, <2>2 DEF l
    <3>2. IsOwed(o, p, replies) /\ IsKnown(o, known) /\ IsFollowed(o, loop, i) /\ IsGenuine(o)
      BY <1>1, <2>2 DEF old
    <3> HIDE DEF o
    <3>3. /\ l.path = o.path /\ l.from = o.from /\ l.token = o.token /\ l.bound = o.bound
          /\ l.bound /\ l.fate = "living" => o.fate = "living" /\ l.from # q
          /\ l.bound /\ l.fate = "gone" =>
               o.fate = "gone" \/ (o.fate = "living" /\ l.from = q /\ fate = "gone")
          /\ ~o.bound => l = o
      BY <3>1, SealedIsMail
    <3>4. IsOwed(l, p, replies) /\ IsKnown(l, known \ {q})
      BY <3>2, <3>3 DEF IsOwed, IsKnown
    <3>5. IsGenuine(l)
      BY <3>2, <3>3, NoticeIsMail DEF IsGenuine
    <3>6. IsFollowed(l, new, i)
      <4> SUFFICES ASSUME l.bound, l.fate = "gone"
                   PROVE  \E j \in i + 1 .. Len(new) : new[j] = Notice(l.from)
        BY DEF IsFollowed
      <4>1. CASE o.fate = "gone"
        <5>1. PICK j \in i + 1 .. n : loop[j] = Notice(o.from)
          BY <3>2, <3>3, <4>1 DEF IsFollowed, n
        <5>2. j \in 1 .. n /\ j \in i + 1 .. Len(new)
          BY <1>2, <1>4, <1>5, <2>2
        <5>3. new[j] = Sealed(loop[j], q, fate) /\ loop[j] \in Mail
          BY <1>2, <1>4, <5>2
        <5>4. ~loop[j].bound
          BY <5>1 DEF Notice, Message
        <5>5. new[j] = loop[j]
          BY <5>3, <5>4, SealedIsMail
        <5> QED BY <3>3, <5>1, <5>2, <5>5
      <4>2. CASE o.fate = "living" /\ l.from = q /\ fate = "gone"
        <5>1. q \in known
          BY <3>2, <3>3, <4>2 DEF IsKnown
        <5>2. 1 \in 1 .. Len(more) /\ more[1] = Notice(q)
          BY <1>4, <4>2, <5>1
        <5>3. n + 1 \in i + 1 .. Len(new) /\ new[n + 1] = Notice(q)
          BY <1>2, <1>4, <1>5, <2>2, <5>2
        <5> QED BY <4>2, <5>3
      <4> QED BY <3>3, <4>1, <4>2
    <3> QED BY <3>4, <3>5, <3>6 DEF l
  <2> QED BY <2>1, <2>2
<1>11. BoxIsSound(g, new, p, replies, known \ {q})
  BY <1>3, <1>4, <1>9, <1>10 DEF BoxIsSound
<1>12. ASSUME NEW t \in Token, Has(h, loop, t) PROVE Has(g, new, t)
  <2>1. PICK i \in Position(loop) : old(i).token = t
    BY <1>12 DEF Has, old
  <2>2. Item(g, new, i).token = t /\ i \in Position(new)
    BY <1>5, <1>6, <2>1, SealedIsMail
  <2> QED BY <2>2 DEF Has
<1> QED BY <1>11, <1>12 DEF g, new, s

\* What becomes of the tables does not matter to a box that has nothing to do with it.
LEMMA BoxKept ==
  ASSUME NEW h, NEW loop, NEW p, NEW replies, NEW known, BoxIsSound(h, loop, p, replies, known),
         NEW others, NEW more, known \subseteq more,
         \A t \in Token : Has(h, loop, t) => others[t] = replies[t]
  PROVE  BoxIsSound(h, loop, p, others, more)
<1>1. /\ h \in Mail /\ loop \in Seq(Mail)
      /\ \A i \in Position(loop) :
           LET l == Item(h, loop, i)
           IN IsOwed(l, p, replies) /\ IsKnown(l, known) /\ IsFollowed(l, loop, i) /\ IsGenuine(l)
  BY DEF BoxIsSound
<1>2. ASSUME NEW i \in Position(loop)
      PROVE  LET l == Item(h, loop, i)
             IN IsOwed(l, p, others) /\ IsKnown(l, more) /\ IsFollowed(l, loop, i) /\ IsGenuine(l)
  <2> DEFINE l == Item(h, loop, i)
  <2>1. l \in Mail /\ IsOwed(l, p, replies) /\ IsKnown(l, known) /\ IsFollowed(l, loop, i)
        /\ IsGenuine(l)
    <3>1. l \in Mail
      BY <1>1 DEF Position, Item
    <3> QED BY <1>1, <3>1
  <2>2. l.token \in Token => Has(h, loop, l.token)
    BY DEF Has
  <2> HIDE DEF l
  <2>3. l.token # NoToken => l.token \in Token
    BY <2>1 DEF Mail
  <2>4. IsOwed(l, p, others)
    BY <2>1, <2>2, <2>3 DEF IsOwed
  <2>5. IsKnown(l, more)
    BY <2>1 DEF IsKnown
  <2> QED BY <2>1, <2>4, <2>5 DEF l
<1> QED BY <1>2 DEF BoxIsSound

-----------------------------------------------------------------------------
(* Bindings.                                                               *)

LEMMA LeastNumber ==
  ASSUME NEW S, S \subseteq Nat, S # {}
  PROVE  Min(S) \in S
<1> DEFINE R == OpToRel(<, Nat)
<1>1. \A x, y \in Nat : y < x => <<y, x>> \in R
  BY Zenon DEF OpToRel
<1>2. \E x \in S : \A y \in S : ~ (<<y, x>> \in R)
  BY NatLessThanWellFounded, WFMin
<1> HIDE DEF R
<1>3. PICK x \in S : \A y \in S : ~ (<<y, x>> \in R)
  BY <1>2
<1>4. \A y \in S : ~ (y < x)
  BY <1>1, <1>3
<1>5. \A y \in S : x <= y
  BY <1>4
<1> QED BY <1>5, Zenon DEF Min

LEMMA SlotFound ==
  ASSUME TablesTyped, NEW a, NEW b, Bindings(a, b) # {}
  PROVE  Min(Bindings(a, b)) \in Bindings(a, b) /\ Bindings(a, b) \subseteq Slot
<1>1. Bindings(a, b) \subseteq Slot
  BY DEF TablesTyped, Bindings
<1>2. Slot \subseteq Nat
  BY IpcAssumption DEF Slot
<1> QED BY <1>1, <1>2, LeastNumber

\* A binding goes only when it is dismissed.
LEMMA ReboundKeeps ==
  ASSUME TablesTyped, NEW peer \in Proc, NEW p \in Proc, NEW bd, bd.flag \in Flag,
         bindings' = Rebound(peer, p, bd), UNCHANGED ipcListenerRegister
  PROVE  /\ bindings' = [i \in Slot |-> bindings'[i]]
         /\ \A a, b \in Proc : Bindings(a, b) # {} /\ ~(a = peer /\ b = p /\ Dismisses(peer, p, bd))
              => Bindings(a, b)' # {}
         /\ bd.flag = "BIND" /\ Rebinds(peer, p, bd) => Bindings(peer, p)' # {}
         /\ \A r \in Proc : r # p \/ ~Dismisses(peer, p, bd) => Knows(r) \subseteq Knows(r)'
         /\ Knows(p) \ {peer} \subseteq Knows(p)'
<1>0. bindings = [i \in Slot |-> bindings[i]]
  BY DEF TablesTyped
<1> DEFINE Lost == Dismisses(peer, p, bd)
<1>1. /\ bindings' = [i \in Slot |-> bindings'[i]]
      /\ \A a, b \in Proc : Bindings(a, b) # {} /\ ~(a = peer /\ b = p /\ Lost)
           => Bindings(a, b)' # {}
      /\ bd.flag = "BIND" /\ Rebinds(peer, p, bd) => Bindings(peer, p)' # {}
  <2>1. CASE ~Rebinds(peer, p, bd) \/ bd.flag = "NONE"
    <3>1. bindings' = bindings
      BY <2>1 DEF Rebound
    <3> QED BY <1>0, <2>1, <3>1 DEF Bindings
  <2>2. CASE Rebinds(peer, p, bd) /\ bd.flag # "NONE"
    <3> DEFINE new == [sender |-> peer, receiver |-> p, permissions |-> bd.permissions]
               from == IF bd.flag = "BIND" THEN NONE ELSE peer
               to == IF bd.flag = "BIND" THEN NONE ELSE p
               k == Min(Bindings(from, to))
               v == IF bd.flag = "UNBIND" THEN NoBinding ELSE new
    <3>1. Bindings(from, to) # {}
      BY <2>2 DEF Rebinds, Flag
    <3>2. bindings' = [bindings EXCEPT ![k] = v]
      BY <2>2 DEF Rebound, Flag
    <3>3. k \in Bindings(from, to) /\ k \in Slot
      BY <3>1, SlotFound
    <3> HIDE DEF k
    <3>4. bindings'[k] = v /\ (\A i \in Slot : i # k => bindings'[i] = bindings[i])
          /\ DOMAIN bindings' = Slot /\ DOMAIN bindings = Slot
      BY <1>0, <3>2, <3>3
    <3>5. bindings[k].sender = from /\ bindings[k].receiver = to
      BY <3>3 DEF Bindings
    <3>6. bd.flag # "UNBIND" => v.sender = peer /\ v.receiver = p
      OBVIOUS
    <3>7. bd.flag = "UNBIND" => Lost
      BY <2>2 DEF Dismisses
    <3>8. bindings' = [i \in Slot |-> bindings'[i]]
      BY <1>0, <3>2
    <3> HIDE DEF v
    <3>9. ASSUME NEW a \in Proc, NEW b \in Proc, Bindings(a, b) # {}, ~(a = peer /\ b = p /\ Lost)
          PROVE  Bindings(a, b)' # {}
      <4>1. PICK i \in Slot : bindings[i].sender = a /\ bindings[i].receiver = b
        BY <3>4, <3>9 DEF Bindings
      <4>2. CASE i # k
        BY <3>4, <4>1, <4>2 DEF Bindings
      <4>3. CASE i = k
        <5>1. a = from /\ b = to
          BY <3>5, <4>1, <4>3
        <5>2. from = peer /\ to = p
          BY <5>1, ProcNumbers
        <5>3. bd.flag # "UNBIND"
          BY <3>7, <3>9, <5>1, <5>2
        <5> QED BY <3>3, <3>4, <3>6, <5>1, <5>2, <5>3 DEF Bindings
      <4> QED BY <4>2, <4>3
    <3>10. bd.flag = "BIND" => Bindings(peer, p)' # {}
      BY <3>3, <3>4, <3>6 DEF Bindings
    <3> QED BY <3>8, <3>9, <3>10
  <2> QED BY <2>1, <2>2
<1> HIDE DEF Lost
<1>2. \A r \in Proc : Notifiable(r)' <=> Notifiable(r)
  BY DEF Notifiable, ListenersForPath
<1>3. \A r \in Proc : r # p \/ ~Lost => Knows(r) \subseteq Knows(r)'
  BY <1>1, <1>2 DEF Knows
<1>4. Knows(p) \ {peer} \subseteq Knows(p)'
  BY <1>1, <1>2 DEF Knows
<1> QED BY <1>1, <1>3, <1>4 DEF Lost

\* Notices stay where they are.
Announces(loop, q) == \E i \in 1 .. Len(loop) : loop[i] = Notice(q)

LEMMA AnnouncesKept ==
  ASSUME NEW loop \in Seq(Mail), NEW q \in Proc, Announces(loop, q)
  PROVE  /\ \A m \in Mail : Announces(Append(loop, m), q)
         /\ \A r, fate : fate \in {"gone", "dismissed"} => Announces(SealedLoop(loop, r, fate), q)
         /\ \A more \in Seq(Mail) : Announces(loop \o more, q)
         /\ loop # <<>> /\ Head(loop) # Notice(q) => Announces(Tail(loop), q)
<1>1. PICK i \in 1 .. Len(loop) : loop[i] = Notice(q)
  BY DEF Announces
<1>2. ASSUME NEW m \in Mail PROVE Announces(Append(loop, m), q)
  <2>1. i \in 1 .. Len(Append(loop, m)) /\ Append(loop, m)[i] = loop[i]
    OBVIOUS
  <2> QED BY <1>1, <2>1 DEF Announces
<1>3. ASSUME NEW r, NEW fate \in {"gone", "dismissed"} PROVE Announces(SealedLoop(loop, r, fate), q)
  <2>1. i \in 1 .. Len(SealedLoop(loop, r, fate))
        /\ SealedLoop(loop, r, fate)[i] = Sealed(loop[i], r, fate)
    BY SealedSequence
  <2>2. loop[i] \in Mail /\ ~loop[i].bound
    BY <1>1, NoticeIsMail
  <2>3. Sealed(loop[i], r, fate) = loop[i]
    BY <2>2, SealedIsMail
  <2> QED BY <1>1, <2>1, <2>3 DEF Announces
<1>4. ASSUME NEW more \in Seq(Mail) PROVE Announces(loop \o more, q)
  <2>1. i \in 1 .. Len(loop \o more) /\ (loop \o more)[i] = loop[i]
    OBVIOUS
  <2> QED BY <1>1, <2>1 DEF Announces
<1>5. ASSUME loop # <<>>, Head(loop) # Notice(q) PROVE Announces(Tail(loop), q)
  <2>1. i # 1
    BY <1>1, <1>5
  <2>2. i - 1 \in 1 .. Len(Tail(loop)) /\ Tail(loop)[i - 1] = loop[i]
    BY <1>5, <2>1
  <2> QED BY <1>1, <2>2 DEF Announces
<1> QED BY <1>2, <1>3, <1>4, <1>5

\* What a change of a binding does to the boxes: H is what the processes have in
\* hand, and L their run loops.
HandOf(H, peer, p, bd) ==
  IF Dismisses(peer, p, bd) THEN [H EXCEPT ![p] = Sealed(@, peer, "dismissed")] ELSE H
AreBoxes(H, L) == H = [r \in Proc |-> H[r]] /\ L = [r \in Proc |-> L[r]]
AreSound(H, L, replies) == \A r \in Proc : BoxIsSound(H[r], L[r], r, replies, Knows(r))

LEMMA BoxesRebind ==
  ASSUME TablesTyped, NEW peer \in Proc, NEW p \in Proc, NEW bd, bd.flag \in Flag,
         bindings' = Rebound(peer, p, bd), UNCHANGED ipcListenerRegister,
         NEW H, NEW L, NEW replies, AreBoxes(H, L), AreSound(H, L, replies)
  PROVE  LET H2 == HandOf(H, peer, p, bd)
             L2 == BoxesRebound(L, peer, p, bd)
         IN /\ AreBoxes(H2, L2)
            /\ \A r \in Proc :
                 /\ BoxIsSound(H2[r], L2[r], r, replies, Knows(r)')
                 /\ \A t \in Token : Has(H[r], L[r], t) => Has(H2[r], L2[r], t)
                 /\ \A q \in Proc : Announces(L[r], q) => Announces(L2[r], q)
                 /\ L[r] = <<>> /\ ~Notifiable(r) => L2[r] = <<>>
                 /\ H[r] = Nothing => H2[r] = Nothing
                 /\ H2[r].from = H[r].from /\ H2[r].token = H[r].token
<1> DEFINE H2 == HandOf(H, peer, p, bd)
<1>0. /\ H = [r \in Proc |-> H[r]] /\ L = [r \in Proc |-> L[r]]
      /\ \A r \in Proc : BoxIsSound(H[r], L[r], r, replies, Knows(r))
  BY DEF AreBoxes, AreSound
<1> DEFINE Lost == Dismisses(peer, p, bd)
<1>1. /\ \A r \in Proc : r # p \/ ~Lost => Knows(r) \subseteq Knows(r)'
      /\ Knows(p) \ {peer} \subseteq Knows(p)'
  BY ReboundKeeps
<1>2. \A r \in Proc : H[r] \in Mail /\ L[r] \in Seq(Mail)
  BY <1>0 DEF BoxIsSound
<1>3. CASE ~Lost
  <2>1. H2 = H /\ BoxesRebound(L, peer, p, bd) = L
    BY <1>3 DEF BoxesRebound, HandOf
  <2>2. \A r \in Proc : BoxIsSound(H[r], L[r], r, replies, Knows(r)')
    BY <1>0, <1>1, <1>3, BoxKept
  <2> QED BY <2>1, <2>2
<1>4. CASE Lost
  <2> DEFINE S == [L EXCEPT ![p] = SealedLoop(L[p], peer, "dismissed")]
             N == [S EXCEPT ![peer] = Append(@, Notice(p))]
             B == BoxesRebound(L, peer, p, bd)
  <2>1. B = IF Notifiable(peer) THEN N ELSE S
    BY <1>4 DEF BoxesRebound, SealedLoop
  <2>2. H2 = [H EXCEPT ![p] = Sealed(@, peer, "dismissed")]
    BY <1>4 DEF HandOf
  <2> HIDE DEF B, H2
  <2>3. /\ H2 = [r \in Proc |-> H2[r]] /\ H2[p] = Sealed(H[p], peer, "dismissed")
        /\ \A r \in Proc : r # p => H2[r] = H[r]
    BY <1>0, <2>2
  <2>4. /\ S = [r \in Proc |-> S[r]] /\ S[p] = SealedLoop(L[p], peer, "dismissed")
        /\ \A r \in Proc : r # p => S[r] = L[r]
    BY <1>0
  <2> HIDE DEF S
  <2>5. ASSUME NEW r \in Proc
        PROVE  /\ BoxIsSound(H2[r], S[r], r, replies, Knows(r)')
               /\ \A t \in Token : Has(H[r], L[r], t) => Has(H2[r], S[r], t)
               /\ \A q \in Proc : Announces(L[r], q) => Announces(S[r], q)
               /\ L[r] = <<>> => S[r] = <<>>
               /\ H[r] = Nothing => H2[r] = Nothing
               /\ H2[r].from = H[r].from /\ H2[r].token = H[r].token
    <3>1. CASE r # p
      <4>1. H2[r] = H[r] /\ S[r] = L[r]
        BY <2>3, <2>4, <3>1
      <4>2. BoxIsSound(H[r], L[r], r, replies, Knows(r)')
        BY <1>0, <1>1, <3>1, BoxKept
      <4> QED BY <4>1, <4>2
    <3>2. CASE r = p
      <4> DEFINE g == Sealed(H[p], peer, "dismissed")
                 s == SealedLoop(L[p], peer, "dismissed")
      <4>1. /\ BoxIsSound(g, s \o <<>>, p, replies, Knows(p) \ {peer})
            /\ \A t \in Token : Has(H[p], L[p], t) => Has(g, s \o <<>>, t)
        <5>1. <<>> \in Seq(Mail) /\ \A k \in 1 .. Len(<<>>) : <<>>[k] = Notice(peer)
          OBVIOUS
        <5>2. BoxIsSound(H[p], L[p], p, replies, Knows(p)) /\ "dismissed" \in {"gone", "dismissed"}
              /\ "dismissed" # "gone"
          BY <1>0
        <5> HIDE DEF g, s
        <5> QED BY <5>1, <5>2, BoxSealed DEF g, s
      <4>2. s \in Seq(Mail) /\ Len(s) = Len(L[p])
        BY <1>2, SealedSequence
      <4>3. s \o <<>> = s /\ (L[p] = <<>> => s = <<>>)
        <5> HIDE DEF s
        <5> QED BY <1>2, <4>2
      <4>4. /\ BoxIsSound(g, s, p, replies, Knows(p) \ {peer})
            /\ \A t \in Token : Has(H[p], L[p], t) => Has(g, s, t)
        <5> HIDE DEF g, s
        <5> QED BY <4>1, <4>3
      <4>5. \A q \in Proc : Announces(L[p], q) => Announces(s, q)
        BY <1>2, AnnouncesKept
      <4>6. g.from = H[p].from /\ g.token = H[p].token /\ (~H[p].bound => g = H[p])
        BY <1>2, SealedIsMail
      <4>7. H2[r] = g /\ S[r] = s
        BY <2>3, <2>4, <3>2
      <4> HIDE DEF g, s
      <4>8. BoxIsSound(g, s, p, replies, Knows(p)')
        BY <1>1, <4>4, BoxKept
      <4>9. H[p] = Nothing => g = Nothing
        BY <4>6, NothingIsMail
      <4> QED BY <3>2, <4>3, <4>4, <4>5, <4>6, <4>7, <4>8, <4>9
    <3> QED BY <3>1, <3>2
  <2>6. CASE ~Notifiable(peer)
    <3>1. B = S
      BY <2>1, <2>6
    <3> QED BY <2>3, <2>4, <2>5, <3>1 DEF B, H2, AreBoxes
  <2>7. CASE Notifiable(peer)
    <3>1. B = N
      BY <2>1, <2>7
    <3>2. /\ B = [r \in Proc |-> B[r]] /\ B[peer] = Append(S[peer], Notice(p))
          /\ \A r \in Proc : r # peer => B[r] = S[r]
      BY <2>4, <3>1
    <3> HIDE DEF N
    <3>3. ASSUME NEW r \in Proc
          PROVE  /\ BoxIsSound(H2[r], B[r], r, replies, Knows(r)')
                 /\ \A t \in Token : Has(H2[r], S[r], t) => Has(H2[r], B[r], t)
                 /\ \A q \in Proc : Announces(S[r], q) => Announces(B[r], q)
                 /\ r = peer \/ B[r] = S[r]
      <4>1. CASE r # peer
        BY <2>5, <3>2, <4>1
      <4>2. CASE r = peer
        <5> DEFINE m == Notice(p)
        <5>1. m \in Mail /\ m.fate = "living" /\ m.token = NoToken /\ ~m.bound
              /\ m.path = SessionDestroyed /\ m.data = p
          BY NoticeIsMail
        <5>2. IsOwed(m, r, replies) /\ IsKnown(m, Knows(r)') /\ IsGenuine(m)
          BY <5>1 DEF IsOwed, IsKnown, IsGenuine
        <5>3. m.token \notin Token
          BY <5>1, ProcNumbers
        <5> HIDE DEF m
        <5>4. BoxIsSound(H2[r], S[r], r, replies, Knows(r)') /\ S[r] \in Seq(Mail)
          BY <2>5 DEF BoxIsSound
        <5>5. /\ BoxIsSound(H2[r], Append(S[r], m), r, replies, Knows(r)')
              /\ \A t \in Token : Has(H2[r], S[r], t) => Has(H2[r], Append(S[r], m), t)
          BY <5>1, <5>2, <5>3, <5>4, BoxAdded
        <5>6. \A q \in Proc : Announces(S[r], q) => Announces(Append(S[r], m), q)
          BY <5>1, <5>4, AnnouncesKept
        <5> QED BY <3>2, <4>2, <5>5, <5>6 DEF m
      <4> QED BY <4>1, <4>2
    <3>4. \A r \in Proc : ~Notifiable(r) => r # peer
      BY <2>7
    <3> QED BY <2>3, <2>5, <3>2, <3>3, <3>4 DEF B, H2, AreBoxes
  <2> QED BY <2>6, <2>7
<1> QED BY <1>3, <1>4

-----------------------------------------------------------------------------
(* The system calls, one by one: they keep the tables sound, and most of    *)
(* them leave the manager what it has.                                      *)

Undisturbed ==
  /\ hand'[Manager].from = hand[Manager].from /\ hand'[Manager].token = hand[Manager].token
  /\ \A q \in Proc : Announces(runLoop[Manager], q) => Announces(runLoop'[Manager], q)
  /\ \A q \in Proc : Bindings(q, Manager) # {} => Bindings(q, Manager)' # {}
  /\ alive \subseteq alive'
  /\ receivesKernelNotifications(Manager) => receivesKernelNotifications(Manager)'

\* Nothing but the boxes changes, and no query is lost.
LEMMA BoxesMoved ==
  ASSUME IpcInv, UNCHANGED <<alive, ipcListenerRegister, ipcReplyRegister, bindings, waiting>>,
         hand' = [p \in Proc |-> hand'[p]], runLoop' = [p \in Proc |-> runLoop'[p]],
         \A p \in Proc :
           /\ BoxIsSound(hand'[p], runLoop'[p], p, ipcReplyRegister, Knows(p))
           /\ \A t \in Token : Has(hand[p], runLoop[p], t) => Has(hand'[p], runLoop'[p], t),
         \A p \in Proc \ alive : hand'[p] = hand[p] /\ runLoop'[p] = runLoop[p]
  PROVE  IpcInv'
<1>1. TablesTyped'
  BY DEF IpcInv, TablesTyped
<1>2. \A i \in 0 .. MAX_IPC_LISTENER - 1 : ListenerIsSound(i)'
  BY DEF IpcInv, ListenerIsSound, receivesKernelNotifications
<1>3. \A t \in Token : ReplyIsSound(t)'
  <2> SUFFICES ASSUME NEW t \in Token PROVE ReplyIsSound(t)'
    OBVIOUS
  <2>1. ReplyIsSound(t) /\ alive \subseteq Proc
    BY DEF IpcInv, TablesTyped
  <2> QED BY <2>1 DEF ReplyIsSound
<1>4. \A p \in Proc : Knows(p)' = Knows(p)
  BY DEF Knows, Bindings, Notifiable, ListenersForPath
<1>5. \A p \in Proc : BoxIsSound(hand[p], runLoop[p], p, ipcReplyRegister, Knows(p))'
  BY <1>4
<1>6. \A p \in waiting' : \E t \in Token : ipcReplyRegister'[t].senderProcId = p
  BY DEF IpcInv
<1>7. \A p \in Proc \ alive' : hand'[p] = Nothing /\ runLoop'[p] = <<>>
  BY DEF IpcInv
<1> QED BY <1>1, <1>2, <1>3, <1>5, <1>6, <1>7 DEF IpcInv

LEMMA StutterKeeps ==
  ASSUME IpcInv,
         UNCHANGED <<alive, ipcListenerRegister, ipcReplyRegister, bindings, waiting, runLoop, hand>>
  PROVE  IpcInv' /\ Undisturbed
<1>1. IpcInv'
  <2>1. hand' = [p \in Proc |-> hand'[p]] /\ runLoop' = [p \in Proc |-> runLoop'[p]]
    BY DEF IpcInv, TablesTyped
  <2>2. \A p \in Proc : BoxIsSound(hand'[p], runLoop'[p], p, ipcReplyRegister, Knows(p))
    BY DEF IpcInv
  <2> QED BY <2>1, <2>2, BoxesMoved
<1>2. Undisturbed
  BY DEF Undisturbed, Bindings, receivesKernelNotifications
<1> QED BY <1>1, <1>2

LEMMA TakeKeeps ==
  ASSUME IpcInv, NEW p \in Proc, Take(p)
  PROVE  /\ IpcInv'
         /\ hand'[p] = Head(runLoop[p]) /\ runLoop'[p] = Tail(runLoop[p]) /\ runLoop[p] # <<>>
         /\ p # Manager => Undisturbed
<1>1. /\ p \in alive /\ hand[p] = Nothing /\ runLoop[p] # <<>>
      /\ hand' = [hand EXCEPT ![p] = Head(runLoop[p])]
      /\ runLoop' = [runLoop EXCEPT ![p] = Tail(@)]
      /\ UNCHANGED <<alive, ipcListenerRegister, ipcReplyRegister, bindings, waiting, oops>>
  BY DEF Take, Runs
<1>2. hand = [q \in Proc |-> hand[q]] /\ runLoop = [q \in Proc |-> runLoop[q]]
  BY DEF IpcInv, TablesTyped
<1>3. /\ hand' = [q \in Proc |-> hand'[q]] /\ runLoop' = [q \in Proc |-> runLoop'[q]]
      /\ hand'[p] = Head(runLoop[p]) /\ runLoop'[p] = Tail(runLoop[p])
      /\ \A q \in Proc : q # p => hand'[q] = hand[q] /\ runLoop'[q] = runLoop[q]
  BY <1>1, <1>2
<1>4. \A q \in Proc : BoxIsSound(hand[q], runLoop[q], q, ipcReplyRegister, Knows(q))
  BY DEF IpcInv
<1>5. ASSUME NEW q \in Proc
      PROVE  /\ BoxIsSound(hand'[q], runLoop'[q], q, ipcReplyRegister, Knows(q))
             /\ \A t \in Token : Has(hand[q], runLoop[q], t) => Has(hand'[q], runLoop'[q], t)
  <2>1. CASE q = p
    <3>1. BoxIsSound(Nothing, runLoop[p], p, ipcReplyRegister, Knows(p))
      BY <1>1, <1>4
    <3>2. /\ BoxIsSound(Head(runLoop[p]), Tail(runLoop[p]), p, ipcReplyRegister, Knows(p))
          /\ \A t \in Token : Has(Nothing, runLoop[p], t) => Has(Head(runLoop[p]), Tail(runLoop[p]), t)
      BY <1>1, <3>1, BoxTaken
    <3> QED BY <1>1, <1>3, <2>1, <3>2
  <2>2. CASE q # p
    BY <1>3, <1>4, <2>2
  <2> QED BY <2>1, <2>2
<1>6. IpcInv'
  BY <1>1, <1>3, <1>5, BoxesMoved
<1>7. p # Manager => Undisturbed
  BY <1>1, <1>3, ProcNumbers DEF Undisturbed, Bindings, receivesKernelNotifications
<1> QED BY <1>1, <1>3, <1>6, <1>7

LEMMA ReturnKeeps ==
  ASSUME IpcInv, NEW p \in Proc, Return(p)
  PROVE  /\ IpcInv' /\ runLoop' = runLoop /\ UNCHANGED <<alive, bindings, ipcListenerRegister, oops>>
         /\ p # Manager => Undisturbed
<1>1. /\ p \in alive /\ hand[p].token = NoToken
      /\ hand' = [hand EXCEPT ![p] = Nothing] /\ runLoop' = runLoop
      /\ UNCHANGED <<alive, ipcListenerRegister, ipcReplyRegister, bindings, waiting, oops>>
  BY DEF Return, Runs
<1>2. hand = [q \in Proc |-> hand[q]] /\ runLoop = [q \in Proc |-> runLoop[q]]
  BY DEF IpcInv, TablesTyped
<1>3. /\ hand' = [q \in Proc |-> hand'[q]] /\ runLoop' = [q \in Proc |-> runLoop'[q]]
      /\ hand'[p] = Nothing /\ \A q \in Proc : q # p => hand'[q] = hand[q]
  BY <1>1, <1>2
<1>4. \A q \in Proc : BoxIsSound(hand[q], runLoop[q], q, ipcReplyRegister, Knows(q))
  BY DEF IpcInv
<1>5. ASSUME NEW q \in Proc
      PROVE  /\ BoxIsSound(hand'[q], runLoop'[q], q, ipcReplyRegister, Knows(q))
             /\ \A t \in Token : Has(hand[q], runLoop[q], t) => Has(hand'[q], runLoop'[q], t)
  <2>1. CASE q = p
    <3>1. /\ BoxIsSound(Nothing, runLoop[p], p, ipcReplyRegister, Knows(p))
          /\ \A t \in Token : Has(hand[p], runLoop[p], t) /\ t # hand[p].token
               => Has(Nothing, runLoop[p], t)
      BY <1>4, BoxDropped
    <3>2. \A t \in Token : t # hand[p].token
      BY <1>1, ProcNumbers
    <3> QED BY <1>1, <1>3, <2>1, <3>1, <3>2
  <2>2. CASE q # p
    BY <1>1, <1>3, <1>4, <2>2
  <2> QED BY <2>1, <2>2
<1>6. IpcInv'
  BY <1>1, <1>3, <1>5, BoxesMoved
<1>7. p # Manager => Undisturbed
  BY <1>1, <1>3, ProcNumbers DEF Undisturbed, Bindings, receivesKernelNotifications
<1> QED BY <1>1, <1>6, <1>7

LEMMA StartKeeps ==
  ASSUME IpcInv, NEW p \in Proc, Start(p)
  PROVE  IpcInv' /\ Undisturbed
<1>1. /\ alive' = alive \cup {p}
      /\ UNCHANGED <<ipcListenerRegister, ipcReplyRegister, bindings, waiting, runLoop, hand, oops>>
  BY DEF Start
<1>2. TablesTyped'
  BY <1>1 DEF IpcInv, TablesTyped
<1>3. ASSUME NEW i \in 0 .. MAX_IPC_LISTENER - 1 PROVE ListenerIsSound(i)'
  <2>1. ListenerIsSound(i)
    BY DEF IpcInv
  <2> QED BY <1>1, <2>1 DEF ListenerIsSound, receivesKernelNotifications
<1>4. ASSUME NEW t \in Token PROVE ReplyIsSound(t)'
  <2>1. ReplyIsSound(t)
    BY DEF IpcInv
  <2> QED BY <1>1, <2>1 DEF ReplyIsSound
<1>5. \A q \in Proc : Knows(q)' = Knows(q)
  BY <1>1 DEF Knows, Bindings, Notifiable, ListenersForPath
<1>6. \A q \in Proc : BoxIsSound(hand[q], runLoop[q], q, ipcReplyRegister, Knows(q))'
  BY <1>1, <1>5 DEF IpcInv
<1>7. /\ \A q \in waiting' : \E t \in Token : ipcReplyRegister'[t].senderProcId = q
      /\ \A q \in Proc \ alive' : hand'[q] = Nothing /\ runLoop'[q] = <<>>
  BY <1>1 DEF IpcInv
<1>8. Undisturbed
  BY <1>1 DEF Undisturbed, Bindings, receivesKernelNotifications
<1> QED BY <1>2, <1>3, <1>4, <1>6, <1>7, <1>8 DEF IpcInv

LEMMA ListenerNumbers == 0 .. MAX_IPC_LISTENER - 1 \subseteq Nat
  BY IpcAssumption

LEMMA NotifiableIfTold ==
  ASSUME NEW p \in Proc, receivesKernelNotifications(p)
  PROVE  Notifiable(p)
<1>1. IsPrefix(SessionDestroyed, SessionDestroyed)
  BY PathOfKernel DEF IsPrefix
<1> QED BY <1>1 DEF Notifiable, receivesKernelNotifications, ListenersForPath

\* Who is notified is alive.
LEMMA NotifiableIsAlive == ASSUME IpcInv, NEW p \in Proc, Notifiable(p) PROVE p \in alive
<1>1. PICK i \in 0 .. MAX_IPC_LISTENER - 1 : ipcListenerRegister[i].procId = p
  BY DEF Notifiable, ListenersForPath, IpcInv, TablesTyped
<1>2. ListenerIsSound(i)
  BY DEF IpcInv
<1>3. NoListener.procId = NONE
  BY DEF NoListener
<1> QED BY <1>1, <1>2, <1>3, ProcNumbers DEF ListenerIsSound

LEMMA RegisterKeeps ==
  ASSUME IpcInv, NEW p \in Proc, NEW path \in Path, NEW required \in BOOLEAN, NEW mask,
         k_scr_usr_ipcRegister(p, path, required, mask)
  PROVE  /\ IpcInv' /\ Undisturbed
         /\ oops' \/ \E i \in DOMAIN ipcListenerRegister' :
              ipcListenerRegister'[i].procId = p /\ ipcListenerRegister'[i].path = path
         /\ ~oops
<1> DEFINE free == {i \in DOMAIN ipcListenerRegister : ipcListenerRegister[i].procId = NONE}
           k == Min(free)
           new == [procId |-> p, path |-> path, bindingRequired |-> required, permissionMask |-> mask]
           N == 0 .. MAX_IPC_LISTENER - 1
<1>1. /\ p \in alive /\ ~oops
      /\ UNCHANGED <<alive, ipcReplyRegister, bindings, waiting, runLoop, hand>>
      /\ Registrable(p, path, required, mask)
      /\ IF free = {} THEN oops' = TRUE /\ UNCHANGED ipcListenerRegister
         ELSE ipcListenerRegister' = [ipcListenerRegister EXCEPT ![k] = new] /\ UNCHANGED oops
  BY DEF k_scr_usr_ipcRegister, k_ipc_register, Runs
<1>2. CASE free = {}
  BY <1>1, <1>2, StutterKeeps
<1>3. CASE free # {}
  <2>1. ipcListenerRegister = [i \in N |-> ipcListenerRegister[i]]
    BY DEF IpcInv, TablesTyped
  <2>2. k \in free
    <3>1. free \subseteq N
      BY <2>1
    <3> HIDE DEF free
    <3> QED BY <1>3, <3>1, ListenerNumbers, LeastNumber
  <2>3. k \in N /\ ipcListenerRegister[k].procId = NONE
    BY <2>1, <2>2
  <2> HIDE DEF k
  <2>4. /\ ipcListenerRegister' = [i \in N |-> ipcListenerRegister'[i]]
        /\ ipcListenerRegister'[k] = new
        /\ \A i \in N : i # k => ipcListenerRegister'[i] = ipcListenerRegister[i]
        /\ DOMAIN ipcListenerRegister' = N /\ DOMAIN ipcListenerRegister = N
    BY <1>1, <1>3, <2>1, <2>3
  <2>5. new.procId = p /\ new.path = path /\ new.bindingRequired = required
    OBVIOUS
  <2> HIDE DEF new, N, free
  <2>6. \A r \in Proc : receivesKernelNotifications(r) => receivesKernelNotifications(r)'
    BY <2>3, <2>4, ProcNumbers DEF receivesKernelNotifications
  <2>7. \A r \in Proc : Notifiable(r) => Notifiable(r)'
    BY <2>3, <2>4, ProcNumbers DEF Notifiable, ListenersForPath
  <2>8. \A r \in Proc : Knows(r) \subseteq Knows(r)'
    BY <1>1, <2>7 DEF Knows, Bindings
  <2>9. ASSUME NEW i \in N PROVE ListenerIsSound(i)'
    <3>1. ListenerIsSound(i) /\ alive \subseteq Proc
      BY DEF IpcInv, TablesTyped, N
    <3>2. CASE i # k
      <4>1. ipcListenerRegister'[i] = ipcListenerRegister[i]
        BY <2>4, <3>2
      <4> QED BY <1>1, <2>6, <3>1, <4>1 DEF ListenerIsSound
    <3>3. CASE i = k
      <4>1. required => receivesKernelNotifications(p)
        BY <1>1 DEF Registrable
      <4> QED BY <1>1, <2>4, <2>5, <2>6, <3>3, <4>1 DEF ListenerIsSound
    <3> QED BY <3>2, <3>3
  <2>10. TablesTyped'
    BY <1>1, <2>4 DEF IpcInv, TablesTyped, N
  <2>11. ASSUME NEW t \in Token PROVE ReplyIsSound(t)'
    <3>1. ReplyIsSound(t)
      BY DEF IpcInv
    <3> QED BY <1>1, <3>1 DEF ReplyIsSound
  <2>12. \A r \in Proc : BoxIsSound(hand[r], runLoop[r], r, ipcReplyRegister, Knows(r))'
    <3>1. \A r \in Proc : BoxIsSound(hand[r], runLoop[r], r, ipcReplyRegister, Knows(r))
      BY DEF IpcInv
    <3>2. \A r \in Proc : BoxIsSound(hand[r], runLoop[r], r, ipcReplyRegister, Knows(r)')
      BY <2>8, <3>1, BoxKept
    <3> QED BY <1>1, <3>2
  <2>13. /\ \A r \in waiting' : \E t \in Token : ipcReplyRegister'[t].senderProcId = r
         /\ \A r \in Proc \ alive' : hand'[r] = Nothing /\ runLoop'[r] = <<>>
    BY <1>1 DEF IpcInv
  <2>14. IpcInv'
    BY <2>9, <2>10, <2>11, <2>12, <2>13 DEF IpcInv, N
  <2>15. Undisturbed
    BY <1>1, <2>6, ProcNumbers DEF Undisturbed, Bindings
  <2> QED BY <1>1, <2>3, <2>4, <2>5, <2>14, <2>15
<1> QED BY <1>2, <1>3

\* A token that is free is in no box.
LEMMA FreeTokenIsFresh ==
  ASSUME IpcInv, NEW t \in Token, ipcReplyRegister[t].senderProcId = NONE
  PROVE  ipcReplyRegister[t] = NoReply /\ \A r \in Proc : ~Has(hand[r], runLoop[r], t)
<1>1. ipcReplyRegister[t] = NoReply
  <2>1. ReplyIsSound(t) /\ waiting \subseteq Proc
    BY DEF IpcInv, TablesTyped
  <2> QED BY <2>1, ProcNumbers DEF ReplyIsSound
<1>2. ASSUME NEW r \in Proc, Has(hand[r], runLoop[r], t) PROVE FALSE
  <2>1. PICK i \in Position(runLoop[r]) : Item(hand[r], runLoop[r], i).token = t
    BY <1>2 DEF Has
  <2>2. IsOwed(Item(hand[r], runLoop[r], i), r, ipcReplyRegister)
    BY DEF IpcInv, BoxIsSound
  <2>3. ipcReplyRegister[t].handlerProcId = r
    BY <2>1, <2>2, ProcNumbers DEF IsOwed
  <2> QED BY <1>1, <2>3, ProcNumbers DEF NoReply
<1> QED BY <1>1, <1>2

\* Whoever does not wait is owed nothing.
LEMMA OwedWaits ==
  ASSUME IpcInv, NEW t \in Token
  PROVE  /\ ipcReplyRegister[t].senderProcId = NONE \/ ipcReplyRegister[t].senderProcId \in waiting
         /\ ipcReplyRegister[t] = NoReply <=> ipcReplyRegister[t].senderProcId = NONE
         /\ ipcReplyRegister[t] \in Reply0 /\ waiting \subseteq Proc /\ alive \subseteq Proc
<1>1. ReplyIsSound(t) /\ ipcReplyRegister[t] \in Reply0 /\ waiting \subseteq Proc /\ alive \subseteq Proc
  BY DEF IpcInv, TablesTyped
<1>2. NoReply.senderProcId = NONE
  BY DEF NoReply
<1> QED BY <1>1, <1>2, ProcNumbers DEF ReplyIsSound
LEMMA QueryIsMail ==
  ASSUME NEW path \in Path, NEW p \in Proc, NEW token \in Token \cup {NoToken},
         NEW bound \in BOOLEAN, NEW data \in Path
  PROVE  LET m == Message(path, p, token, bound, data)
         IN /\ m \in Mail /\ m.path = path /\ m.from = p /\ m.token = token /\ m.bound = bound
            /\ m.fate = "living"
<1> DEFINE P == Path
<1>1. path \in P /\ data \in P
  OBVIOUS
<1> HIDE DEF P
<1>2. [path |-> path, from |-> p, token |-> token, bound |-> bound, data |-> data,
       fate |-> "living"]
        \in [path : P, from : Proc \cup {KERNEL, NONE}, token : Token \cup {NoToken},
             bound : BOOLEAN, data : P \cup Proc, fate : {"living", "gone", "dismissed"}]
  BY <1>1
<1>3. Message(path, p, token, bound, data) \in Mail
  BY <1>2 DEF Message, Mail, P
<1> QED BY <1>3 DEF Message

\* Who hears a query is alive, and is told of the end of its sender if it has to know.
LEMMA ListenerHears ==
  ASSUME IpcInv, NEW q, q.path \in Path, q.path # <<>>, Heard(q) # {}
  PROVE  LET l == ipcListenerRegister[Min(Heard(q))]
         IN /\ l.procId \in alive /\ l.path \in Path /\ l.path # SessionDestroyed
            /\ l.bindingRequired \in BOOLEAN
            /\ l.bindingRequired => Notifiable(l.procId)
<1> DEFINE k == Min(Heard(q))
           l == ipcListenerRegister[k]
<1>1. Heard(q) \subseteq 0 .. MAX_IPC_LISTENER - 1
  BY DEF Heard, ListenersForPath, IpcInv, TablesTyped
<1>2. k \in Heard(q)
  BY <1>1, ListenerNumbers, LeastNumber
<1> HIDE DEF k
<1>3. /\ k \in 0 .. MAX_IPC_LISTENER - 1 /\ IsPrefix(q.path, l.path)
      /\ pathGlobalValidate(q.path) \/ pathDirectValidate(q.path)
  BY <1>1, <1>2, Zenon DEF Heard, ListenersForPath
<1>4. l # NoListener
  <2> SUFFICES ASSUME l = NoListener PROVE FALSE
    OBVIOUS
  <2>1. IsPrefix(q.path, <<>>)
    BY <1>3 DEF NoListener
  <2>2. q.path = <<>>
    <3> DEFINE S == AlphaNumeric \cup {"/", ":", "_"}
    <3>1. q.path \in Seq(S)
      BY Zenon DEF Path
    <3> HIDE DEF S
    <3> QED BY <2>1, <3>1 DEF IsPrefix
  <2> QED BY <2>2
<1>5. ListenerIsSound(k) /\ alive \subseteq Proc
  BY <1>3 DEF IpcInv, TablesTyped
<1>6. /\ l.procId \in alive /\ l.path \in Path /\ l.bindingRequired \in BOOLEAN
      /\ l.bindingRequired => receivesKernelNotifications(l.procId)
  BY <1>4, <1>5 DEF ListenerIsSound
<1>7. l.path # SessionDestroyed
  BY <1>3, <1>6, QueryIsNoNotice, Zenon
<1>8. l.bindingRequired => Notifiable(l.procId)
  BY <1>5, <1>6, NotifiableIfTold
<1> QED BY <1>6, <1>7, <1>8, Zenon DEF k

\* The tables a call leaves that changes no listener and ends no process are sound
\* if its replies are.
LEMMA BindingsMoved ==
  ASSUME IpcInv, NEW peer \in Proc, NEW p \in Proc, NEW bd, bd.flag \in Flag,
         UNCHANGED <<alive, ipcListenerRegister>>,
         bindings' = Rebound(peer, p, bd),
         NEW H, NEW L, AreBoxes(H, L), AreSound(H, L, ipcReplyRegister'),
         runLoop' = BoxesRebound(L, peer, p, bd), hand' = HandOf(H, peer, p, bd),
         ipcReplyRegister' \in [Token -> Reply0],
         \A r \in Proc \ alive : H[r] = Nothing /\ L[r] = <<>>,
         waiting' \subseteq alive,
         \A r \in waiting' : \E t \in Token : ipcReplyRegister'[t].senderProcId = r,
         \A t \in Token : ipcReplyRegister'[t] # NoReply =>
           LET reply == ipcReplyRegister'[t]
           IN /\ reply.senderProcId \in waiting' /\ reply.handlerProcId \in alive
              /\ Has(H[reply.handlerProcId], L[reply.handlerProcId], t)
              /\ \A u \in Token : ipcReplyRegister'[u].senderProcId = reply.senderProcId => u = t
  PROVE  /\ IpcInv'
         /\ \A r \in Proc : hand'[r].from = H[r].from /\ hand'[r].token = H[r].token
         /\ \A r, q \in Proc : Announces(L[r], q) => Announces(runLoop'[r], q)
<1>1. TablesTyped /\ \A i \in 0 .. MAX_IPC_LISTENER - 1 : ListenerIsSound(i)
  BY DEF IpcInv
<1>2. bindings' = [i \in Slot |-> bindings'[i]]
  BY <1>1, ReboundKeeps
<1>3. /\ AreBoxes(hand', runLoop')
      /\ \A r \in Proc :
           /\ BoxIsSound(hand'[r], runLoop'[r], r, ipcReplyRegister', Knows(r)')
           /\ \A t \in Token : Has(H[r], L[r], t) => Has(hand'[r], runLoop'[r], t)
           /\ \A q \in Proc : Announces(L[r], q) => Announces(runLoop'[r], q)
           /\ L[r] = <<>> /\ ~Notifiable(r) => runLoop'[r] = <<>>
           /\ H[r] = Nothing => hand'[r] = Nothing
           /\ hand'[r].from = H[r].from /\ hand'[r].token = H[r].token
  BY <1>1, BoxesRebind
<1>4. TablesTyped'
  BY <1>1, <1>2, <1>3 DEF TablesTyped, AreBoxes
<1>5. \A i \in 0 .. MAX_IPC_LISTENER - 1 : ListenerIsSound(i)'
  BY <1>1 DEF ListenerIsSound, receivesKernelNotifications
<1>6. ASSUME NEW t \in Token PROVE ReplyIsSound(t)'
  <2>1. alive \subseteq Proc
    BY <1>1 DEF TablesTyped
  <2> QED BY <1>3, <2>1 DEF ReplyIsSound
<1>7. ASSUME NEW r \in Proc \ alive' PROVE hand'[r] = Nothing /\ runLoop'[r] = <<>>
  <2>1. ~Notifiable(r)
    BY NotifiableIsAlive
  <2> QED BY <1>3, <2>1
<1>8. \A r \in Proc : BoxIsSound(hand[r], runLoop[r], r, ipcReplyRegister, Knows(r))'
  BY <1>3
<1>9. IpcInv'
  BY <1>4, <1>5, <1>6, <1>7, <1>8 DEF IpcInv
<1> QED BY <1>3, <1>9

LEMMA SendKeeps ==
  ASSUME IpcInv, NEW p \in Proc, NEW q, q.path \in Path, q.bindData.flag \in Flag,
         k_scr_usr_ipcSend(p, q)
  PROVE  IpcInv' /\ (p # Manager => Undisturbed)
<1> DEFINE listener == ipcListenerRegister[Min(Heard(q))]
           h == listener.procId
           bd == q.bindData
           token == IF q.replyBytes = 0 THEN NoToken ELSE Min(FreeTokens)
           m == Message(listener.path, p, token, listener.bindingRequired, q.path)
           L == [runLoop EXCEPT ![h] = Append(@, m)]
<1>1. /\ p \in alive /\ p \notin waiting /\ q.path # <<>> /\ Heard(q) # {} /\ Allowed(p, listener)
      /\ UNCHANGED <<alive, ipcListenerRegister>>
  BY DEF k_scr_usr_ipcSend, k_ipc_send, Runs
<1>2. IF q.replyBytes # 0 /\ FreeTokens = {}
      THEN oops' = TRUE /\ UNCHANGED <<ipcReplyRegister, waiting, bindings, runLoop, hand>>
      ELSE /\ IF q.replyBytes = 0
              THEN UNCHANGED <<ipcReplyRegister, waiting>>
              ELSE /\ ipcReplyRegister' = [ipcReplyRegister EXCEPT ![token] =
                                             [senderProcId |-> p, handlerProcId |-> h]]
                   /\ waiting' = waiting \cup {p}
           /\ bindings' = Rebound(h, p, bd)
           /\ runLoop' = BoxesRebound(L, h, p, bd)
           /\ hand' = HandRebound(h, p, bd)
  BY DEF k_scr_usr_ipcSend, k_ipc_send
<1>3. CASE q.replyBytes # 0 /\ FreeTokens = {}
  BY <1>1, <1>2, <1>3, StutterKeeps
<1>4. CASE q.replyBytes = 0 \/ FreeTokens # {}
  <2>1. /\ h \in alive /\ listener.path \in Path /\ listener.path # SessionDestroyed
        /\ listener.bindingRequired \in BOOLEAN
        /\ listener.bindingRequired => Notifiable(h)
    BY <1>1, ListenerHears
  <2>2. h \in Proc /\ alive \subseteq Proc /\ waiting \subseteq alive /\ TablesTyped
        /\ ipcReplyRegister \in [Token -> Reply0]
        /\ hand = [r \in Proc |-> hand[r]] /\ runLoop = [r \in Proc |-> runLoop[r]]
    BY <2>1 DEF IpcInv, TablesTyped
  <2>3. /\ token \in Token \cup {NoToken}
        /\ token \in Token => q.replyBytes # 0 /\ ipcReplyRegister[token].senderProcId = NONE
        /\ token \notin Token => q.replyBytes = 0
    <3>1. CASE q.replyBytes = 0
      BY <3>1, ProcNumbers
    <3>2. CASE q.replyBytes # 0
      <4>1. Min(FreeTokens) \in FreeTokens
        <5>1. FreeTokens \subseteq Nat /\ FreeTokens # {}
          BY <1>4, <3>2, ProcNumbers DEF FreeTokens
        <5> QED BY <5>1, LeastNumber
      <4> QED BY <3>2, <4>1 DEF FreeTokens
    <3> QED BY <3>1, <3>2
  <2>4. /\ m \in Mail /\ m.path = listener.path /\ m.from = p /\ m.token = token
        /\ m.bound = listener.bindingRequired /\ m.fate = "living"
    BY <2>1, <2>3, QueryIsMail
  <2> DEFINE reply == [senderProcId |-> p, handlerProcId |-> h]
  <2>5. /\ ipcReplyRegister' \in [Token -> Reply0]
        /\ token \in Token => /\ ipcReplyRegister'[token] = reply
                              /\ waiting' = waiting \cup {p}
        /\ \A t \in Token : t # token => ipcReplyRegister'[t] = ipcReplyRegister[t]
        /\ token \notin Token => waiting' = waiting
    BY <1>2, <1>4, <2>2, <2>3 DEF Reply0
  <2> HIDE DEF token, m
  <2>6. \A r \in Proc : BoxIsSound(hand[r], runLoop[r], r, ipcReplyRegister, Knows(r))
    BY DEF IpcInv
  <2>7. token \in Token =>
          ipcReplyRegister[token] = NoReply /\ \A r \in Proc : ~Has(hand[r], runLoop[r], token)
    BY <2>3, FreeTokenIsFresh
  <2>8. \A r \in Proc : BoxIsSound(hand[r], runLoop[r], r, ipcReplyRegister', Knows(r))
    BY <2>5, <2>6, <2>7, BoxKept
  <2>9. IsOwed(m, h, ipcReplyRegister') /\ IsGenuine(m) /\ IsKnown(m, Knows(h))
    <3>1. IsOwed(m, h, ipcReplyRegister')
      BY <2>3, <2>4, <2>5 DEF IsOwed
    <3>2. IsGenuine(m)
      BY <2>1, <2>4 DEF IsGenuine
    <3>3. IsKnown(m, Knows(h))
      BY <1>1, <2>1, <2>4 DEF IsKnown, Allowed, Knows
    <3> QED BY <3>1, <3>2, <3>3
  <2>10. /\ L[h] = Append(runLoop[h], m) /\ (\A r \in Proc : r # h => L[r] = runLoop[r])
         /\ L = [r \in Proc |-> L[r]]
    BY <2>2 DEF m
  <2> HIDE DEF L, reply
  <2>11. \A r \in Proc : hand[r] \in Mail /\ runLoop[r] \in Seq(Mail)
    BY <2>6 DEF BoxIsSound
  <2>12. /\ BoxIsSound(hand[h], L[h], h, ipcReplyRegister', Knows(h))
         /\ \A t \in Token : Has(hand[h], runLoop[h], t) => Has(hand[h], L[h], t)
         /\ Has(hand[h], L[h], token)
         /\ \A s \in Proc : Announces(runLoop[h], s) => Announces(L[h], s)
    <3>1. BoxIsSound(hand[h], runLoop[h], h, ipcReplyRegister', Knows(h))
          /\ (m.token \in Token => ~Has(hand[h], runLoop[h], m.token))
      BY <2>2, <2>4, <2>7, <2>8
    <3>2. /\ BoxIsSound(hand[h], Append(runLoop[h], m), h, ipcReplyRegister', Knows(h))
          /\ \A t \in Token : Has(hand[h], runLoop[h], t) => Has(hand[h], Append(runLoop[h], m), t)
          /\ Has(hand[h], Append(runLoop[h], m), m.token)
      BY <2>4, <2>9, <3>1, BoxAdded
    <3>3. \A s \in Proc : Announces(runLoop[h], s) => Announces(Append(runLoop[h], m), s)
      BY <2>2, <2>4, <2>11, AnnouncesKept
    <3> QED BY <2>4, <2>10, <3>2, <3>3
  <2>13. /\ \A r \in Proc : BoxIsSound(hand[r], L[r], r, ipcReplyRegister', Knows(r))
         /\ \A r \in Proc, t \in Token : Has(hand[r], runLoop[r], t) => Has(hand[r], L[r], t)
         /\ \A r, s \in Proc : Announces(runLoop[r], s) => Announces(L[r], s)
    BY <2>8, <2>10, <2>12
  <2>14. AreBoxes(hand, L) /\ AreSound(hand, L, ipcReplyRegister')
    BY <2>2, <2>10, <2>13 DEF AreBoxes, AreSound
  <2>15. \A r \in Proc \ alive : hand[r] = Nothing /\ L[r] = <<>>
    BY <2>1, <2>10 DEF IpcInv
  <2>16. hand' = HandOf(hand, h, p, bd) /\ bindings' = Rebound(h, p, bd)
         /\ runLoop' = BoxesRebound(L, h, p, bd)
    BY <1>2, <1>4 DEF HandRebound, HandOf
  <2>17. /\ waiting' \subseteq alive
         /\ \A r \in waiting' : \E t \in Token : ipcReplyRegister'[t].senderProcId = r
    <3>1. \A r \in waiting : \E t \in Token : ipcReplyRegister'[t].senderProcId = r
      <4> SUFFICES ASSUME NEW r \in waiting
                   PROVE  \E t \in Token : ipcReplyRegister'[t].senderProcId = r
        OBVIOUS
      <4>1. PICK t \in Token : ipcReplyRegister[t].senderProcId = r
        BY DEF IpcInv
      <4>2. t # token
        BY <2>2, <2>3, <4>1, ProcNumbers
      <4> QED BY <2>5, <4>1, <4>2
    <3>2. token \in Token => ipcReplyRegister'[token].senderProcId = p
      BY <2>5 DEF reply
    <3> QED BY <1>1, <2>2, <2>5, <3>1, <3>2
  <2>18. ASSUME NEW t \in Token, ipcReplyRegister'[t] # NoReply
         PROVE  LET r == ipcReplyRegister'[t]
                IN /\ r.senderProcId \in waiting' /\ r.handlerProcId \in alive
                   /\ Has(hand[r.handlerProcId], L[r.handlerProcId], t)
                   /\ \A u \in Token : ipcReplyRegister'[u].senderProcId = r.senderProcId => u = t
    <3>0. \A u \in Token : ipcReplyRegister[u].senderProcId # p
      BY <1>1, OwedWaits, ProcNumbers
    <3>1. CASE t = token
      <4>1. ipcReplyRegister'[t].senderProcId = p /\ ipcReplyRegister'[t].handlerProcId = h
            /\ p \in waiting'
        BY <2>5, <3>1 DEF reply
      <4>2. \A u \in Token : ipcReplyRegister'[u].senderProcId = p => u = t
        BY <2>5, <3>0, <3>1
      <4> QED BY <2>1, <2>12, <3>1, <4>1, <4>2
    <3>2. CASE t # token
      <4> DEFINE r == ipcReplyRegister[t]
      <4>1. ipcReplyRegister'[t] = r /\ r # NoReply
        BY <2>5, <2>18, <3>2
      <4>2. /\ r.senderProcId \in waiting /\ r.handlerProcId \in alive
            /\ Has(hand[r.handlerProcId], runLoop[r.handlerProcId], t)
            /\ \A u \in Token : ipcReplyRegister[u].senderProcId = r.senderProcId => u = t
        BY <4>1 DEF IpcInv, ReplyIsSound
      <4>3. r.handlerProcId \in Proc /\ r.senderProcId # p
        BY <1>1, <2>2, <4>2
      <4> HIDE DEF r
      <4>4. Has(hand[r.handlerProcId], L[r.handlerProcId], t)
        BY <2>13, <4>2, <4>3
      <4>5. \A u \in Token : ipcReplyRegister'[u].senderProcId = r.senderProcId => u = t
        BY <2>5, <4>2, <4>3 DEF reply
      <4>6. r.senderProcId \in waiting'
        BY <2>5, <4>2
      <4> QED BY <4>1, <4>2, <4>4, <4>5, <4>6
    <3> QED BY <3>1, <3>2
  <2> HIDE DEF listener, bd
  <2>19. /\ IpcInv'
         /\ \A r \in Proc : hand'[r].from = hand[r].from /\ hand'[r].token = hand[r].token
         /\ \A r, s \in Proc : Announces(L[r], s) => Announces(runLoop'[r], s)
    <3>1. bd.flag \in Flag
      BY DEF bd
    <3> HIDE DEF h
    <3> QED BY <1>1, <2>2, <2>5, <2>14, <2>15, <2>16, <2>17, <2>18, <3>1, BindingsMoved
  <2>20. ASSUME p # Manager PROVE Undisturbed
    <3>1. \A r \in Proc : Bindings(r, Manager) # {} => Bindings(r, Manager)' # {}
      <4>1. bd.flag \in Flag
        BY DEF bd
      <4> HIDE DEF h
      <4>2. \A a, b \in Proc : Bindings(a, b) # {} /\ ~(a = h /\ b = p /\ Dismisses(h, p, bd))
              => Bindings(a, b)' # {}
        BY <1>1, <2>2, <2>16, <4>1, ReboundKeeps
      <4> QED BY <2>20, <4>2, ProcNumbers
    <3> QED BY <1>1, <2>13, <2>19, <3>1, ProcNumbers DEF Undisturbed, receivesKernelNotifications
  <2> QED BY <2>19, <2>20
<1> QED BY <1>3, <1>4

LEMMA AnswerKeeps ==
  ASSUME IpcInv, NEW p \in Proc, NEW bd, bd.flag \in Flag, Answer(p, bd)
  PROVE  /\ IpcInv' /\ UNCHANGED <<alive, ipcListenerRegister>>
         /\ hand[p].from \in alive /\ hand'[p].token = NoToken
         /\ \A r, q \in Proc : Announces(runLoop[r], q) => Announces(runLoop'[r], q)
         /\ \A a, b \in Proc : Bindings(a, b) # {}
              /\ ~(a = hand[p].from /\ b = p /\ bd.flag = "UNBIND") => Bindings(a, b)' # {}
         /\ \A a \in Proc : a = hand[p].from /\ bd.flag = "BIND" => Bindings(a, p)' # {}
         /\ p # Manager => Undisturbed
<1> DEFINE t == hand[p].token
           s == ipcReplyRegister[t].senderProcId
           H == [hand EXCEPT ![p] = Nothing]
<1>1. /\ p \in alive /\ t # NoToken /\ Rebinds(s, p, bd)
      /\ bindings' = Rebound(s, p, bd) /\ runLoop' = BoxesRebound(runLoop, s, p, bd)
      /\ ipcReplyRegister' = [ipcReplyRegister EXCEPT ![t] = NoReply]
      /\ waiting' = waiting \ ({s} \ StillAwaited(ipcReplyRegister'))
      /\ UNCHANGED <<alive, ipcListenerRegister>>
      /\ hand' = H
  BY DEF Answer, k_ipc_reply, Runs
<1>2. /\ TablesTyped /\ alive \subseteq Proc /\ waiting \subseteq alive
      /\ hand = [r \in Proc |-> hand[r]] /\ runLoop = [r \in Proc |-> runLoop[r]]
      /\ ipcReplyRegister \in [Token -> Reply0]
  BY DEF IpcInv, TablesTyped
<1>3. \A r \in Proc : BoxIsSound(hand[r], runLoop[r], r, ipcReplyRegister, Knows(r))
  BY DEF IpcInv
<1>4. \A r \in Proc : hand[r] \in Mail /\ runLoop[r] \in Seq(Mail)
  BY <1>3 DEF BoxIsSound
<1>5. t \in Token /\ ipcReplyRegister[t] = [senderProcId |-> hand[p].from, handlerProcId |-> p]
  <2>1. hand[p].token \in Token \cup {NoToken}
    BY <1>4 DEF Mail
  <2>2. 0 \in Position(runLoop[p]) /\ Item(hand[p], runLoop[p], 0) = hand[p]
    BY <1>4 DEF Position, Item
  <2>3. IsOwed(hand[p], p, ipcReplyRegister)
    BY <1>3, <2>2 DEF BoxIsSound
  <2> QED BY <1>1, <2>1, <2>3 DEF IsOwed
<1>6. s = hand[p].from /\ ipcReplyRegister[t] # NoReply
  BY <1>5, ProcNumbers DEF NoReply
<1>7. /\ s \in waiting /\ s \in Proc
      /\ \A u \in Token : ipcReplyRegister[u].senderProcId = s => u = t
  <2>1. ReplyIsSound(t)
    BY <1>5 DEF IpcInv
  <2> QED BY <1>2, <1>6, <2>1 DEF ReplyIsSound
<1>8. /\ ipcReplyRegister' \in [Token -> Reply0] /\ ipcReplyRegister'[t] = NoReply
      /\ \A u \in Token : u # t => ipcReplyRegister'[u] = ipcReplyRegister[u]
  BY <1>1, <1>2, <1>5 DEF Reply0, NoReply
<1>9. NoReply.senderProcId = NONE
  BY DEF NoReply
<1>10. waiting' = waiting \ {s}
  <2>1. s \notin StillAwaited(ipcReplyRegister')
    BY <1>7, <1>8, <1>9, ProcNumbers DEF StillAwaited
  <2> QED BY <1>1, <2>1
<1>11. /\ H[p] = Nothing /\ (\A r \in Proc : r # p => H[r] = hand[r]) /\ H = [r \in Proc |-> H[r]]
  BY <1>2
<1> HIDE DEF H
<1>12. /\ BoxIsSound(Nothing, runLoop[p], p, ipcReplyRegister, Knows(p))
       /\ \A u \in Token : Has(hand[p], runLoop[p], u) /\ u # t => Has(Nothing, runLoop[p], u)
       /\ ~Has(Nothing, runLoop[p], t)
  BY <1>3, <1>5, BoxDropped
<1>13. \A r \in Proc : BoxIsSound(H[r], runLoop[r], r, ipcReplyRegister', Knows(r))
  <2>1. BoxIsSound(Nothing, runLoop[p], p, ipcReplyRegister', Knows(p))
    BY <1>8, <1>12, BoxKept
  <2>2. ASSUME NEW r \in Proc, r # p
        PROVE  BoxIsSound(hand[r], runLoop[r], r, ipcReplyRegister', Knows(r))
    <3>1. ~Has(hand[r], runLoop[r], t)
      <4> SUFFICES ASSUME NEW i \in Position(runLoop[r]), Item(hand[r], runLoop[r], i).token = t
                   PROVE  FALSE
        BY DEF Has
      <4>1. IsOwed(Item(hand[r], runLoop[r], i), r, ipcReplyRegister)
        BY <1>3 DEF BoxIsSound
      <4>2. ipcReplyRegister[t].handlerProcId = r
        BY <1>1, <4>1 DEF IsOwed
      <4> QED BY <1>5, <2>2, <4>2
    <3> QED BY <1>3, <1>8, <3>1, BoxKept
  <2> QED BY <1>11, <2>1, <2>2
<1>14. AreBoxes(H, runLoop) /\ AreSound(H, runLoop, ipcReplyRegister')
  BY <1>2, <1>11, <1>13 DEF AreBoxes, AreSound
<1>15. hand' = HandOf(H, s, p, bd)
  <2>1. Sealed(Nothing, s, "dismissed") = Nothing
    BY NothingIsMail, SealedIsMail
  <2>2. [H EXCEPT ![p] = Nothing] = H
    BY <1>11
  <2> QED BY <1>1, <1>11, <2>1, <2>2 DEF HandOf
<1>16. \A r \in Proc \ alive : H[r] = Nothing /\ runLoop[r] = <<>>
  BY <1>1, <1>11 DEF IpcInv
<1>17. /\ waiting' \subseteq alive
       /\ \A r \in waiting' : \E u \in Token : ipcReplyRegister'[u].senderProcId = r
  <2> SUFFICES ASSUME NEW r \in waiting, r # s
               PROVE  \E u \in Token : ipcReplyRegister'[u].senderProcId = r
    BY <1>2, <1>10
  <2>1. PICK u \in Token : ipcReplyRegister[u].senderProcId = r
    BY DEF IpcInv
  <2>2. u # t
    BY <2>1
  <2> QED BY <1>8, <2>1, <2>2
<1>18. ASSUME NEW u \in Token, ipcReplyRegister'[u] # NoReply
       PROVE  LET r == ipcReplyRegister'[u]
              IN /\ r.senderProcId \in waiting' /\ r.handlerProcId \in alive
                 /\ Has(H[r.handlerProcId], runLoop[r.handlerProcId], u)
                 /\ \A v \in Token : ipcReplyRegister'[v].senderProcId = r.senderProcId => v = u
  <2> DEFINE r == ipcReplyRegister[u]
  <2>1. u # t /\ ipcReplyRegister'[u] = r /\ r # NoReply
    BY <1>8, <1>18
  <2>2. /\ r.senderProcId \in waiting /\ r.handlerProcId \in alive
        /\ Has(hand[r.handlerProcId], runLoop[r.handlerProcId], u)
        /\ \A v \in Token : ipcReplyRegister[v].senderProcId = r.senderProcId => v = u
    BY <2>1 DEF IpcInv, ReplyIsSound
  <2>3. r.senderProcId # s /\ r.handlerProcId \in Proc /\ r.senderProcId # NONE
    BY <1>2, <1>7, <2>1, <2>2, ProcNumbers
  <2> HIDE DEF r
  <2>4. Has(H[r.handlerProcId], runLoop[r.handlerProcId], u)
    BY <1>11, <1>12, <2>1, <2>2, <2>3
  <2>5. \A v \in Token : ipcReplyRegister'[v].senderProcId = r.senderProcId => v = u
    BY <1>8, <1>9, <2>2, <2>3
  <2> QED BY <1>10, <2>1, <2>2, <2>3, <2>4, <2>5
<1>19. /\ bindings' = Rebound(s, p, bd) /\ runLoop' = BoxesRebound(runLoop, s, p, bd)
       /\ s \in Proc /\ TablesTyped /\ Rebinds(s, p, bd)
       /\ UNCHANGED <<alive, ipcListenerRegister>>
  BY <1>1, <1>2, <1>7
<1> HIDE DEF s, t
<1>20. /\ IpcInv'
       /\ \A r \in Proc : hand'[r].from = H[r].from /\ hand'[r].token = H[r].token
       /\ \A r, q \in Proc : Announces(runLoop[r], q) => Announces(runLoop'[r], q)
  BY <1>8, <1>14, <1>15, <1>16, <1>17, <1>18, <1>19, BindingsMoved
<1>21. \A a, b \in Proc : Bindings(a, b) # {} /\ ~(a = s /\ b = p /\ Dismisses(s, p, bd))
         => Bindings(a, b)' # {}
  BY <1>19, ReboundKeeps
<1>22. bd.flag # "UNBIND" => ~Dismisses(s, p, bd)
  BY DEF Dismisses
<1>23. hand[p].from = s /\ s \in alive
  BY <1>2, <1>6, <1>7
<1>24. \A a \in Proc : a = hand[p].from /\ bd.flag = "BIND" => Bindings(a, p)' # {}
  <2> SUFFICES ASSUME NEW a \in Proc, a = s, bd.flag = "BIND" PROVE Bindings(a, p)' # {}
    BY <1>23
  <2>1. bindings' = Rebound(a, p, bd) /\ Rebinds(a, p, bd)
    BY <1>19
  <2> QED BY <1>19, <2>1, ReboundKeeps
<1>25. \A a, b \in Proc : Bindings(a, b) # {} /\ ~(a = hand[p].from /\ b = p /\ bd.flag = "UNBIND")
         => Bindings(a, b)' # {}
  BY <1>21, <1>22, <1>23
<1>26. p # Manager => Undisturbed
  BY <1>11, <1>19, <1>20, <1>21, ProcNumbers DEF Undisturbed, receivesKernelNotifications
<1>27. hand'[p].token = NoToken
  BY <1>11, <1>20, NothingIsMail
<1> QED BY <1>19, <1>20, <1>23, <1>24, <1>25, <1>26, <1>27, Zenon

LEMMA BoxEmpty == \A p, replies, known : BoxIsSound(Nothing, <<>>, p, replies, known)
<1> SUFFICES ASSUME NEW p, NEW replies, NEW known PROVE BoxIsSound(Nothing, <<>>, p, replies, known)
  OBVIOUS
<1>1. <<>> \in Seq(Mail) /\ Position(<<>>) = {0} /\ Item(Nothing, <<>>, 0) = Nothing
  BY DEF Position, Item
<1>2. IsOwed(Nothing, p, replies) /\ IsKnown(Nothing, known) /\ IsFollowed(Nothing, <<>>, 0)
      /\ IsGenuine(Nothing)
  BY NothingIsMail DEF IsOwed, IsKnown, IsFollowed, IsGenuine
<1>3. TokensOnce(Nothing, <<>>)
  BY <1>1 DEF TokensOnce
<1> QED BY <1>1, <1>2, <1>3, NothingIsMail DEF BoxIsSound

\* Whoever knows a process is told of its end.
LEMMA ToldIfKnown ==
  ASSUME IpcInv, NEW p \in Proc, NEW r \in Proc, r # p
  PROVE  /\ Told(p, r) \in Seq(Mail) /\ \A k \in 1 .. Len(Told(p, r)) : Told(p, r)[k] = Notice(p)
         /\ p \in Knows(r) => Told(p, r) # <<>>
         /\ ~Notifiable(r) => Told(p, r) = <<>>
<1> DEFINE n == Cardinality(Bindings(p, r))
           notice == Notice(p)
           told == [k \in 1 .. n |-> notice]
<1>1. IsFiniteSet(Bindings(p, r))
  <2>1. Bindings(p, r) \subseteq Slot
    BY DEF IpcInv, TablesTyped, Bindings
  <2>2. IsFiniteSet(Slot)
    BY IpcAssumption, FS_Interval DEF Slot
  <2> QED BY <2>1, <2>2, FS_Subset
<1>2. n \in Nat /\ (n = 0 <=> Bindings(p, r) = {})
  BY <1>1, FS_CardinalityType, FS_EmptySet
<1>3. notice \in Mail
  BY NoticeIsMail
<1>4. CASE Notifiable(r)
  <2>1. Told(p, r) = told
    BY <1>4 DEF Told
  <2> HIDE DEF n, notice
  <2>2. told \in Seq(Mail) /\ Len(told) = n /\ \A k \in 1 .. n : told[k] = notice
    BY <1>2, <1>3
  <2>3. Bindings(p, r) # {} => told # <<>>
    BY <1>2, <2>2
  <2> HIDE DEF told
  <2> QED BY <1>4, <2>1, <2>2, <2>3 DEF Knows, notice
<1>5. CASE ~Notifiable(r)
  <2>1. Told(p, r) = <<>>
    BY <1>5 DEF Told
  <2> QED BY <1>5, <2>1 DEF Knows
<1> QED BY <1>4, <1>5

LEMMA TablesAfterBye ==
  ASSUME IpcInv, NEW p \in Proc, k_scr_usr_bye(p)
  PROVE  /\ TablesTyped' /\ \A i \in 0 .. MAX_IPC_LISTENER - 1 : ListenerIsSound(i)'
         /\ \A r \in Proc : r # p /\ receivesKernelNotifications(r) => receivesKernelNotifications(r)'
         /\ \A a, b \in Proc : a # p /\ b # p /\ Bindings(a, b) # {} => Bindings(a, b)' # {}
         /\ \A r \in Proc : r # p => Knows(r) \ {p} \subseteq Knows(r)'
<1> DEFINE N == 0 .. MAX_IPC_LISTENER - 1
<1>1. /\ p \in alive /\ p \notin waiting /\ k_ipc_procCleanup(p) /\ alive' = alive \ {p}
      /\ runLoop' = [r \in Proc |-> runLoop'[r]] /\ hand' = [r \in Proc |-> hand'[r]]
  <2> DEFINE L == [r \in Proc |->
                     IF r = p THEN <<>>
                     ELSE [i \in DOMAIN runLoop[r] |-> Sealed(runLoop[r][i], p, "gone")] \o Told(p, r)]
             H == [r \in Proc |-> IF r = p THEN Nothing ELSE Sealed(hand[r], p, "gone")]
  <2>1. runLoop' = L /\ hand' = H
    BY DEF k_scr_usr_bye
  <2>2. L = [r \in Proc |-> L[r]] /\ H = [r \in Proc |-> H[r]]
    OBVIOUS
  <2> HIDE DEF L, H
  <2> QED BY <2>1, <2>2 DEF k_scr_usr_bye, Runs
<1>2. /\ TablesTyped /\ alive \subseteq Proc /\ waiting \subseteq alive
      /\ DOMAIN ipcListenerRegister = N /\ DOMAIN bindings = Slot
      /\ ipcReplyRegister \in [Token -> Reply0]
  BY DEF IpcInv, TablesTyped
<1>3. /\ DOMAIN ipcListenerRegister' = N
      /\ ipcListenerRegister' = [i \in N |-> ipcListenerRegister'[i]]
      /\ \A i \in N : ipcListenerRegister'[i] = IF ipcListenerRegister[i].procId = p THEN NoListener
                                                ELSE ipcListenerRegister[i]
  BY <1>1, <1>2 DEF k_ipc_procCleanup
<1>4. /\ DOMAIN bindings' = Slot /\ bindings' = [i \in Slot |-> bindings'[i]]
      /\ \A i \in Slot : bindings[i].sender # p /\ bindings[i].receiver # p => bindings'[i] = bindings[i]
  BY <1>1, <1>2 DEF k_ipc_procCleanup
<1>5. ipcReplyRegister' \in [Token -> Reply0] /\ waiting' \subseteq alive'
  BY <1>1, <1>2 DEF k_ipc_procCleanup, Reply0, NoReply
<1>6. TablesTyped'
  BY <1>1, <1>2, <1>3, <1>4, <1>5 DEF TablesTyped
<1>7. \A r \in Proc : r # p /\ receivesKernelNotifications(r) => receivesKernelNotifications(r)'
  BY <1>2, <1>3 DEF receivesKernelNotifications
<1>8. \A r \in Proc : r # p /\ Notifiable(r) => Notifiable(r)'
  BY <1>2, <1>3 DEF Notifiable, ListenersForPath
<1>9. ASSUME NEW i \in N PROVE ListenerIsSound(i)'
  <2>1. ListenerIsSound(i)
    BY DEF IpcInv
  <2>2. CASE ipcListenerRegister[i].procId = p
    BY <1>3, <2>2 DEF ListenerIsSound
  <2>3. CASE ipcListenerRegister[i].procId # p
    <3>1. ipcListenerRegister'[i] = ipcListenerRegister[i]
      BY <1>3, <2>3
    <3> QED BY <1>1, <1>2, <1>7, <2>1, <2>3, <3>1 DEF ListenerIsSound
  <2> QED BY <2>2, <2>3
<1>10. \A a, b \in Proc : a # p /\ b # p /\ Bindings(a, b) # {} => Bindings(a, b)' # {}
  BY <1>2, <1>4 DEF Bindings
<1>11. \A r \in Proc : r # p => Knows(r) \ {p} \subseteq Knows(r)'
  BY <1>8, <1>10 DEF Knows
<1> QED BY <1>6, <1>7, <1>9, <1>10, <1>11

LEMMA ByeKeeps ==
  ASSUME IpcInv, NEW p \in Proc, k_scr_usr_bye(p)
  PROVE  /\ IpcInv' /\ p \in alive /\ alive' = alive \ {p}
         /\ hand'[p] = Nothing
         /\ \A r \in Proc : r # p =>
              /\ hand'[r].from = hand[r].from /\ hand'[r].token = hand[r].token
              /\ \A q \in Proc : Announces(runLoop[r], q) => Announces(runLoop'[r], q)
              /\ p \in Knows(r) => Announces(runLoop'[r], p)
              /\ receivesKernelNotifications(r) => receivesKernelNotifications(r)'
              /\ \A q \in Proc : q # p /\ Bindings(q, r) # {} => Bindings(q, r)' # {}
<1> DEFINE failed == {t \in Token : ipcReplyRegister[t].handlerProcId = p}
           freed == {ipcReplyRegister[t].senderProcId : t \in failed}
           loop(r) == SealedLoop(runLoop[r], p, "gone") \o Told(p, r)
<1>1. /\ p \in alive /\ p \notin waiting /\ alive' = alive \ {p}
      /\ TablesTyped /\ alive \subseteq Proc /\ waiting \subseteq alive
      /\ ipcReplyRegister \in [Token -> Reply0]
  BY DEF k_scr_usr_bye, Runs, IpcInv, TablesTyped
<1>2. /\ hand'[p] = Nothing /\ runLoop'[p] = <<>>
      /\ \A r \in Proc : r # p => hand'[r] = Sealed(hand[r], p, "gone") /\ runLoop'[r] = loop(r)
  BY DEF k_scr_usr_bye, SealedLoop
<1>3. /\ TablesTyped' /\ \A i \in 0 .. MAX_IPC_LISTENER - 1 : ListenerIsSound(i)'
      /\ \A r \in Proc : r # p /\ receivesKernelNotifications(r) => receivesKernelNotifications(r)'
      /\ \A a, b \in Proc : a # p /\ b # p /\ Bindings(a, b) # {} => Bindings(a, b)' # {}
      /\ \A r \in Proc : r # p => Knows(r) \ {p} \subseteq Knows(r)'
  BY TablesAfterBye
<1>4. \A t \in Token : ipcReplyRegister[t].senderProcId # p
  BY <1>1, OwedWaits, ProcNumbers
<1>5. \A t \in Token : ipcReplyRegister'[t] = IF t \in failed THEN NoReply ELSE ipcReplyRegister[t]
  BY <1>4 DEF k_scr_usr_bye, k_ipc_procCleanup
<1>6. waiting' = waiting \ (freed \ StillAwaited(ipcReplyRegister'))
  BY DEF k_scr_usr_bye, k_ipc_procCleanup
<1>7. NoReply.senderProcId = NONE
  BY DEF NoReply
<1>8. \A t \in failed : /\ t \in Token /\ ipcReplyRegister[t].senderProcId \in waiting
                        /\ \A u \in Token : ipcReplyRegister[u].senderProcId
                                              = ipcReplyRegister[t].senderProcId => u = t
  <2> SUFFICES ASSUME NEW t \in failed
               PROVE  /\ ipcReplyRegister[t].senderProcId \in waiting
                      /\ \A u \in Token : ipcReplyRegister[u].senderProcId
                                            = ipcReplyRegister[t].senderProcId => u = t
    OBVIOUS
  <2>1. ReplyIsSound(t)
    BY DEF IpcInv
  <2>2. ipcReplyRegister[t] # NoReply
    BY ProcNumbers DEF NoReply
  <2> QED BY <2>1, <2>2 DEF ReplyIsSound
<1>9. waiting' = waiting \ freed
  <2>1. \A s \in freed : s \notin StillAwaited(ipcReplyRegister')
    <3> SUFFICES ASSUME NEW t \in failed, NEW u \in Token,
                        ipcReplyRegister'[u].senderProcId = ipcReplyRegister[t].senderProcId
                 PROVE  FALSE
      BY DEF StillAwaited
    <3>1. ipcReplyRegister[t].senderProcId # NONE
      BY <1>1, <1>8, ProcNumbers
    <3>2. u \notin failed
      BY <1>5, <1>7, <3>1
    <3> QED BY <1>5, <1>8, <3>2
  <2> QED BY <1>6, <2>1
<1>10. ASSUME NEW r \in Proc, r # p
       PROVE  /\ BoxIsSound(hand'[r], runLoop'[r], r, ipcReplyRegister', Knows(r)')
              /\ \A t \in Token : Has(hand[r], runLoop[r], t) => Has(hand'[r], runLoop'[r], t)
              /\ hand'[r].from = hand[r].from /\ hand'[r].token = hand[r].token
              /\ \A q \in Proc : Announces(runLoop[r], q) => Announces(runLoop'[r], q)
              /\ p \in Knows(r) => Announces(runLoop'[r], p)
              /\ r \notin alive => hand'[r] = Nothing /\ runLoop'[r] = <<>>
  <2> DEFINE g == Sealed(hand[r], p, "gone")
             s == SealedLoop(runLoop[r], p, "gone")
             more == Told(p, r)
  <2>1. /\ more \in Seq(Mail) /\ \A k \in 1 .. Len(more) : more[k] = Notice(p)
        /\ p \in Knows(r) => more # <<>>
        /\ ~Notifiable(r) => more = <<>>
    BY <1>10, ToldIfKnown
  <2>2. BoxIsSound(hand[r], runLoop[r], r, ipcReplyRegister, Knows(r))
    BY DEF IpcInv
  <2>3. hand[r] \in Mail /\ runLoop[r] \in Seq(Mail)
    BY <2>2 DEF BoxIsSound
  <2>4. s \in Seq(Mail) /\ Len(s) = Len(runLoop[r])
    BY <2>3, SealedSequence
  <2>5. g.from = hand[r].from /\ g.token = hand[r].token /\ (~hand[r].bound => g = hand[r])
    BY <2>3, SealedIsMail
  <2>6. /\ BoxIsSound(g, s \o more, r, ipcReplyRegister, Knows(r) \ {p})
        /\ \A t \in Token : Has(hand[r], runLoop[r], t) => Has(g, s \o more, t)
    <3> HIDE DEF more
    <3>1. "gone" \in {"gone", "dismissed"}
      OBVIOUS
    <3>2. "gone" = "gone" /\ p \in Knows(r) => more # <<>>
      BY <2>1
    <3> QED BY <2>1, <2>2, <3>1, <3>2, BoxSealed
  <2>7. hand'[r] = g /\ runLoop'[r] = s \o more
    BY <1>2, <1>10
  <2> HIDE DEF g, s, more
  <2>8. \A q \in Proc : Announces(runLoop[r], q) => Announces(s \o more, q)
    <3>1. \A q \in Proc : Announces(runLoop[r], q) => Announces(s, q)
      BY <2>3, AnnouncesKept DEF s
    <3> QED BY <2>1, <2>4, <3>1, AnnouncesKept
  <2>9. p \in Knows(r) => Announces(s \o more, p)
    <3> SUFFICES ASSUME more # <<>> PROVE Announces(s \o more, p)
      BY <2>1
    <3>1. /\ Len(more) \in Nat /\ Len(s) \in Nat /\ 1 <= Len(more)
          /\ Len(s \o more) = Len(s) + Len(more) /\ (s \o more)[Len(s) + 1] = more[1]
      BY <2>1, <2>4
    <3>2. Len(s) + 1 \in 1 .. Len(s \o more) /\ (s \o more)[Len(s) + 1] = Notice(p)
      BY <2>1, <3>1
    <3> QED BY <3>2 DEF Announces
  <2>10. \A t \in Token : Has(g, s \o more, t) => ipcReplyRegister'[t] = ipcReplyRegister[t]
    <3> SUFFICES ASSUME NEW t \in Token, NEW i \in Position(s \o more),
                        Item(g, s \o more, i).token = t
                 PROVE  ipcReplyRegister'[t] = ipcReplyRegister[t]
      BY DEF Has
    <3>1. IsOwed(Item(g, s \o more, i), r, ipcReplyRegister)
      BY <2>6 DEF BoxIsSound
    <3>2. ipcReplyRegister[t].handlerProcId = r
      BY <3>1, ProcNumbers DEF IsOwed
    <3> QED BY <1>5, <1>10, <3>2
  <2>11. BoxIsSound(g, s \o more, r, ipcReplyRegister', Knows(r)')
    <3>1. Knows(r) \ {p} \subseteq Knows(r)'
      BY <1>3, <1>10
    <3> QED BY <2>6, <2>10, <3>1, BoxKept
  <2>12. r \notin alive => g = Nothing /\ s \o more = <<>>
    <3> SUFFICES ASSUME r \notin alive PROVE g = Nothing /\ s \o more = <<>>
      OBVIOUS
    <3>1. hand[r] = Nothing /\ runLoop[r] = <<>> /\ ~Notifiable(r)
      BY NotifiableIsAlive DEF IpcInv
    <3>2. s = <<>> /\ more = <<>>
      BY <2>1, <2>4, <3>1
    <3> QED BY <2>5, <3>1, <3>2, NothingIsMail
  <2> QED BY <2>5, <2>6, <2>7, <2>8, <2>9, <2>11, <2>12
<1> HIDE DEF loop
<1>11. BoxIsSound(hand'[p], runLoop'[p], p, ipcReplyRegister', Knows(p)')
  BY <1>2, BoxEmpty
<1>12. \A r \in Proc : BoxIsSound(hand[r], runLoop[r], r, ipcReplyRegister, Knows(r))'
  BY <1>10, <1>11
<1>13. \A r \in Proc \ alive' : hand'[r] = Nothing /\ runLoop'[r] = <<>>
  BY <1>1, <1>2, <1>10
<1>14. ASSUME NEW r \in waiting' PROVE \E t \in Token : ipcReplyRegister'[t].senderProcId = r
  <2>1. PICK t \in Token : ipcReplyRegister[t].senderProcId = r
    BY <1>9 DEF IpcInv
  <2>2. t \notin failed
    BY <1>9, <2>1
  <2> QED BY <1>5, <2>1, <2>2
<1>15. ASSUME NEW t \in Token PROVE ReplyIsSound(t)'
  <2> DEFINE r == ipcReplyRegister[t]
  <2>1. CASE ipcReplyRegister'[t] = NoReply
    BY <2>1 DEF ReplyIsSound
  <2>2. CASE ipcReplyRegister'[t] # NoReply
    <3>1. t \notin failed /\ ipcReplyRegister'[t] = r /\ r # NoReply /\ r.handlerProcId # p
      BY <1>5, <2>2
    <3>2. /\ r.senderProcId \in waiting /\ r.handlerProcId \in alive
          /\ Has(hand[r.handlerProcId], runLoop[r.handlerProcId], t)
          /\ \A u \in Token : ipcReplyRegister[u].senderProcId = r.senderProcId => u = t
      BY <3>1 DEF IpcInv, ReplyIsSound
    <3>3. r.senderProcId \notin freed
      BY <1>8, <3>1
    <3>4. r.senderProcId # NONE /\ r.handlerProcId \in Proc
      BY <1>1, <3>2, ProcNumbers
    <3> HIDE DEF failed, freed, r
    <3>5. Has(hand'[r.handlerProcId], runLoop'[r.handlerProcId], t)
      BY <1>10, <3>1, <3>2, <3>4
    <3>6. \A u \in Token : ipcReplyRegister'[u].senderProcId = r.senderProcId => u = t
      BY <1>5, <1>7, <3>2, <3>4
    <3> QED BY <1>1, <1>9, <3>1, <3>2, <3>3, <3>5, <3>6 DEF ReplyIsSound
  <2> QED BY <2>1, <2>2
<1>16. IpcInv'
  BY <1>3, <1>12, <1>13, <1>14, <1>15 DEF IpcInv
<1>17. \A r \in Proc : r # p =>
         /\ hand'[r].from = hand[r].from /\ hand'[r].token = hand[r].token
         /\ \A q \in Proc : Announces(runLoop[r], q) => Announces(runLoop'[r], q)
         /\ p \in Knows(r) => Announces(runLoop'[r], p)
  BY <1>10
<1> QED BY <1>1, <1>2, <1>3, <1>16, <1>17

-----------------------------------------------------------------------------
(* The display manager: a process with a session is rooted, that is known   *)
(* to be there, about to be known, or announced to have ended.              *)

IsRooted(p) ==
  \/ p \in alive /\ Bindings(p, Manager) # {}
  \/ p \in alive /\ answer = "BIND" /\ hand[Manager].from = p
  \/ Announces(runLoop[Manager], p)
  \/ answer = "fug"
Rooted == \A p \in Proc, s \in Session : sessions[s] = p => IsRooted(p)

LEMMA InLoop ==
  ASSUME NEW loop \in Seq(Mail), NEW p PROVE Notice(p) \in ToSet(loop) <=> Announces(loop, p)
<1>1. DOMAIN loop = 1 .. Len(loop)
  OBVIOUS
<1> QED BY <1>1 DEF ToSet, Announces

LEMMA RootedNow == ASSUME IInv PROVE Rooted
<1> SUFFICES ASSUME NEW p \in Proc, NEW s \in Session, sessions[s] = p PROVE IsRooted(p)
  BY DEF Rooted
<1>1. runLoop[Manager] \in Seq(Mail)
  BY ProcNumbers DEF IInv, IpcInv, BoxIsSound
<1>2. Notice(p) \in ToSet(runLoop[Manager]) <=> Announces(runLoop[Manager], p)
  BY <1>1, InLoop
<1> QED BY <1>2, ProcNumbers DEF IInv, SessionIsAnnounced, IsRooted

LEMMA RootedNext ==
  ASSUME IpcInv', ManagerInv', Rooted' PROVE IInv'
<1>1. runLoop'[Manager] \in Seq(Mail)
  BY ProcNumbers DEF IpcInv, BoxIsSound
<1> DEFINE bound(p) == \E i \in DOMAIN bindings : bindings[i].sender = p /\ bindings[i].receiver = Manager
<1>2. (\A p : Bindings(p, Manager) # {} <=> bound(p))'
  BY DEF Bindings
<1>3. ASSUME NEW s \in Session, sessions'[s] # NONE
      PROVE  \/ sessions'[s] \in alive' /\ \E i \in DOMAIN bindings' :
                  bindings'[i].sender = sessions'[s] /\ bindings'[i].receiver = Manager
             \/ sessions'[s] \in alive' /\ answer' = "BIND" /\ hand'[Manager].from = sessions'[s]
             \/ Notice(sessions'[s]) \in ToSet(runLoop'[Manager])
             \/ answer' = "fug"
  <2>1. PICK p \in Proc : sessions'[s] = p
    BY <1>3 DEF ManagerInv
  <2>2. IsRooted(p)'
    BY <2>1 DEF Rooted
  <2>3. Notice(p) \in ToSet(runLoop'[Manager]) <=> Announces(runLoop'[Manager], p)
    BY <1>1, InLoop
  <2> QED BY <1>2, <2>1, <2>2, <2>3 DEF IsRooted
<1>4. SessionIsAnnounced'
  BY <1>3 DEF SessionIsAnnounced, Bindings, Notice, Message
<1> QED BY <1>4 DEF IInv

\* Who has sent a query with a token waits for the reply.
LEMMA QuerierWaits ==
  ASSUME IpcInv, NEW p \in Proc, NEW i \in Position(runLoop[p]),
         Item(hand[p], runLoop[p], i).token # NoToken
  PROVE  Item(hand[p], runLoop[p], i).from \in waiting
<1> DEFINE m == Item(hand[p], runLoop[p], i)
<1>1. BoxIsSound(hand[p], runLoop[p], p, ipcReplyRegister, Knows(p))
  BY DEF IpcInv
<1>2. m \in Mail /\ IsOwed(m, p, ipcReplyRegister)
  <2>1. m \in Mail
    BY <1>1 DEF BoxIsSound, Position, Item
  <2> QED BY <1>1, <2>1 DEF BoxIsSound
<1> HIDE DEF m
<1>3. m.token \in Token \/ m.token = NoToken
  BY <1>2 DEF Mail
<1>4. m.token # NoToken
  BY DEF m
<1>5. m.token \in Token /\ ipcReplyRegister[m.token] = [senderProcId |-> m.from, handlerProcId |-> p]
  BY <1>2, <1>3, <1>4 DEF IsOwed
<1>6. ReplyIsSound(m.token) /\ ipcReplyRegister[m.token] # NoReply
  <2>1. \A t \in Token : ReplyIsSound(t)
    BY DEF IpcInv
  <2>2. NoReply.handlerProcId # p
    BY ProcNumbers DEF NoReply
  <2> QED BY <1>5, <2>1, <2>2
<1> QED BY <1>5, <1>6 DEF ReplyIsSound, m

\* The manager takes a message: a notice that it takes is no longer on its way.
LEMMA ManagerTakes ==
  ASSUME IInv, NEW path, TakeFor(path)
  PROVE  /\ IpcInv' /\ registered = Len(Listeners) /\ answer = "none" /\ hand'[Manager].path = path
         /\ UNCHANGED <<registered, alive, bindings, ipcListenerRegister, oops>>
         /\ hand'[Manager].token # NoToken => hand'[Manager].from \in alive
         /\ path = SessionDestroyed =>
              hand'[Manager].data \in Proc /\ hand'[Manager] = Notice(hand'[Manager].data)
         /\ \A p \in Proc : IsRooted(p) =>
              \/ p \in alive /\ Bindings(p, Manager) # {}
              \/ Announces(runLoop'[Manager], p)
              \/ path = SessionDestroyed /\ hand'[Manager].data = p
<1> DEFINE loop == runLoop[Manager]
<1>1. IpcInv /\ Take(Manager) /\ Manager \in Proc
  BY ProcNumbers DEF IInv, TakeFor
<1>2. /\ IpcInv' /\ hand'[Manager] = Head(loop) /\ runLoop'[Manager] = Tail(loop) /\ loop # <<>>
  BY <1>1, TakeKeeps
<1>3. /\ registered = Len(Listeners) /\ answer = "none" /\ hand'[Manager].path = path
      /\ UNCHANGED <<registered, alive, bindings, ipcListenerRegister, oops>>
  BY DEF TakeFor, Take
<1>4. BoxIsSound(hand[Manager], loop, Manager, ipcReplyRegister, Knows(Manager))
  BY <1>1 DEF IpcInv
<1>5. /\ loop \in Seq(Mail) /\ 1 \in Position(loop) /\ Item(hand[Manager], loop, 1) = Head(loop)
  BY <1>2, <1>4 DEF BoxIsSound, Position, Item
<1>6. Head(loop).token # NoToken => Head(loop).from \in alive
  BY <1>1, <1>5, QuerierWaits DEF IpcInv, TablesTyped
<1>7. IsGenuine(Head(loop))
  BY <1>4, <1>5 DEF BoxIsSound
<1>8. path = SessionDestroyed =>
        hand'[Manager].data \in Proc /\ hand'[Manager] = Notice(hand'[Manager].data)
  BY <1>2, <1>3, <1>7 DEF IsGenuine
<1>9. ASSUME NEW p \in Proc, Announces(loop, p), ~(path = SessionDestroyed /\ hand'[Manager].data = p)
      PROVE  Announces(Tail(loop), p)
  <2>1. Head(loop) # Notice(p)
    BY <1>2, <1>3, <1>9, NoticeIsMail
  <2> QED BY <1>2, <1>5, <1>9, <2>1, AnnouncesKept
<1> HIDE DEF loop
<1>10. \A p \in Proc : IsRooted(p) => (p \in alive /\ Bindings(p, Manager) # {}) \/ Announces(loop, p)
  BY <1>3 DEF IsRooted, loop
<1>11. \A p \in Proc : IsRooted(p) =>
         \/ p \in alive /\ Bindings(p, Manager) # {}
         \/ Announces(runLoop'[Manager], p)
         \/ path = SessionDestroyed /\ hand'[Manager].data = p
  BY <1>2, <1>9, <1>10
<1> QED BY <1>2, <1>3, <1>6, <1>8, <1>11

LEMMA BindingsSame == ASSUME UNCHANGED bindings PROVE \A p \in Proc : Bindings(p, Manager)' = Bindings(p, Manager)
  BY DEF Bindings

LEMMA ReceivesSame ==
  ASSUME UNCHANGED ipcListenerRegister
  PROVE  receivesKernelNotifications(Manager) => receivesKernelNotifications(Manager)'
  BY DEF receivesKernelNotifications

LEMMA NumberOfListeners == Len(Listeners) = 4 /\ Len(Listeners) \in 0 .. Len(Listeners)
  BY PathsOfManager

\* What the manager has to do for what it takes.
LEMMA TakenWell ==
  ASSUME IInv, NEW path, TakeFor(path),
         sessions' \in [Session -> Proc \cup {NONE}],
         \A s, t \in Session : sessions'[s] = sessions'[t] /\ sessions'[s] # NONE => s = t,
         \A s \in Session : \/ sessions'[s] = NONE
                            \/ sessions'[s] = sessions[s]
                            \/ sessions'[s] = hand'[Manager].from /\ answer' = "BIND",
         path = SessionDestroyed => \A s \in Session : sessions'[s] # hand'[Manager].data,
         answer' \in {"NONE", "BIND", "return", "fug"},
         answer' \in {"NONE", "BIND"} => hand'[Manager].token # NoToken
  PROVE  IInv'
<1>1. /\ IpcInv' /\ registered = Len(Listeners) /\ answer = "none" /\ hand'[Manager].path = path
      /\ UNCHANGED <<registered, alive, bindings, ipcListenerRegister, oops>>
      /\ hand'[Manager].token # NoToken => hand'[Manager].from \in alive
      /\ \A p \in Proc : IsRooted(p) =>
           \/ p \in alive /\ Bindings(p, Manager) # {}
           \/ Announces(runLoop'[Manager], p)
           \/ path = SessionDestroyed /\ hand'[Manager].data = p
  BY ManagerTakes
<1>2. ManagerInv'
  BY <1>1, ReceivesSame, NumberOfListeners DEF IInv, ManagerInv
<1>3. Rooted'
  <2> SUFFICES ASSUME NEW p \in Proc, NEW s \in Session, sessions'[s] = p PROVE IsRooted(p)'
    BY DEF Rooted
  <2>1. CASE sessions[s] = p
    <3>1. IsRooted(p)
      BY <2>1, RootedNow DEF Rooted
    <3>2. Bindings(p, Manager)' = Bindings(p, Manager) /\ alive' = alive
      BY <1>1, BindingsSame
    <3> QED BY <1>1, <3>1, <3>2 DEF IsRooted
  <2>2. CASE hand'[Manager].from = p /\ answer' = "BIND"
    BY <1>1, <2>2 DEF IsRooted
  <2> QED BY <2>1, <2>2, ProcNumbers
<1> QED BY <1>1, <1>2, <1>3, RootedNext

LEMMA LeastSession ==
  ASSUME NEW p, sessionsOf(p) # {} PROVE Min(sessionsOf(p)) \in Session /\ sessions[Min(sessionsOf(p))] = p
<1>1. sessionsOf(p) \subseteq Nat
  BY SessionAssumption DEF sessionsOf, Session
<1> QED BY <1>1, LeastNumber DEF sessionsOf

\* The session of a process that is destroyed was its only one.
LEMMA DestroyedWell ==
  ASSUME ManagerInv, NEW p \in Proc, sessionsOf(p) # {}, Destroy(sessionForProc(p))
  PROVE  /\ sessions' \in [Session -> Proc \cup {NONE}]
         /\ \A s, t \in Session : sessions'[s] = sessions'[t] /\ sessions'[s] # NONE => s = t
         /\ \A s \in Session : sessions'[s] # p /\ (sessions'[s] = NONE \/ sessions'[s] = sessions[s])
<1> DEFINE k == sessionForProc(p)
<1>1. k \in Session /\ sessions[k] = p
  BY LeastSession DEF sessionForProc
<1> HIDE DEF k
<1>2. sessions' = [sessions EXCEPT ![k] = NONE]
  BY DEF Destroy, k
<1>3. sessions \in [Session -> Proc \cup {NONE}] /\
      \A s, t \in Session : sessions[s] = sessions[t] /\ sessions[s] # NONE => s = t
  BY DEF ManagerInv
<1>4. sessions'[k] = NONE /\ \A s \in Session : s # k => sessions'[s] = sessions[s]
  BY <1>1, <1>2, <1>3
<1>5. sessions' \in [Session -> Proc \cup {NONE}]
  BY <1>2, <1>3
<1> QED BY <1>1, <1>3, <1>4, <1>5, ProcNumbers

\* A message for the manager, whatever it is, is taken with the answer that is fit.
LEMMA TakeStep ==
  ASSUME IInv,
         TakeInconsistent \/ GetDisplay \/ AttachToDisplay \/ PushFrame \/ OnSessionDestroy
  PROVE  IInv'
<1>0. /\ sessions \in [Session -> Proc \cup {NONE}]
      /\ \A s, t \in Session : sessions[s] = sessions[t] /\ sessions[s] # NONE => s = t
  BY DEF IInv, ManagerInv
<1>1. CASE TakeInconsistent
  <2>1. PICK path \in ToSet(Listeners) \ {SessionDestroyed} : TakeFor(path)
    BY <1>1 DEF TakeInconsistent
  <2>2. answer' = "fug" /\ sessions' = sessions
    BY <1>1 DEF TakeInconsistent
  <2> QED BY <1>0, <2>1, <2>2, TakenWell
<1>2. CASE GetDisplay
  <2>1. /\ TakeFor(DISPMGR_PATH_GET) /\ hand'[Manager].token # NoToken
        /\ answer' = "NONE" /\ sessions' = sessions
    BY <1>2 DEF GetDisplay, TakeQuery, WellFormed
  <2> QED BY <1>0, <2>1, TakenWell, PathsOfManager
<1>3. CASE AttachToDisplay
  <2> DEFINE p == hand'[Manager].from
  <2>1. TakeFor(DISPMGR_PATH_ATTACH) /\ hand'[Manager].token # NoToken
    BY <1>3 DEF AttachToDisplay, TakeQuery, WellFormed
  <2>2. CASE answer' = "NONE" /\ sessions' = sessions
    BY <1>0, <2>1, <2>2, TakenWell, PathsOfManager
  <2>3. CASE /\ sessionsOf(p) = {} /\ sessionsOf(NONE) # {}
             /\ sessions' = [sessions EXCEPT ![Created] = p] /\ answer' = "BIND"
    <3>1. p \in Proc
      BY <2>1, ManagerTakes DEF IInv, IpcInv, TablesTyped
    <3>2. Created \in Session /\ sessions[Created] = NONE
      BY <2>3, LeastSession DEF Created
    <3>3. \A s \in Session : sessions[s] # p
      BY <2>3 DEF sessionsOf
    <3> DEFINE k == Created
    <3> HIDE DEF k, p
    <3>4. sessions' \in [Session -> Proc \cup {NONE}] /\ sessions'[k] = p
          /\ \A s \in Session : s # k => sessions'[s] = sessions[s]
      BY <1>0, <2>3, <3>1, <3>2 DEF k
    <3>5. \A s, t \in Session : sessions'[s] = sessions'[t] /\ sessions'[s] # NONE => s = t
      BY <1>0, <3>3, <3>4
    <3>6. \A s \in Session : sessions'[s] = sessions[s] \/ sessions'[s] = p
      BY <3>4
    <3> QED BY <2>1, <2>3, <3>4, <3>5, <3>6, TakenWell, PathsOfManager DEF p
  <2> QED BY <1>3, <2>2, <2>3 DEF AttachToDisplay
<1>4. CASE PushFrame
  <2>1. TakeFor(DISPMGR_PATH_PUSH) /\ hand'[Manager].token # NoToken /\ answer' = "NONE"
    BY <1>4 DEF PushFrame, TakeQuery, WellFormed
  <2>2. CASE sessions' = sessions
    BY <1>0, <2>1, <2>2, TakenWell, PathsOfManager
  <2>3. CASE sessionsOf(hand'[Manager].from) # {} /\ Destroy(sessionForProc(hand'[Manager].from))
    <3>1. PICK p \in Proc : p = hand'[Manager].from
      BY <2>1, ManagerTakes DEF IInv, IpcInv, TablesTyped
    <3>2. /\ sessions' \in [Session -> Proc \cup {NONE}]
          /\ \A s, t \in Session : sessions'[s] = sessions'[t] /\ sessions'[s] # NONE => s = t
          /\ \A s \in Session : sessions'[s] = NONE \/ sessions'[s] = sessions[s]
      BY <2>3, <3>1, DestroyedWell DEF IInv
    <3> QED BY <2>1, <3>2, TakenWell, PathsOfManager
  <2> QED BY <1>4, <2>2, <2>3 DEF PushFrame
<1>5. CASE OnSessionDestroy
  <2>1. TakeFor(SessionDestroyed) /\ answer' = "return"
    BY <1>5 DEF OnSessionDestroy
  <2>2. PICK p \in Proc : p = hand'[Manager].data
    BY <2>1, ManagerTakes
  <2>3. IF sessionsOf(p) # {} THEN Destroy(sessionForProc(p)) ELSE UNCHANGED <<sessions, displayStack>>
    BY <1>5, <2>2 DEF OnSessionDestroy
  <2>4. /\ sessions' \in [Session -> Proc \cup {NONE}]
        /\ \A s, t \in Session : sessions'[s] = sessions'[t] /\ sessions'[s] # NONE => s = t
        /\ \A s \in Session : sessions'[s] # p /\ (sessions'[s] = NONE \/ sessions'[s] = sessions[s])
    <3>1. CASE sessionsOf(p) # {}
      BY <2>3, <3>1, DestroyedWell DEF IInv
    <3>2. CASE sessionsOf(p) = {}
      BY <1>0, <2>3, <3>2 DEF sessionsOf
    <3> QED BY <3>1, <3>2
  <2> QED BY <2>1, <2>2, <2>4, TakenWell
<1> QED BY <1>1, <1>2, <1>3, <1>4, <1>5

LEMMA RegisterStep == ASSUME IInv, Register PROVE IInv'
<1> DEFINE path == Listeners[registered + 1]
<1>1. /\ registered < Len(Listeners) /\ registered' = registered + 1
      /\ k_scr_usr_ipcRegister(Manager, path, path = DISPMGR_PATH_PUSH, {})
      /\ UNCHANGED <<sessions, displayStack, answer>>
  BY DEF Register
<1>2. registered \in 0 .. 4 /\ Len(Listeners) = 4 /\ registered < 4
  BY <1>1, PathsOfManager DEF IInv, ManagerInv
<1>3. path \in Path /\ (path = DISPMGR_PATH_PUSH) \in BOOLEAN
  BY <1>2, PathsOfManager
<1>4. /\ IpcInv' /\ Undisturbed /\ ~oops
      /\ oops' \/ \E i \in DOMAIN ipcListenerRegister' :
           ipcListenerRegister'[i].procId = Manager /\ ipcListenerRegister'[i].path = path
  <2> DEFINE required == path = DISPMGR_PATH_PUSH
             nobody == {}
  <2>1. /\ IpcInv /\ path \in Path /\ required \in BOOLEAN /\ Manager \in Proc
        /\ k_scr_usr_ipcRegister(Manager, path, required, nobody)
    BY <1>1, <1>3, ProcNumbers DEF IInv
  <2> HIDE DEF path, required, nobody
  <2> QED BY ONLY <2>1, RegisterKeeps
<1>5. registered' >= 3 /\ ~oops' => receivesKernelNotifications(Manager)'
  <2>1. CASE registered = 2
    <3>1. path = SessionDestroyed
      BY <2>1, PathsOfManager
    <3> HIDE DEF path
    <3> QED BY <1>4, <3>1 DEF receivesKernelNotifications
  <2>2. CASE registered # 2
    <3>1. registered' >= 3 => registered >= 3
      BY <1>1, <1>2, <2>2
    <3> QED BY <1>4, <3>1 DEF IInv, ManagerInv, Undisturbed
  <2> QED BY <2>1, <2>2
<1>6. \A s \in Session : sessions'[s] = NONE
  BY <1>1, <1>2 DEF IInv, ManagerInv
<1>7. ManagerInv'
  <2>1. registered' \in 0 .. Len(Listeners)
    BY <1>1, <1>2
  <2> QED BY <1>1, <1>4, <1>5, <1>6, <2>1 DEF IInv, ManagerInv, Undisturbed
<1>8. Rooted'
  BY <1>6, ProcNumbers DEF Rooted
<1> QED BY <1>4, <1>7, <1>8, RootedNext

\* What leaves the manager what it has leaves its sessions rooted.
LEMMA UndisturbedStep ==
  ASSUME IInv, IpcInv', Undisturbed, ~oops, UNCHANGED managerVars
  PROVE  IInv'
<1>1. UNCHANGED <<sessions, registered, answer>>
  BY DEF managerVars
<1>2. ManagerInv'
  BY <1>1 DEF IInv, ManagerInv, Undisturbed
<1>3. Rooted'
  <2> SUFFICES ASSUME NEW p \in Proc, NEW s \in Session, sessions'[s] = p PROVE IsRooted(p)'
    BY DEF Rooted
  <2>1. IsRooted(p)
    BY <1>1, RootedNow DEF Rooted
  <2> QED BY <1>1, <2>1 DEF IsRooted, Undisturbed
<1> QED BY <1>2, <1>3, RootedNext

LEMMA ReplyStep == ASSUME IInv, Reply PROVE IInv'
<1> DEFINE bd == [flag |-> answer, permissions |-> {}]
<1>1. /\ answer \in {"NONE", "BIND"} /\ Manager \in alive /\ ~oops
      /\ UNCHANGED <<sessions, registered>>
      /\ \/ Answer(Manager, bd) /\ answer' = "none"
         \/ answer' = "fug" /\ UNCHANGED ipcVars
  BY DEF Reply, Runs
<1>2. CASE answer' = "fug" /\ UNCHANGED ipcVars
  <2>1. IpcInv'
    BY <1>2, StutterKeeps DEF IInv, ipcVars
  <2>2. ManagerInv'
    BY <1>1, <1>2, ReceivesSame DEF IInv, ManagerInv, ipcVars
  <2>3. Rooted'
    BY <1>2 DEF Rooted, IsRooted
  <2> QED BY <2>1, <2>2, <2>3, RootedNext
<1>3. CASE Answer(Manager, bd) /\ answer' = "none"
  <2>1. bd.flag = answer /\ bd.flag \in Flag /\ bd.flag # "UNBIND"
    BY <1>1 DEF Flag
  <2> HIDE DEF bd
  <2>2. /\ IpcInv' /\ UNCHANGED <<alive, ipcListenerRegister>> /\ hand[Manager].from \in alive
        /\ \A q \in Proc : Announces(runLoop[Manager], q) => Announces(runLoop'[Manager], q)
        /\ \A a \in Proc : Bindings(a, Manager) # {} => Bindings(a, Manager)' # {}
        /\ \A a \in Proc : a = hand[Manager].from /\ bd.flag = "BIND" => Bindings(a, Manager)' # {}
    BY <1>3, <2>1, ProcNumbers, AnswerKeeps DEF IInv
  <2>3. ManagerInv'
    BY <1>1, <1>3, <2>2, ReceivesSame DEF IInv, ManagerInv
  <2>4. Rooted'
    <3> SUFFICES ASSUME NEW p \in Proc, NEW s \in Session, sessions'[s] = p PROVE IsRooted(p)'
      BY DEF Rooted
    <3>1. IsRooted(p)
      BY <1>1, RootedNow DEF Rooted
    <3> QED BY <1>1, <2>1, <2>2, <3>1 DEF IsRooted
  <2> QED BY <2>2, <2>3, <2>4, RootedNext
<1> QED BY <1>1, <1>2, <1>3

LEMMA ReturnsStep == ASSUME IInv, Returns PROVE IInv'
<1>1. /\ answer = "return" /\ Return(Manager) /\ answer' = "none" /\ ~oops
      /\ UNCHANGED <<sessions, registered>>
  BY DEF Returns, Return, Runs
<1>2. IpcInv' /\ runLoop' = runLoop /\ UNCHANGED <<alive, bindings, ipcListenerRegister, oops>>
  BY <1>1, ProcNumbers, ReturnKeeps DEF IInv
<1>3. ManagerInv'
  BY <1>1, <1>2, ReceivesSame DEF IInv, ManagerInv
<1>4. Rooted'
  <2> SUFFICES ASSUME NEW p \in Proc, NEW s \in Session, sessions'[s] = p PROVE IsRooted(p)'
    BY DEF Rooted
  <2>1. IsRooted(p)
    BY <1>1, RootedNow DEF Rooted
  <2>2. Bindings(p, Manager)' = Bindings(p, Manager)
    BY <1>2, BindingsSame
  <2> QED BY <1>1, <1>2, <2>1, <2>2 DEF IsRooted
<1> QED BY <1>2, <1>3, <1>4, RootedNext

LEMMA FugStep == ASSUME IInv, Fug PROVE IInv'
<1>1. /\ k_scr_usr_bye(Manager) /\ answer' = "none" /\ registered' = 0
      /\ sessions' = [s \in Session |-> NONE]
  BY DEF Fug
<1>2. IpcInv'
  BY <1>1, ProcNumbers, ByeKeeps DEF IInv
<1>3. ManagerInv'
  BY <1>1, NumberOfListeners DEF ManagerInv
<1>4. Rooted'
  BY <1>1, ProcNumbers DEF Rooted
<1> QED BY <1>2, <1>3, <1>4, RootedNext

\* The end of an application that is bound to the manager is announced to it, and
\* one that waits for the manager's reply does not end.
LEMMA ByeStep ==
  ASSUME IInv, NEW p \in Application, Bye(p), UNCHANGED managerVars
  PROVE  IInv'
<1>1. p \in Proc /\ p # Manager /\ Manager \in Proc
  BY ProcNumbers DEF Application
<1>2. /\ k_scr_usr_bye(p) /\ ~oops /\ p \notin waiting /\ UNCHANGED <<sessions, registered, answer>>
  BY DEF Bye, k_scr_usr_bye, Runs, managerVars
<1>3. /\ IpcInv' /\ alive' = alive \ {p}
      /\ hand'[Manager].from = hand[Manager].from /\ hand'[Manager].token = hand[Manager].token
      /\ \A q \in Proc : Announces(runLoop[Manager], q) => Announces(runLoop'[Manager], q)
      /\ p \in Knows(Manager) => Announces(runLoop'[Manager], p)
      /\ receivesKernelNotifications(Manager) => receivesKernelNotifications(Manager)'
      /\ \A q \in Proc : q # p /\ Bindings(q, Manager) # {} => Bindings(q, Manager)' # {}
  BY <1>1, <1>2, ByeKeeps DEF IInv
<1>4. ManagerInv'
  BY <1>2, <1>3 DEF IInv, ManagerInv
<1>5. Rooted'
  <2> SUFFICES ASSUME NEW q \in Proc, NEW s \in Session, sessions'[s] = q PROVE IsRooted(q)'
    BY DEF Rooted
  <2>1. IsRooted(q) /\ sessions[s] = q
    BY <1>2, RootedNow DEF Rooted
  <2>2. CASE Announces(runLoop[Manager], q) \/ answer = "fug"
    BY <1>2, <1>3, <2>2 DEF IsRooted
  <2>3. CASE q # p
    BY <1>2, <1>3, <2>1, <2>3 DEF IsRooted
  <2>4. CASE q = p /\ Bindings(p, Manager) # {}
    <3>1. receivesKernelNotifications(Manager)
      BY <1>2, <2>1, NumberOfListeners, ProcNumbers DEF IInv, ManagerInv
    <3>2. p \in Knows(Manager)
      BY <1>1, <2>4, <3>1, NotifiableIfTold DEF Knows
    <3> QED BY <1>3, <2>4, <3>2 DEF IsRooted
  <2>5. CASE q = p /\ answer = "BIND" /\ hand[Manager].from = p
    <3>1. hand[Manager].token # NoToken
      BY <2>5 DEF IInv, ManagerInv
    <3>2. runLoop[Manager] \in Seq(Mail)
      BY ProcNumbers DEF IInv, IpcInv, BoxIsSound
    <3>3. 0 \in Position(runLoop[Manager]) /\ Item(hand[Manager], runLoop[Manager], 0) = hand[Manager]
      BY <3>2 DEF Position, Item
    <3>4. hand[Manager].from \in waiting
      BY <1>1, <3>1, <3>3, QuerierWaits DEF IInv
    <3> QED BY <1>2, <2>5, <3>4
  <2> QED BY <2>1, <2>2, <2>3, <2>4, <2>5 DEF IsRooted
<1> QED BY <1>3, <1>4, <1>5, RootedNext

LEMMA ApplicationStep ==
  ASSUME IInv, UNCHANGED managerVars,
         \/ StartApplication
         \/ \E p \in Application :
              ApplicationRegisters(p) \/ Send(p) \/ Take(p) \/ Answers(p) \/ Return(p) \/ Bye(p)
  PROVE  IInv'
<1>0. IpcInv
  BY DEF IInv
<1>1. CASE StartApplication
  <2>1. PICK p \in Application : Start(p)
    BY <1>1 DEF StartApplication
  <2>2. IpcInv' /\ Undisturbed /\ ~oops
    BY <1>0, <2>1, StartKeeps DEF Application, Start
  <2> QED BY <2>2, UndisturbedStep
<1>2. ASSUME NEW p \in Application,
             ApplicationRegisters(p) \/ Send(p) \/ Take(p) \/ Answers(p) \/ Return(p) \/ Bye(p)
      PROVE  IInv'
  <2>0. p \in Proc /\ p # Manager
    BY DEF Application
  <2>1. CASE ApplicationRegisters(p)
    <3>1. PICK r \in Registration :
            k_scr_usr_ipcRegister(p, r.path, r.bindingRequired, r.permissionMask)
      BY <2>1 DEF ApplicationRegisters
    <3>2. r.path \in Path /\ r.bindingRequired \in BOOLEAN
      BY DisplaysAssumption, Zenon
    <3>3. IpcInv' /\ Undisturbed /\ ~oops
      BY <1>0, <2>0, <3>1, <3>2, RegisterKeeps
    <3> QED BY <3>3, UndisturbedStep
  <2>2. CASE Send(p)
    <3>1. PICK q \in Query : k_scr_usr_ipcSend(p, q)
      BY <2>2 DEF Send
    <3>2. q.path \in Path /\ q.bindData.flag \in Flag
      BY DisplaysAssumption, Zenon
    <3>3. IpcInv' /\ Undisturbed
      BY <1>0, <2>0, <3>1, <3>2, SendKeeps
    <3>4. ~oops
      BY <3>1 DEF k_scr_usr_ipcSend, Runs
    <3> QED BY <3>3, <3>4, UndisturbedStep
  <2>3. CASE Take(p)
    <3>1. IpcInv' /\ Undisturbed
      BY <1>0, <2>0, <2>3, TakeKeeps
    <3>2. ~oops
      BY <2>3 DEF Take, Runs
    <3> QED BY <3>1, <3>2, UndisturbedStep
  <2>4. CASE Answers(p)
    <3>1. PICK b \in BindData : Answer(p, [flag |-> b.flag, permissions |-> b.permissions])
      BY <2>4 DEF Answers
    <3> DEFINE bd == [flag |-> b.flag, permissions |-> b.permissions]
    <3>2. bd.flag \in Flag
      BY DisplaysAssumption, Zenon
    <3>3. Answer(p, bd)
      BY <3>1
    <3> HIDE DEF bd
    <3>4. IpcInv' /\ Undisturbed
      BY <1>0, <2>0, <3>2, <3>3, AnswerKeeps
    <3>5. ~oops
      BY <3>3 DEF Answer, Runs
    <3> QED BY <3>4, <3>5, UndisturbedStep
  <2>5. CASE Return(p)
    <3>1. IpcInv' /\ Undisturbed
      BY <1>0, <2>0, <2>5, ReturnKeeps
    <3>2. ~oops
      BY <2>5 DEF Return, Runs
    <3> QED BY <3>1, <3>2, UndisturbedStep
  <2>6. CASE Bye(p)
    BY <2>6, ByeStep
  <2> QED BY <1>2, <2>1, <2>2, <2>3, <2>4, <2>5, <2>6
<1> QED BY <1>1, <1>2

LEMMA InitSound == ASSUME Init PROVE IInv
<1>1. /\ ipcListenerRegister = [i \in 0 .. MAX_IPC_LISTENER - 1 |-> NoListener]
      /\ ipcReplyRegister = [t \in Token |-> NoReply] /\ bindings = [i \in Slot |-> NoBinding]
      /\ alive = {Manager} /\ waiting = {}
      /\ runLoop = [p \in Proc |-> <<>>] /\ hand = [p \in Proc |-> Nothing]
      /\ sessions = [s \in Session |-> NONE] /\ registered = 0 /\ answer = "none"
  BY DEF Init, k_ipc_init, Slot
<1>2. TablesTyped
  BY <1>1, ProcNumbers DEF TablesTyped, NoReply, Reply0
<1>3. /\ \A i \in 0 .. MAX_IPC_LISTENER - 1 : ListenerIsSound(i)
      /\ \A t \in Token : ReplyIsSound(t)
  BY <1>1 DEF ListenerIsSound, ReplyIsSound
<1>4. \A p \in Proc : BoxIsSound(hand[p], runLoop[p], p, ipcReplyRegister, Knows(p))
  BY <1>1, BoxEmpty
<1>5. IpcInv
  BY <1>1, <1>2, <1>3, <1>4 DEF IpcInv
<1>6. ManagerInv /\ SessionIsAnnounced
  BY <1>1, NumberOfListeners DEF ManagerInv, SessionIsAnnounced
<1> QED BY <1>5, <1>6 DEF IInv

\* What the kernel keeps of messages, replies and bindings, and what the display
\* manager keeps on top of it, stays sound whatever the applications do.
THEOREM TablesStaySound == Spec => []IInv
<1>1. Init => IInv
  BY InitSound
<1>2. IInv /\ [Next]_vars => IInv'
  <2> SUFFICES ASSUME IInv, [Next]_vars PROVE IInv'
    OBVIOUS
  <2>1. CASE Register
    BY <2>1, RegisterStep
  <2>2. CASE TakeInconsistent \/ GetDisplay \/ AttachToDisplay \/ PushFrame \/ OnSessionDestroy
    BY <2>2, TakeStep
  <2>3. CASE Reply
    BY <2>3, ReplyStep
  <2>4. CASE Returns
    BY <2>4, ReturnsStep
  <2>5. CASE Fug
    BY <2>5, FugStep
  <2>6. CASE /\ \/ StartApplication
                \/ \E p \in Application :
                     ApplicationRegisters(p) \/ Send(p) \/ Take(p) \/ Answers(p) \/ Return(p) \/ Bye(p)
             /\ UNCHANGED managerVars
    BY <2>6, ApplicationStep
  <2>7. CASE UNCHANGED vars
    <3>1. IpcInv'
      BY <2>7, StutterKeeps DEF IInv, vars, ipcVars
    <3>2. ManagerInv'
      BY <2>7, ReceivesSame DEF IInv, ManagerInv, vars, ipcVars, managerVars
    <3>3. Rooted'
      <4>1. Rooted
        BY RootedNow
      <4> QED BY <2>7, <4>1 DEF Rooted, IsRooted, Bindings, vars, ipcVars, managerVars
    <3> QED BY <3>1, <3>2, <3>3, RootedNext
  <2> QED BY <2>1, <2>2, <2>3, <2>4, <2>5, <2>6, <2>7 DEF Next
<1> QED BY <1>1, <1>2, PTL DEF Spec

\* A session belongs to the process that attached to the display, and not to another
\* one that was given its identifier: as long as the session is there, the process
\* is bound to the manager or its end is announced to it (display_sessionDestroy).
THEOREM SessionsAreAnnounced == Spec => []SessionIsAnnounced
<1>1. IInv => SessionIsAnnounced
  BY DEF IInv
<1> QED BY <1>1, TablesStaySound, PTL

\* Nobody waits in vain: whoever k_ipc_send has locked is owed one reply, by a process
\* that is there and has the query, and no reply is owed for another one.
THEOREM RepliesAreOwed == Spec => []EveryReplyIsOwed
<1>1. IInv => EveryReplyIsOwed
  <2> SUFFICES ASSUME IpcInv PROVE EveryReplyIsOwed
    BY DEF IInv
  <2>0. \A p \in Proc : BoxIsSound(hand[p], runLoop[p], p, ipcReplyRegister, Knows(p))
    BY DEF IpcInv
  <2>1. ASSUME NEW p \in Proc
        PROVE  Cardinality({t \in Token : ipcReplyRegister[t].senderProcId = p})
                 = IF p \in waiting THEN 1 ELSE 0
    <3> DEFINE tokens == {t \in Token : ipcReplyRegister[t].senderProcId = p}
    <3>1. CASE p \in waiting
      <4>1. PICK t \in Token : ipcReplyRegister[t].senderProcId = p
        BY <3>1 DEF IpcInv
      <4>2. ReplyIsSound(t) /\ ipcReplyRegister[t] # NoReply
        BY <4>1, ProcNumbers DEF IpcInv, NoReply
      <4>3. \A u \in Token : ipcReplyRegister[u].senderProcId = p => u = t
        BY <4>1, <4>2 DEF ReplyIsSound
      <4>4. tokens = {t}
        BY <4>1, <4>3
      <4> QED BY <3>1, <4>4, FS_Singleton
    <3>2. CASE p \notin waiting
      <4>1. \A t \in Token : ipcReplyRegister[t].senderProcId # p
        BY <3>2, OwedWaits, ProcNumbers
      <4>2. tokens = {}
        BY <4>1
      <4> QED BY <3>2, <4>2, FS_EmptySet
    <3> QED BY <3>1, <3>2
  <2>2. ASSUME NEW t \in Token, ipcReplyRegister[t] # NoReply
        PROVE  LET h == ipcReplyRegister[t].handlerProcId IN h \in alive /\ Holds(h, t)
    <3> DEFINE h == ipcReplyRegister[t].handlerProcId
    <3>1. h \in alive /\ Has(hand[h], runLoop[h], t)
      BY <2>2 DEF IpcInv, ReplyIsSound
    <3>2. h \in Proc
      BY <3>1 DEF IpcInv, TablesTyped
    <3> HIDE DEF h
    <3>3. runLoop[h] \in Seq(Mail)
      BY <2>0, <3>2 DEF BoxIsSound
    <3>4. Holds(h, t)
      BY <3>1, <3>3 DEF Has, Holds, Position, Item
    <3> QED BY <3>1, <3>4 DEF h
  <2>3. ASSUME NEW p \in Proc, NEW m \in {hand[p]} \cup ToSet(runLoop[p]), m.token # NoToken
        PROVE  ipcReplyRegister[m.token] = [senderProcId |-> m.from, handlerProcId |-> p]
    <3>1. runLoop[p] \in Seq(Mail)
      BY <2>0 DEF BoxIsSound
    <3>2. PICK i \in Position(runLoop[p]) : m = Item(hand[p], runLoop[p], i)
      <4>1. CASE m = hand[p]
        <5>1. 0 \in Position(runLoop[p]) /\ Item(hand[p], runLoop[p], 0) = hand[p]
          BY <3>1 DEF Position, Item
        <5> QED BY <4>1, <5>1
      <4>2. CASE m \in ToSet(runLoop[p])
        BY <3>1, <4>2 DEF Position, Item, ToSet
      <4> QED BY <4>1, <4>2
    <3>3. IsOwed(m, p, ipcReplyRegister)
      BY <2>0, <3>2 DEF BoxIsSound
    <3> QED BY <2>3, <3>3 DEF IsOwed
  <2> QED BY <2>1, <2>2, <2>3 DEF EveryReplyIsOwed
<1> QED BY <1>1, TablesStaySound, PTL

\* No process is taken for another one with its identifier: what is left of one that
\* is gone (k_ipc_procCleanup) is read before the notice of its end.
THEOREM EndsAreAnnounced == Spec => []GoneIsAnnounced
<1>1. IInv => GoneIsAnnounced
  <2> SUFFICES ASSUME IpcInv PROVE GoneIsAnnounced
    BY DEF IInv
  <2>1. ASSUME NEW p \in alive
        PROVE  /\ runLoop[p] \in Seq(Mail)
               /\ \A i \in Position(runLoop[p]) :
                    IsFollowed(Item(hand[p], runLoop[p], i), runLoop[p], i)
    BY DEF IpcInv, TablesTyped, BoxIsSound
  <2>2. ASSUME NEW p \in alive, hand[p].bound, hand[p].fate = "gone"
        PROVE  Notice(hand[p].from) \in ToSet(runLoop[p])
    <3>1. 0 \in Position(runLoop[p]) /\ Item(hand[p], runLoop[p], 0) = hand[p]
      BY <2>1 DEF Position, Item
    <3>2. IsFollowed(Item(hand[p], runLoop[p], 0), runLoop[p], 0)
      BY <2>1, <3>1
    <3>3. \E j \in 1 .. Len(runLoop[p]) : runLoop[p][j] = Notice(hand[p].from)
      BY <2>2, <3>1, <3>2 DEF IsFollowed
    <3> QED BY <2>1, <3>3 DEF ToSet
  <2>3. ASSUME NEW p \in alive, NEW i \in DOMAIN runLoop[p],
               runLoop[p][i].bound, runLoop[p][i].fate = "gone"
        PROVE  \E j \in i + 1 .. Len(runLoop[p]) : runLoop[p][j] = Notice(runLoop[p][i].from)
    <3>1. i \in Position(runLoop[p]) /\ Item(hand[p], runLoop[p], i) = runLoop[p][i]
      BY <2>1 DEF Position, Item
    <3> QED BY <2>1, <2>3, <3>1 DEF IsFollowed
  <2> QED BY <2>2, <2>3 DEF GoneIsAnnounced
<1> QED BY <1>1, TablesStaySound, PTL

=============================================================================
