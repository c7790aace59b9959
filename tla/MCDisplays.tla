----------------------------- MODULE MCDisplays -----------------------------
(***************************************************************************)
(* The display manager, a terminal that other processes write to and that  *)
(* calls back who has bound it, and a shell.                               *)
(***************************************************************************)
EXTENDS Displays

Terminal == 1
Shell == 2

Characters == {"d", "m", "g", "a", "p", "i", "c", "s", "t", "0", "e"}
Write == <<"t", "0">>
Event == <<":", "/", "e">>

R(p, path, bindingRequired, mask) ==
  [procId |-> p, path |-> path, bindingRequired |-> bindingRequired, permissionMask |-> mask]
Registrations ==
  {R(Terminal, Write, FALSE, {}), R(Shell, SessionDestroyed, FALSE, {}),
   R(Shell, Event, TRUE, {"event"})}

Bind(flag, permissions) == [flag |-> flag, permissions |-> permissions]
Q(p, path, target, bytes, bindData) ==
  [sender |-> p, path |-> path, procId |-> target, replyBytes |-> bytes, bindData |-> bindData]
NoBind == Bind("NONE", {})

Queries ==
  {Q(Terminal, DISPMGR_PATH_GET, NONE, 1, NoBind), Q(Terminal, Event, Shell, 0, NoBind),
   Q(Shell, DISPMGR_PATH_ATTACH, NONE, 1, NoBind), Q(Shell, DISPMGR_PATH_PUSH, NONE, 1, NoBind),
   Q(Shell, <<"d", "m">>, NONE, 1, NoBind),
   Q(Shell, Write, NONE, 1, Bind("BIND", {"event"})), Q(Shell, Write, NONE, 1, Bind("UPDATE", {})),
   Q(Shell, Write, NONE, 0, Bind("UNBIND", {}))}

Answered == {[procId |-> Terminal, flag |-> "NONE", permissions |-> {}]}
=============================================================================
