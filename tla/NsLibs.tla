------------------------------- MODULE NsLibs -------------------------------
(***************************************************************************)
(* The library bases: libs_up(), libs_down() and nshttp_shutdown() of      *)
(* src/nshttp.c, open_libs(), AGUI_Open() and AGUI_Close() of agui.c.      *)
(* Both files define UtilityBase, and linked together they share it.       *)
(* A module of operators.                                                  *)
(*                                                                         *)
(*   users                nshttp_users                                     *)
(*   sock, master, ssl    SocketBase, AmiSSLMasterBase, amissl_up          *)
(*   base                 is UtilityBase set?                              *)
(*   utility              how often utility.library is open                *)
(*   windows, locks       agui_libs_users, and locks of the public screen  *)
(***************************************************************************)
EXTENDS Integers

AllLibs == {"socket", "master", "amissl"}

LibsClosed == [users |-> 0, sock |-> FALSE, master |-> FALSE, ssl |-> FALSE,
               base |-> FALSE, utility |-> 0, windows |-> 0, locks |-> 0]

(***************************************************************************)
(* nshttp.c.  have is what OpenLibrary() and OpenAmiSSLTags() find.        *)
(***************************************************************************)
Survived(l) == l.users > 0 \/ l.sock

LibsUp(l, tls, have) ==
  IF Survived(l) THEN [l EXCEPT !.users = @ + 1]
  ELSE [l EXCEPT !.users = @ + 1, !.base = TRUE, !.utility = @ + 1,
                 !.sock = "socket" \in have,
                 !.master = tls /\ {"socket", "master"} \subseteq have,
                 !.ssl = tls /\ AllLibs \subseteq have]

LibsWork(l, tls, have) ==
  Survived(l) \/ ("socket" \in have /\ (tls => AllLibs \subseteq have))

LibsDown(l) == [l EXCEPT !.users = IF @ > 0 THEN @ - 1 ELSE 0]

\* nshttp_open(): the handle, or the use taken back.
OpenedKeepsUse(l, tls, have) == LibsUp(l, tls, have)  \* Mutant: not taken back
Opened(l, tls, have) ==
  IF LibsWork(l, tls, have) THEN LibsUp(l, tls, have) ELSE LibsDown(LibsUp(l, tls, have))

\* SSL_CTX_new() is called through a base that was never opened.
WildCall(l, tls) == tls /\ Survived(l) /\ ~l.ssl

Shutdown(l) ==
  [l EXCEPT !.sock = FALSE, !.master = FALSE, !.ssl = FALSE, !.base = FALSE,
            !.utility = IF l.base THEN @ - 1 ELSE @]

(***************************************************************************)
(* agui.c.  stage is where AGUI_Open() fails: it goes through them all.    *)
(***************************************************************************)
OpenStages == <<"libs", "memory", "screen", "visual", "window", "gadgets">>
Reached(stage, n) == \E i \in n..6 : OpenStages[i] = stage

DropLibs(l) == [l EXCEPT !.base = FALSE, !.utility = IF l.base THEN @ - 1 ELSE @]
OpenLibs(l) ==
  IF l.windows > 0 THEN [l EXCEPT !.windows = @ + 1]
  ELSE [l EXCEPT !.windows = 1, !.base = TRUE, !.utility = @ + 1]

CloseLibs(l) ==
  IF l.windows <= 0 THEN l
  ELSE IF l.windows = 1 THEN DropLibs([l EXCEPT !.windows = 0])
  ELSE [l EXCEPT !.windows = @ - 1]

\* The lock is given back once the window is open, which holds the screen.
AguiOpen(l) == OpenLibs(l)
AguiClose(l) == CloseLibs(l)

UnlockedTwice(l, stage) ==  \* Mutant: AGUI_Close() unlocks in any case
  IF stage = "libs" THEN l
  ELSE [CloseLibs(OpenLibs(l)) EXCEPT
          !.locks = @ + (IF Reached(stage, 4) THEN 1 ELSE 0)
                      - (IF Reached(stage, 6) THEN 1 ELSE 0) - 1]

\* AGUI_Open() gives up: AGUI_Close() returns what the stages before took.
AguiFails(l, stage) ==
  IF stage = "libs" THEN DropLibs([OpenLibs(l) EXCEPT !.windows = 0])
  ELSE LET locked == IF Reached(stage, 4) THEN 1 ELSE 0  \* LockPubScreen()
           window == IF Reached(stage, 6) THEN 1 ELSE 0  \* and unlocked again
       IN [CloseLibs(OpenLibs(l)) EXCEPT
             !.locks = @ + locked - window - (IF locked > window THEN 1 ELSE 0)]
=============================================================================
