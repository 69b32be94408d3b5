---------------------------- MODULE NsAppProofs ----------------------------
(***************************************************************************)
(* Proofs about the program, for all files, texts, folders and limits: the *)
(* windows and the sync keep out of each other's way, Cancel restores, a   *)
(* sync is not disturbed and stops, the return code is honest, the         *)
(* libraries are open while a handle or a window needs them, and closed at *)
(* the end, whatever fails to open in between; and about gadgets: the edit *)
(* hook keeps the password that is typed behind the asterisks, and the     *)
(* Sync button is enabled when there is something to sync.                 *)
(***************************************************************************)
EXTENDS NsApp, SequenceTheorems, FiniteSetTheorems, TLAPS

(***************************************************************************)
(* The invariant of the control: who may run while what is open.           *)
(***************************************************************************)
WindowType == [open : BOOLEAN, done : BOOLEAN, pump : BOOLEAN, queue : Seq(Messages)]

ControlTypes ==
  /\ win \in [Windows -> WindowType]
  /\ main \in {"off", "first", "gui", "prefs", "cli", "list", "exit"}
  /\ job \in {"off", "pair", "scan", "items", "flight", "listing"}
  /\ cb \in {"none", "file", "scan", "flight"}
  /\ busy \in BOOLEAN /\ abort \in BOOLEAN /\ connecting \in BOOLEAN

\* The main window is open under "gui" only; a dialog comes before it, over
\* it, or in its place.
Places ==
  /\ win["main"].open => main = "gui"
  /\ win["prefs"].open =>
       main \in {"first", "prefs"} \/ (main = "gui" /\ win["main"].open)
  /\ connecting => win["prefs"].open

\* A sync of the window runs inside its handler and leaves no room for a
\* dialog; one of the shell has no windows.
Running ==
  /\ busy => /\ main = "gui" /\ win["main"].open /\ win["main"].pump
             /\ ~win["prefs"].open
  /\ job = "listing" => main = "list" /\ ~busy
  /\ job \notin {"off", "listing"} => busy \/ main = "cli"
  /\ busy => job \notin {"off", "listing"}

\* Abort belongs to a sync, and on the command line it ends it.
Aborting ==
  /\ abort /\ main # "cli" => busy
  /\ abort /\ main = "cli" => job = "pair"
  /\ main = "cli" => cb = "none"
  /\ cb # "none" => busy

Control == ControlTypes /\ Places /\ Running /\ Aborting

(***************************************************************************)
(* Windows                                                                 *)
(***************************************************************************)
\* Messages come and go, the loop may be told to end; nothing opens or shuts.
Standing ==
  /\ win' \in [Windows -> WindowType]
  /\ \A w \in Windows : win'[w].open = win[w].open /\ win'[w].pump = win[w].pump

\* Reading a message.
LEMMA ReadStands ==
  ASSUME ControlTypes, NEW w \in Windows, win[w].queue # <<>>,
         win' = Read(w) \/ win' = ReadAndQuit(w)
  PROVE  Standing
<1>1. win[w] \in WindowType /\ Tail(win[w].queue) \in Seq(Messages)
  BY HeadTailProperties DEF ControlTypes, WindowType
<1> HIDE DEF Messages
<1>2. CASE win' = Read(w)
  BY <1>1, <1>2 DEF ControlTypes, Standing, Read, WindowType
<1>3. CASE win' = ReadAndQuit(w)
  BY <1>1, <1>3 DEF ControlTypes, Standing, ReadAndQuit, WindowType
<1> QED BY <1>2, <1>3

\* A handler reads the message it is for.
LEMMA Reading ==
  ASSUME ControlTypes, NEW w \in Windows, NEW type, Receives(w, type),
         win' = Read(w) \/ win' = ReadAndQuit(w)
  PROVE  Standing
<1> QED BY ReadStands DEF Receives

\* A click adds a message.
LEMMA ClickStands ==
  ASSUME ControlTypes, NEW w \in Windows, NEW m \in Messages, Click(w, m)
  PROVE  Standing
<1>1. win[w] \in WindowType /\ Append(win[w].queue, m) \in Seq(Messages)
  BY AppendProperties DEF ControlTypes, WindowType
<1>2. win' = [win EXCEPT ![w].queue = Append(@, m)]
  BY DEF Click
<1> QED BY <1>1, <1>2 DEF ControlTypes, Standing, WindowType

\* What only reads messages or changes other things does not disturb.
LEMMA StillControl ==
  ASSUME Control, Standing, UNCHANGED <<main, busy, abort, job, cb>>,
         connecting' \in BOOLEAN, connecting' => win["prefs"].open
  PROVE  Control'
<1>1. \A w \in Windows : win'[w].open = win[w].open /\ win'[w].pump = win[w].pump
  BY DEF Standing
<1>2. "main" \in Windows /\ "prefs" \in Windows
  BY DEF Windows
<1>3. ControlTypes'
  BY DEF Control, ControlTypes, Standing
<1>4. Places' /\ Running' /\ Aborting'
  BY <1>1, <1>2 DEF Control, Places, Running, Aborting
<1> QED BY <1>3, <1>4 DEF Control

(***************************************************************************)
(* Control is kept: one lemma per part of Next                             *)
(***************************************************************************)
\* What users do, and a machine that goes down.
LEMMA UserControl ==
  ASSUME Control, User \/ Crash \/ SaveCut \/ WildOpen
  PROVE  Control'
<1>1. CASE \E c \in {"gui", "prefs", "cli", "list"} : Start(c)
  <2>1. PICK c \in {"gui", "prefs", "cli", "list"} : Start(c)
    BY <1>1
  <2>2. /\ main = "off" /\ main' \in {"first", "gui", "prefs", "cli", "list", "exit"}
        /\ UNCHANGED <<win, busy, abort, job, cb, connecting>>
    BY <2>1 DEF Start, syncv, dialog
  <2> QED BY <2>2 DEF Control, ControlTypes, Places, Running, Aborting
<1>2. CASE ClickMain \/ ClickPrefs
  <2>1. \E w \in Windows, m \in Messages : Click(w, m)
    <3>1. "main" \in Windows /\ "prefs" \in Windows
      BY DEF Windows
    <3>2. CASE ClickMain
      BY <3>1, <3>2 DEF ClickMain, Msg, Messages
    <3>3. CASE ClickPrefs
      <4>1. \A type \in {"cancel", "browse", "size", "left", "connect", "save", "row"},
              row \in Nat :
              (type = "row" => row > 0) => Msg(type, row) \in Messages
        BY DEF Msg, Messages
      <4>2. \/ \E type \in {"cancel", "browse", "size", "left", "connect", "save"} :
                Click("prefs", Msg(type, 0))
            \/ \E row \in Nat : row > 0 /\ Click("prefs", Msg("row", row))
        BY <3>3 DEF ClickPrefs
      <4> QED BY <3>1, <4>1, <4>2
    <3> QED BY <1>2, <3>2, <3>3
  <2>2. PICK w \in Windows, m \in Messages : Click(w, m)
    BY <2>1
  <2>3. Standing
    BY <2>2, ClickStands DEF Control
  <2>4. UNCHANGED <<main, busy, abort, job, cb, connecting>>
    BY <2>2 DEF Click, proc, syncv, dialog
  <2> QED BY <2>3, <2>4, StillControl DEF Control, ControlTypes, Places
<1>3. CASE TypeIn \/ CtrlC
  <2>1. UNCHANGED <<win, main, busy, abort, job, cb, connecting>>
    BY <1>3 DEF TypeIn, CtrlC, proc, syncv, dialog
  <2> QED BY <2>1 DEF Control, ControlTypes, Places, Running, Aborting
<1>4. CASE Crash \/ SaveCut \/ WildOpen
  <2>1. main' = "off" /\ Gone
    BY <1>4 DEF Crash, SaveCut, WildOpen
  <2>2. NoWindow \in WindowType
    BY EmptySeq DEF NoWindow, WindowType
  <2>3. ControlTypes'
    BY <2>1, <2>2 DEF ControlTypes, Gone, SyncIdle, DialogClosed
  <2>4. Places' /\ Running' /\ Aborting'
    BY <2>1 DEF Places, Running, Aborting, Gone, SyncIdle, DialogClosed, NoWindow, Windows
  <2> QED BY <2>3, <2>4 DEF Control
<1> QED BY <1>1, <1>2, <1>3, <1>4 DEF User

\* The event loop.
LEMMA LoopControl ==
  ASSUME Control, Loop
  PROVE  Control'
<1>1. CASE \E w \in Windows : Wake(w)
  <2>1. PICK w \in Windows : Wake(w)
    BY <1>1
  <2>2. /\ win' = [win EXCEPT ![w].pump = TRUE]
        /\ UNCHANGED <<main, busy, abort, job, cb, connecting>>
    BY <2>1 DEF Wake, proc, syncv, dialog
  <2>3. ControlTypes'
    BY <2>2 DEF Control, ControlTypes, WindowType
  <2>4. Places' /\ Running' /\ Aborting'
    BY <2>2 DEF Control, ControlTypes, WindowType, Places, Running, Aborting, Windows
  <2> QED BY <2>3, <2>4 DEF Control
<1>2. CASE \E w \in Windows : Break(w)
  <2>1. PICK w \in Windows : Break(w)
    BY <1>2
  <2>2. /\ win' = [win EXCEPT ![w].done = TRUE]
        /\ UNCHANGED <<main, busy, abort, job, cb, connecting>>
    BY <2>1 DEF Break, syncv, dialog
  <2>3. Standing
    BY <2>2 DEF Control, ControlTypes, WindowType, Standing
  <2> QED BY <2>2, <2>3, StillControl DEF Control, ControlTypes, Places
<1>3. CASE \E w \in Windows : PumpEnds(w)
  <2>1. PICK w \in Windows : PumpEnds(w)
    BY <1>3
  <2>2. /\ win' = [win EXCEPT ![w].pump = FALSE] /\ ~busy
        /\ UNCHANGED <<main, busy, abort, job, cb, connecting>>
    BY <2>1 DEF PumpEnds, Listening, proc, syncv, dialog, Windows, Control, Running
  <2>3. ControlTypes'
    BY <2>2 DEF Control, ControlTypes, WindowType
  <2>4. Places' /\ Running' /\ Aborting'
    BY <2>2 DEF Control, ControlTypes, WindowType, Places, Running, Aborting, Windows
  <2> QED BY <2>3, <2>4 DEF Control
<1>4. CASE Resize
  <2>1. Standing
    BY <1>4, Reading DEF Resize, Control, Windows
  <2>2. UNCHANGED <<main, busy, abort, job, cb, connecting>>
    BY <1>4 DEF Resize, proc, syncv
  <2> QED BY <2>1, <2>2, StillControl DEF Control, ControlTypes, Places
<1> QED BY <1>1, <1>2, <1>3, <1>4 DEF Loop

\* A dialog opens only where no other is open and no sync runs.
LEMMA OpensControl ==
  ASSUME Control, ~busy, ~win["prefs"].open,
         NEW w, w = win \/ (w = Read("main") /\ win["main"].queue # <<>>),
         main \in {"first", "prefs"} \/ (main = "gui" /\ win["main"].open),
         DialogOpens(w), UNCHANGED <<main, busy, abort, job, cb>>
  PROVE  Control'
<1>1. /\ w \in [Windows -> WindowType]
      /\ \A v \in Windows : w[v].open = win[v].open /\ w[v].pump = win[v].pump
  <2>1. win["main"] \in WindowType
    BY DEF Control, ControlTypes, Windows
  <2>2. w # win => Tail(win["main"].queue) \in Seq(Messages)
    BY <2>1, HeadTailProperties DEF WindowType
  <2> HIDE DEF Messages
  <2> QED BY <2>2 DEF Control, ControlTypes, WindowType, Read
<1>2. NewWindow \in WindowType /\ NewWindow.open
  BY EmptySeq DEF NewWindow, NoWindow, WindowType
<1>3. /\ win' \in [Windows -> WindowType] /\ win'["main"].open = win["main"].open
      /\ win'["prefs"].open /\ connecting' = FALSE
  BY <1>1, <1>2 DEF DialogOpens, Windows
<1> QED BY <1>3 DEF Control, ControlTypes, Places, Running, Aborting

\* The handlers of the dialog.
LEMMA DialogControl ==
  ASSUME Control, Dialog
  PROVE  Control'
<1>1. CASE FirstDialog
  <2>1. /\ main \in {"first", "prefs"} /\ ~win["prefs"].open
        /\ UNCHANGED <<busy, abort, job, cb>>
    BY <1>1 DEF FirstDialog, syncv
  <2>2. CASE DialogOpens(win) /\ UNCHANGED main
    BY <2>1, <2>2, OpensControl DEF Control, Running
  <2>3. CASE Returns(FALSE) /\ UNCHANGED <<win, dialog>>
    <3>1. main' \in {"gui", "exit"} /\ UNCHANGED <<win, connecting>>
      BY <2>1, <2>3 DEF Returns, dialog
    <3> QED BY <2>1, <3>1 DEF Control, ControlTypes, Places, Running, Aborting
  <2> QED BY <1>1, <2>2, <2>3 DEF FirstDialog
<1>2. CASE Connect \/ Toggle \/ SaveRefused \/ Save \/ Cancel \/ Browse \/ PasswordLeft
  <2>1. Standing
    BY <1>2, Reading DEF Connect, Toggle, SaveRefused, Save, Cancel, Browse, PasswordLeft,
                         Control, Windows
  <2>2. win["prefs"].open
    BY <1>2 DEF Connect, Toggle, SaveRefused, Save, Cancel, Browse, PasswordLeft,
                Receives, Listening
  <2>3. UNCHANGED <<main, busy, abort, job, cb>>
    BY <1>2 DEF Connect, Toggle, SaveRefused, Save, Cancel, Browse, PasswordLeft, proc, syncv
  <2>4. connecting' \in BOOLEAN
    <3>1. CASE Connect
      <4>1. \A have : LibsWork(libs, Tls(conf'), have) \in BOOLEAN
        BY DEF LibsWork, Survived, Tls
      <4> QED BY <3>1, <4>1 DEF Connect, Control, ControlTypes
    <3>2. CASE Toggle \/ SaveRefused \/ Save \/ Cancel \/ Browse \/ PasswordLeft
      BY <3>2 DEF Toggle, SaveRefused, Save, Cancel, Browse, PasswordLeft, dialog,
                  Control, ControlTypes
    <3> QED BY <1>2, <3>1, <3>2
  <2> QED BY <2>1, <2>2, <2>3, <2>4, StillControl
<1>3. CASE Connected
  <2>1. UNCHANGED <<win, main, busy, abort, job, cb>> /\ connecting' = FALSE
    BY <1>3 DEF Connected, proc, syncv
  <2> QED BY <2>1 DEF Control, ControlTypes, Places, Running, Aborting
<1>4. CASE DialogCloses
  <2>1. /\ win["prefs"].open /\ win' = [win EXCEPT !["prefs"] = NoWindow]
        /\ connecting' = FALSE /\ UNCHANGED <<busy, abort, job, cb>>
    BY <1>4 DEF DialogCloses, Waiting, Listening, DialogClosed, syncv
  <2>2. NoWindow \in WindowType /\ ~NoWindow.open
    BY EmptySeq DEF NoWindow, WindowType
  <2>3. /\ win' \in [Windows -> WindowType] /\ win'["main"].open = win["main"].open
        /\ ~win'["prefs"].open
    BY <2>1, <2>2 DEF Control, ControlTypes, Windows
  <2>4. /\ main = "first" => main' = "gui"
        /\ main = "prefs" => main' = "exit"
        /\ main = "gui" => main' = "gui"
    BY <1>4 DEF DialogCloses, Returns
  <2> QED BY <2>1, <2>3, <2>4 DEF Control, ControlTypes, Places, Running, Aborting
<1> QED BY <1>1, <1>2, <1>3, <1>4 DEF Dialog

\* The handlers of the main window.
LEMMA MainControl ==
  ASSUME Control, MainWindow
  PROVE  Control'
<1>1. CASE MainOpens
  <2>1. /\ main = "gui" /\ ~win["main"].open
        /\ UNCHANGED <<busy, abort, job, cb, connecting>>
    BY <1>1 DEF MainOpens, syncv, dialog
  <2>2. ~busy /\ ~win["prefs"].open
    BY <2>1 DEF Control, Running, Places
  <2>3. CASE win' = [win EXCEPT !["main"] = NewWindow] /\ UNCHANGED main
    <3>1. NewWindow \in WindowType /\ NewWindow.open
      BY EmptySeq DEF NewWindow, NoWindow, WindowType
    <3>2. win' \in [Windows -> WindowType] /\ win'["main"].open /\ ~win'["prefs"].open
      BY <2>2, <2>3, <3>1 DEF Control, ControlTypes, Windows
    <3> QED BY <2>1, <2>2, <2>3, <3>2 DEF Control, ControlTypes, Places, Running, Aborting
  <2>4. CASE main' = "exit" /\ UNCHANGED win
    BY <2>1, <2>2, <2>4 DEF Control, ControlTypes, Places, Running, Aborting
  <2> QED BY <1>1, <2>3, <2>4 DEF MainOpens
<1>2. CASE MainCloses
  <2>1. /\ win["main"].open /\ ~win["prefs"].open /\ ~win["main"].pump
        /\ win' = [win EXCEPT !["main"] = NoWindow] /\ main' = "exit"
        /\ UNCHANGED <<busy, abort, job, cb, connecting>>
    BY <1>2 DEF MainCloses, Waiting, Listening, syncv, dialog
  <2>2. NoWindow \in WindowType /\ ~NoWindow.open
    BY EmptySeq DEF NoWindow, WindowType
  <2>3. win' \in [Windows -> WindowType] /\ ~win'["main"].open /\ ~win'["prefs"].open
    BY <2>1, <2>2 DEF Control, ControlTypes, Windows
  <2> QED BY <2>1, <2>3 DEF Control, ControlTypes, Places, Running, Aborting
<1>3. CASE MenuPrefs
  <2>1. /\ Listening("main") /\ win["main"].queue # <<>>
        /\ UNCHANGED <<main, busy, abort, job, cb>>
    BY <1>3 DEF MenuPrefs, Receives, proc, syncv
  <2>2. CASE win' = Read("main") /\ UNCHANGED dialog
    <3>1. Standing
      BY <1>3, <2>2, Reading DEF MenuPrefs, Control, Windows
    <3> QED BY <2>1, <2>2, <3>1, StillControl DEF dialog, Control, ControlTypes, Places
  <2>3. CASE DialogOpens(Read("main")) /\ ~busy
    BY <2>1, <2>3, OpensControl DEF Listening, Control, Places
  <2> QED BY <1>3, <2>2, <2>3 DEF MenuPrefs
<1>4. CASE Leave \/ StopClick
  <2>1. /\ Standing /\ UNCHANGED <<main, busy, job, cb, connecting>>
        /\ abort' \in BOOLEAN /\ (abort' => abort \/ busy)
    <3>1. CASE Leave
      <4>1. \E type : Receives("main", type) /\ (win' = Read("main") \/ win' = ReadAndQuit("main"))
        BY <3>1 DEF Leave
      <4>2. Standing
        BY <4>1, Reading DEF Control, Windows
      <4>3. UNCHANGED <<main, busy, job, cb, connecting>>
        BY <3>1 DEF Leave, proc, dialog
      <4>4. \/ busy /\ abort' = TRUE
            \/ abort' = abort
            \/ abort' = (abort \/ busy)
        BY <3>1 DEF Leave
      <4>5. abort' \in BOOLEAN /\ (abort' => abort \/ busy)
        <5>1. abort \in BOOLEAN
          BY DEF Control, ControlTypes
        <5>2. CASE abort' = (abort \/ busy)
          BY <5>2, Zenon
        <5> QED BY <4>4, <5>1, <5>2
      <4> QED BY <4>2, <4>3, <4>5
    <3>2. CASE StopClick
      BY <3>2, Reading DEF StopClick, Control, Windows, proc, dialog
    <3> QED BY <1>4, <3>1, <3>2
  <2>2. \A w \in Windows : win'[w].open = win[w].open /\ win'[w].pump = win[w].pump
    BY <2>1 DEF Standing
  <2>3. "main" \in Windows /\ "prefs" \in Windows
    BY DEF Windows
  <2>4. ControlTypes'
    BY <2>1 DEF Control, ControlTypes, Standing
  <2>5. Places' /\ Running' /\ Aborting'
    BY <2>1, <2>2, <2>3 DEF Control, Places, Running, Aborting
  <2> QED BY <2>4, <2>5 DEF Control
<1>5. CASE SyncClick
  <2>1. /\ Receives("main", "sync") /\ ~busy /\ win' = Read("main")
        /\ UNCHANGED <<main, connecting>>
    BY <1>5 DEF SyncClick, proc, dialog
  <2>2. Standing
    BY <2>1, Reading DEF Control, Windows
  <2>3. CASE UNCHANGED syncv
    BY <2>1, <2>2, <2>3, StillControl DEF syncv, Control, ControlTypes, Places
  <2>4. CASE busy' = TRUE /\ abort' = FALSE /\ job' = "pair" /\ UNCHANGED cb
    <3>1. /\ win["main"].open /\ ~win["prefs"].open /\ win["main"].pump /\ main = "gui"
      BY <2>1 DEF Receives, Listening, Control, Places
    <3>2. /\ win' \in [Windows -> WindowType] /\ win'["main"].open
          /\ ~win'["prefs"].open /\ win'["main"].pump
      BY <2>2, <3>1 DEF Standing, Windows
    <3> QED BY <2>1, <2>4, <3>1, <3>2 DEF Control, ControlTypes, Places, Running, Aborting
  <2> QED BY <1>5, <2>3, <2>4 DEF SyncClick
<1> QED BY <1>1, <1>2, <1>3, <1>4, <1>5 DEF MainWindow

\* The engine returns to the loop over the pairs.
LEMMA ReturnsControl ==
  ASSUME Control, NEW ok, NEW failed, NEW stopped \in BOOLEAN,
         RunReturns(ok, failed, stopped), job \in {"scan", "items"},
         UNCHANGED <<main, win, busy, connecting>>
  PROVE  Control'
<1>1. job' = "pair" /\ cb' = "none"
  BY DEF RunReturns
<1>2. CASE main = "cli"
  <2>1. abort' \in BOOLEAN
    BY <1>2 DEF RunReturns
  <2> QED BY <1>1, <1>2, <2>1 DEF Control, ControlTypes, Places, Running, Aborting
<1>3. CASE main # "cli"
  <2>1. abort' = abort
    BY <1>3 DEF RunReturns
  <2> QED BY <1>1, <1>3, <2>1 DEF Control, ControlTypes, Places, Running, Aborting
<1> QED BY <1>2, <1>3

\* The loops over pairs and files, and the callbacks.
LEMMA SyncControl ==
  ASSUME Control, Sync
  PROVE  Control'
<1> USE DEF proc, dialog
<1>1. CASE CliOpens
  <2>1. /\ main \in {"cli", "list"} /\ job = "off"
        /\ UNCHANGED <<win, busy, abort, cb, connecting>>
        /\ \/ main' = "exit" /\ job' = job
           \/ main' = main /\ job' = IF main = "cli" THEN "pair" ELSE "listing"
    BY <1>1 DEF CliOpens
  <2> QED BY <2>1 DEF Control, ControlTypes, Places, Running, Aborting
<1>2. CASE Listed
  <2>1. /\ job = "listing" /\ job' = "off" /\ main' = "exit"
        /\ UNCHANGED <<win, busy, abort, cb, connecting>>
    BY <1>2 DEF Listed
  <2> QED BY <2>1 DEF Control, ControlTypes, Places, Running, Aborting
<1>3. CASE NextPair
  <2>1. job = "pair" /\ UNCHANGED <<win, connecting>>
    BY <1>3 DEF NextPair
  <2>2. CASE ~abort /\ job' = "scan" /\ UNCHANGED <<main, busy, abort, cb>>
    BY <2>1, <2>2 DEF Control, ControlTypes, Places, Running, Aborting
  <2>3. CASE SyncIdle /\ main' = IF main = "cli" THEN "exit" ELSE main
    BY <2>1, <2>3 DEF SyncIdle, Control, ControlTypes, Places, Running, Aborting
  <2> QED BY <1>3, <2>2, <2>3 DEF NextPair
<1>4. CASE Scan
  <2>1. job = "scan" /\ cb = "none" /\ UNCHANGED <<main, win, busy, connecting>>
    BY <1>4 DEF Scan
  <2>2. CASE job' = "items" /\ UNCHANGED <<abort, cb>>
    BY <2>1, <2>2 DEF Control, ControlTypes, Places, Running, Aborting
  <2> QED BY <1>4, <2>1, <2>2, ReturnsControl DEF Scan
<1>5. CASE Finish
  BY <1>5, ReturnsControl DEF Finish
<1>6. CASE NextFile
  <2>1. job = "items" /\ cb = "none" /\ UNCHANGED <<main, win, busy, connecting>>
    BY <1>6 DEF NextFile
  <2>2. CASE main # "cli" /\ cb' = "file" /\ UNCHANGED <<abort, job>>
    BY <2>1, <2>2 DEF Control, ControlTypes, Places, Running, Aborting
  <2>3. CASE main = "cli" /\ job' = "flight" /\ UNCHANGED <<abort, cb>>
    BY <2>1, <2>3 DEF Control, ControlTypes, Places, Running, Aborting
  <2> QED BY <1>6, <2>1, <2>2, <2>3, ReturnsControl DEF NextFile
<1>7. CASE Transferred
  <2>1. job = "flight" /\ job' = "items"
        /\ UNCHANGED <<main, win, busy, abort, cb, connecting>>
    BY <1>7 DEF Transferred
  <2> QED BY <2>1 DEF Control, ControlTypes, Places, Running, Aborting
<1>8. CASE Progress
  <2>1. main # "cli" /\ job \in {"scan", "flight"} /\ cb' = job
        /\ UNCHANGED <<main, win, busy, abort, job, connecting>>
    BY <1>8 DEF Progress
  <2> QED BY <2>1 DEF Control, ControlTypes, Places, Running, Aborting
<1>9. CASE PollEnds
  <2>1. cb # "none" /\ UNCHANGED <<main, win, busy, connecting>>
    BY <1>9 DEF PollEnds
  <2>2. busy /\ main = "gui" /\ job \notin {"off", "listing"}
    BY <2>1 DEF Control, Aborting, Running
  <2>3. CASE \E next \in {"items", "flight", job} : Goes(next)
    <3>1. cb' = "none" /\ job' \in {"items", "flight", job} /\ UNCHANGED abort
      BY <2>3 DEF Goes
    <3> QED BY <2>1, <2>2, <3>1 DEF Control, ControlTypes, Places, Running, Aborting
  <2>4. CASE \E ok \in BOOLEAN, stopped \in BOOLEAN : RunReturns(ok, FALSE, stopped)
    <3>1. cb' = "none" /\ job' = "pair" /\ UNCHANGED abort
      BY <2>2, <2>4 DEF RunReturns
    <3> QED BY <2>1, <2>2, <3>1 DEF Control, ControlTypes, Places, Running, Aborting
  <2> QED BY <1>9, <2>3, <2>4 DEF PollEnds
<1> QED BY <1>1, <1>2, <1>3, <1>4, <1>5, <1>6, <1>7, <1>8, <1>9 DEF Sync

\* And the end.
LEMMA ExitControl ==
  ASSUME Control, Exit
  PROVE  Control'
<1>1. main' = "off" /\ Gone
  BY DEF Exit
<1>2. NoWindow \in WindowType /\ ~NoWindow.open
  BY EmptySeq DEF NoWindow, WindowType
<1>3. ControlTypes'
  BY <1>1, <1>2 DEF ControlTypes, Gone, SyncIdle, DialogClosed
<1>4. Places' /\ Running' /\ Aborting'
  BY <1>1, <1>2 DEF Places, Running, Aborting, Gone, SyncIdle, DialogClosed, Windows
<1> QED BY <1>3, <1>4 DEF Control

\* Control holds at the start ...
LEMMA InitControl == Init => Control
<1> SUFFICES ASSUME Init PROVE Control
  OBVIOUS
<1>1. NoWindow \in WindowType /\ ~NoWindow.open
  BY EmptySeq DEF NoWindow, WindowType
<1> QED BY <1>1 DEF Init, Control, ControlTypes, Places, Running, Aborting, Windows

\* ... and is kept.
LEMMA NextControl ==
  ASSUME Control, [Next]_vars
  PROVE  Control'
<1>1. CASE UNCHANGED vars
  BY <1>1 DEF vars, proc, syncv, dialog, Control, ControlTypes, Places, Running, Aborting
<1> QED BY <1>1, UserControl, LoopControl, DialogControl, MainControl, SyncControl,
           ExitControl DEF Next, Program

\* Control is an invariant.
THEOREM ControlInvariant == Spec => []Control
<1>1. Control /\ [Next]_vars => Control'
  BY NextControl
<1> QED BY <1>1, InitControl, PTL DEF Spec

(***************************************************************************)
(* A sync is left alone, and stops                                         *)
(***************************************************************************)
\* No handler that changes the configuration runs while a sync does.
LEMMA StepUndisturbed ==
  ASSUME Control, [Next]_vars, busy, busy'
  PROVE  UNCHANGED <<conf, disk>>
<1>1. main = "gui" /\ ~win["prefs"].open
  BY DEF Control, Running
<1> USE DEF store
<1>2. CASE UNCHANGED vars
  BY <1>2 DEF vars
<1>3. CASE User
  BY <1>1, <1>3 DEF User, Start, ClickMain, ClickPrefs, Click, TypeIn, CtrlC
<1>4. CASE Crash \/ SaveCut \/ WildOpen \/ Exit
  BY <1>4 DEF Crash, SaveCut, WildOpen, Exit, Gone, SyncIdle
<1>5. CASE Loop
  BY <1>5 DEF Loop, Wake, Break, PumpEnds, Resize
<1>6. CASE Dialog
  <2>1. ~Receives("prefs", "connect") /\ ~Receives("prefs", "row") /\ ~Receives("prefs", "save")
    BY <1>1 DEF Receives, Listening
  <2>2. ~DialogCloses
    BY <1>1 DEF DialogCloses, Waiting, Listening
  <2> QED BY <1>6, <2>1, <2>2 DEF Dialog, FirstDialog, Connect, Connected, Toggle,
             SaveRefused, Save, Cancel, Browse, PasswordLeft
<1>7. CASE MainWindow
  BY <1>7 DEF MainWindow, MainOpens, MainCloses, Leave, MenuPrefs, StopClick, SyncClick
<1>8. CASE Sync
  BY <1>8 DEF Sync, CliOpens, Listed, NextPair, Scan, Finish, NextFile, Transferred,
              Progress, PollEnds
<1> QED BY <1>2, <1>3, <1>4, <1>5, <1>6, <1>7, <1>8 DEF Next, Program

\* The pairs a sync goes through and the file are what they were when it
\* began, whatever is clicked meanwhile.
THEOREM SyncUndisturbed == Spec => Undisturbed
<1>1. Control /\ [Next]_vars => [busy /\ busy' => UNCHANGED <<conf, disk>>]_vars
  BY StepUndisturbed
<1> QED BY <1>1, ControlInvariant, PTL DEF Spec, Undisturbed

\* After Stop, and after CTRL-C on the command line, nothing is begun.
LEMMA StepBeginsNothing ==
  ASSUME Control, [Next]_vars, abort, job' \in {"scan", "flight"}
  PROVE  job' = job
<1> USE DEF syncv
<1>1. CASE UNCHANGED vars
  BY <1>1 DEF vars
<1>2. CASE User
  BY <1>2 DEF User, Start, ClickMain, ClickPrefs, Click, TypeIn, CtrlC
<1>3. CASE Crash \/ SaveCut \/ WildOpen \/ Exit
  BY <1>3 DEF Crash, SaveCut, WildOpen, Exit, Gone, SyncIdle
<1>4. CASE Loop
  BY <1>4 DEF Loop, Wake, Break, PumpEnds, Resize
<1>5. CASE Dialog
  BY <1>5 DEF Dialog, FirstDialog, Connect, Connected, Toggle, SaveRefused, Save, Cancel,
              Browse, PasswordLeft, DialogCloses
<1>6. CASE MainWindow
  BY <1>6 DEF MainWindow, MainOpens, MainCloses, Leave, MenuPrefs, StopClick, SyncClick
<1>7. CASE Sync
  <2>1. CASE CliOpens \/ Listed \/ Transferred \/ Progress
    BY <2>1 DEF CliOpens, Listed, Transferred, Progress
  <2>2. CASE NextPair
    BY <2>2 DEF NextPair, SyncIdle
  <2>3. CASE Scan \/ Finish
    BY <2>3 DEF Scan, Finish, RunReturns
  <2>4. CASE NextFile
    <3>1. job = "items" /\ main # "cli"
      BY <2>4 DEF NextFile, Control, Aborting
    <3> QED BY <2>4, <3>1 DEF NextFile
  <2>5. CASE PollEnds
    BY <2>5 DEF PollEnds, RunReturns, Goes
  <2> QED BY <1>7, <2>1, <2>2, <2>3, <2>4, <2>5 DEF Sync
<1> QED BY <1>1, <1>2, <1>3, <1>4, <1>5, <1>6, <1>7 DEF Next, Program

\* Once it is stopped, a sync begins no folder and no file.
THEOREM StopBeginsNothing == Spec => NothingBegun
<1>1. Control /\ [Next]_vars => [abort /\ job' \in {"scan", "flight"} => job' = job]_vars
  BY StepBeginsNothing
<1> QED BY <1>1, ControlInvariant, PTL DEF Spec, NothingBegun

(***************************************************************************)
(* Cancel                                                                  *)
(***************************************************************************)
\* While the dialog is open its backup is what it opened with, and the file
\* too until Save.
Restorable ==
  win["prefs"].open => backup = before.conf /\ (~saved => disk = before.disk)

\* Restorable is kept.
LEMMA NextRestorable ==
  ASSUME Control, Restorable, [Next]_vars
  PROVE  Restorable'
<1> USE DEF Restorable
<1>1. CASE UNCHANGED <<backup, before, saved, disk>> /\ (win'["prefs"].open => win["prefs"].open)
  BY <1>1
<1>2. CASE ~win'["prefs"].open
  BY <1>2
<1>3. CASE \E w : DialogOpens(w) /\ UNCHANGED disk
  BY <1>3 DEF DialogOpens
<1>4. CASE Save
  BY <1>4 DEF Save, Receives, Listening
<1>5. CASE UNCHANGED vars
  BY <1>5 DEF vars, store, dialog
<1> USE DEF store, dialog
<1>6. CASE User
  <2>1. UNCHANGED <<backup, before, saved, disk>>
    BY <1>6 DEF User, Start, ClickMain, ClickPrefs, Click, TypeIn, CtrlC
  <2>2. win'["prefs"].open => win["prefs"].open
    <3>1. CASE ClickMain \/ ClickPrefs
      <4>1. \E w \in Windows : \E m : Click(w, m)
        BY <3>1 DEF ClickMain, ClickPrefs, Windows
      <4> QED BY <4>1 DEF Click, Control, ControlTypes, WindowType, Windows
    <3>2. CASE \E c \in {"gui", "prefs", "cli", "list"} : Start(c)
      BY <3>2 DEF Start
    <3>3. CASE TypeIn \/ CtrlC
      BY <3>3 DEF TypeIn, CtrlC
    <3> QED BY <1>6, <3>1, <3>2, <3>3 DEF User
  <2> QED BY <1>1, <2>1, <2>2
<1>7. CASE Crash \/ SaveCut \/ WildOpen \/ Exit
  BY <1>2, <1>7 DEF Crash, SaveCut, WildOpen, Exit, Gone, NoWindow, Windows
<1>8. CASE Loop
  <2>1. UNCHANGED <<backup, before, saved, disk>>
    BY <1>8 DEF Loop, Wake, Break, PumpEnds, Resize
  <2>2. win'["prefs"].open => win["prefs"].open
    <3>1. win \in [Windows -> WindowType] /\ "prefs" \in Windows
      BY DEF Control, ControlTypes, Windows
    <3>2. CASE Resize
      BY <3>1, <3>2 DEF Resize, Read, WindowType
    <3>3. CASE \E w \in Windows : Wake(w) \/ Break(w) \/ PumpEnds(w)
      BY <3>1, <3>3 DEF Wake, Break, PumpEnds, WindowType
    <3> QED BY <1>8, <3>2, <3>3 DEF Loop
  <2> QED BY <1>1, <2>1, <2>2
<1>9. CASE Dialog
  <2>1. CASE FirstDialog
    BY <1>1, <1>3, <2>1 DEF FirstDialog
  <2>2. CASE Connected
    BY <1>1, <2>2 DEF Connected
  <2>3. CASE Connect \/ Toggle \/ SaveRefused \/ Cancel \/ Browse \/ PasswordLeft
    <3>1. win["prefs"].open
      BY <2>3 DEF Connect, Toggle, SaveRefused, Cancel, Browse, PasswordLeft, Receives, Listening
    <3>2. UNCHANGED <<backup, before, saved, disk>>
      BY <2>3 DEF Connect, Toggle, SaveRefused, Cancel, Browse, PasswordLeft
    <3> QED BY <1>1, <3>1, <3>2
  <2>4. CASE DialogCloses
    BY <1>2, <2>4 DEF DialogCloses, NoWindow, Control, ControlTypes, Windows
  <2> QED BY <1>4, <1>9, <2>1, <2>2, <2>3, <2>4 DEF Dialog
<1>10. CASE MainWindow
  <2>1. win \in [Windows -> WindowType] /\ "prefs" \in Windows
    BY DEF Control, ControlTypes, Windows
  <2>2. CASE \E w : DialogOpens(w) /\ MenuPrefs
    BY <1>3, <2>2 DEF MenuPrefs
  <2>3. CASE MainOpens \/ MainCloses
    BY <1>1, <2>1, <2>3 DEF MainOpens, MainCloses
  <2>4. CASE win' = Read("main") \/ win' = ReadAndQuit("main")
    <3>1. win'["prefs"].open => win["prefs"].open
      BY <2>1, <2>4 DEF Read, ReadAndQuit
    <3>2. CASE MenuPrefs /\ UNCHANGED dialog
      BY <1>1, <3>1, <3>2 DEF MenuPrefs
    <3>3. CASE Leave \/ StopClick \/ SyncClick
      BY <1>1, <3>1, <3>3 DEF Leave, StopClick, SyncClick
    <3> QED BY <1>10, <2>2, <2>3, <3>2, <3>3 DEF MainWindow, MenuPrefs
  <2> QED BY <1>10, <2>2, <2>3, <2>4 DEF MainWindow, Leave, MenuPrefs, StopClick, SyncClick
<1>11. CASE Sync
  BY <1>1, <1>11 DEF Sync, CliOpens, Listed, NextPair, Scan, Finish, NextFile,
                     Transferred, Progress, PollEnds
<1> QED BY <1>5, <1>6, <1>7, <1>8, <1>9, <1>10, <1>11 DEF Next, Program

\* The step that leaves the dialog without Save.
LEMMA StepRestores ==
  ASSUME Control, Restorable, [Next]_vars, PrefsLeft, ~saved
  PROVE  conf' = before.conf /\ disk' = before.disk
<1>1. win["prefs"].open /\ ~win'["prefs"].open /\ main' # "off"
  BY DEF PrefsLeft
<1>2. backup = before.conf /\ disk = before.disk
  BY <1>1 DEF Restorable
<1>3. win \in [Windows -> WindowType] /\ "prefs" \in Windows
  BY DEF Control, ControlTypes, Windows
<1>4. CASE UNCHANGED vars
  BY <1>1, <1>4 DEF vars
<1>5. CASE User
  <2>1. win'["prefs"].open = win["prefs"].open
    <3>1. CASE ClickMain \/ ClickPrefs
      <4>1. \E w \in Windows : \E m : Click(w, m)
        BY <3>1 DEF ClickMain, ClickPrefs, Windows
      <4> QED BY <1>3, <4>1 DEF Click, WindowType
    <3>2. CASE \E c \in {"gui", "prefs", "cli", "list"} : Start(c)
      BY <3>2 DEF Start
    <3>3. CASE TypeIn \/ CtrlC
      BY <3>3 DEF TypeIn, CtrlC
    <3> QED BY <1>5, <3>1, <3>2, <3>3 DEF User
  <2> QED BY <1>1, <2>1
<1>6. CASE Crash \/ SaveCut \/ WildOpen \/ Exit
  BY <1>1, <1>6 DEF Crash, SaveCut, WildOpen, Exit
<1>7. CASE Loop
  <2>1. CASE Resize
    BY <1>1, <1>3, <2>1 DEF Resize, Read, WindowType
  <2>2. CASE \E w \in Windows : Wake(w) \/ Break(w) \/ PumpEnds(w)
    BY <1>1, <1>3, <2>2 DEF Wake, Break, PumpEnds, WindowType
  <2> QED BY <1>7, <2>1, <2>2 DEF Loop
<1>8. CASE Dialog
  <2>1. CASE DialogCloses
    BY <1>2, <2>1 DEF DialogCloses
  <2>2. CASE FirstDialog \/ Connected
    BY <1>1, <2>2 DEF FirstDialog, Connected
  <2>3. CASE Connect \/ Toggle \/ SaveRefused \/ Save \/ Cancel \/ Browse \/ PasswordLeft
    <3>1. Standing
      BY <2>3, Reading DEF Connect, Toggle, SaveRefused, Save, Cancel, Browse, PasswordLeft,
                           Control, Windows
    <3> QED BY <1>1, <1>3, <3>1 DEF Standing
  <2> QED BY <1>8, <2>1, <2>2, <2>3 DEF Dialog
<1>9. CASE MainWindow
  <2>1. CASE MainOpens \/ MainCloses
    BY <1>1, <1>3, <2>1 DEF MainOpens, MainCloses
  <2>2. CASE MenuPrefs \/ Leave \/ StopClick \/ SyncClick
    BY <1>1, <2>2 DEF MenuPrefs, Leave, StopClick, SyncClick, Receives, Listening
  <2> QED BY <1>9, <2>1, <2>2 DEF MainWindow
<1>10. CASE Sync
  BY <1>1, <1>10 DEF Sync, CliOpens, Listed, NextPair, Scan, Finish, NextFile,
                     Transferred, Progress, PollEnds
<1> QED BY <1>4, <1>5, <1>6, <1>7, <1>8, <1>9, <1>10 DEF Next, Program

\* Cancel leaves the configuration and the file as they were, whatever was
\* typed, toggled, connected with or refused by Save before.
THEOREM CancelLeavesNoTrace == Spec => CancelRestores
<1>1. Init => Restorable
  BY DEF Init, Restorable, NoWindow, Windows
<1>2. Control /\ Restorable /\ [Next]_vars => Restorable'
  BY NextRestorable
<1>3. Control /\ Restorable /\ [Next]_vars =>
        [PrefsLeft /\ ~saved => conf' = before.conf /\ disk' = before.disk]_vars
  BY StepRestores
<1> QED BY <1>1, <1>2, <1>3, ControlInvariant, PTL DEF Spec, CancelRestores

(***************************************************************************)
(* The pairs                                                               *)
(***************************************************************************)
ConfKeys == {"server", "port", "user", "pass", "local", "folders", "extra", "pairs"}

\* A configuration whose pairs are those of its folders.
FreshConf(c) == DOMAIN c = ConfKeys /\ c.pairs = Pairs(c)

\* What every function of nsconf.c returns.
LEMMA RebuildIsFresh ==
  ASSUME NEW c, DOMAIN c = ConfKeys
  PROVE  FreshConf(Rebuild(c))
<1> DEFINE p == Pairs(c)
<1>1. Rebuild(c) = [c EXCEPT !.pairs = p]
  BY DEF Rebuild
<1> HIDE DEF p
<1>2. /\ Rebuild(c).pairs = p /\ DOMAIN Rebuild(c) = ConfKeys
      /\ Rebuild(c).folders = c.folders /\ Rebuild(c).local = c.local
      /\ Rebuild(c).extra = c.extra
  BY <1>1 DEF ConfKeys
<1>3. Pairs(Rebuild(c)) = p
  BY <1>2 DEF Pairs, p
<1> QED BY <1>2, <1>3 DEF FreshConf

\* Without folders there are no pairs.
LEMMA NoFoldersNoPairs ==
  ASSUME NEW local
  PROVE  PairsOf(<<>>, local, <<>>) = <<>>
<1> DEFINE named == IF local = <<>> THEN <<>> ELSE Filled(<<>>)
           joined == [i \in 1..Len(named) |-> Joined(local, named[i])]
<1>1. named = <<>>
  <2>1. Filled(<<>>) = Picked(<<>>, {})
    BY DEF Filled
  <2>2. Picked(<<>>, {}) = <<>>
    BY FS_EmptySet DEF Picked
  <2> QED BY <2>1, <2>2
<1>2. Len(named) = 0
  BY <1>1
<1> HIDE DEF named
<1>3. joined = <<>>
  BY <1>2
<1> HIDE DEF joined
<1>4. joined \o <<>> = <<>>
  BY <1>3
<1>5. FirstOf(<<>>, MaxFolders + MaxExtra) = <<>>
  BY LimitsAssumption DEF FirstOf
<1> QED BY <1>4, <1>5 DEF PairsOf, joined, named

\* The configuration of a first start has no pairs.
LEMMA DefaultsAreFresh == FreshConf(Defaults)
<1>2. PairsOf(<<>>, DefaultLocal, <<>>) = <<>>
  BY NoFoldersNoPairs
<1>3. Pairs(Defaults) = PairsOf(<<>>, DefaultLocal, <<>>)
  BY DEF Pairs, Defaults
<1> HIDE DEF DefaultLocal
<1> QED BY <1>2, <1>3 DEF FreshConf, Defaults, ConfKeys

\* So is what nsconf.c makes by loading, ...
LEMMA LoadedIsFresh ==
  ASSUME NEW file
  PROVE  FreshConf(Loaded(file))
<1>1. CASE file = NoFile
  BY <1>1, DefaultsAreFresh DEF Loaded
<1>2. CASE file # NoFile
  <2>1. \A s, p, u, w, l, f, e, q :
          LET c == [server |-> s, user |-> u, pass |-> w, port |-> p, local |-> l,
                    folders |-> f, extra |-> e, pairs |-> q]
          IN FreshConf(Rebuild(c))
    BY RebuildIsFresh DEF ConfKeys
  <2> QED BY <1>2, <2>1 DEF Loaded
<1> QED BY <1>1, <1>2

\* ... adding and removing a folder, ...
LEMMA EditedIsFresh ==
  ASSUME NEW c, FreshConf(c), NEW name
  PROVE  FreshConf(AddFolder(c, name)) /\ FreshConf(DelFolder(c, name))
<1>1. \A x : FreshConf(Rebuild([c EXCEPT !.folders = x]))
  BY RebuildIsFresh DEF FreshConf
<1> QED BY <1>1 DEF AddFolder, DelFolder

\* ... and reading the fields of the dialog.
LEMMA FieldsAreFresh ==
  ASSUME FreshConf(conf)
  PROVE  FreshConf(FieldsRead)
<1>1. \E c : DOMAIN c = ConfKeys /\ FieldsRead = Rebuild(c)
  BY DEF FieldsRead, FreshConf
<1> QED BY <1>1, RebuildIsFresh

\* The pairs are those of the folders, and so are those Cancel returns to.
FreshInv == FreshConf(conf) /\ FreshConf(backup)

\* FreshInv is kept.
LEMMA NextFresh ==
  ASSUME FreshInv, [Next]_vars
  PROVE  FreshInv'
<1> USE DEF FreshInv, store, dialog
<1>1. CASE UNCHANGED <<conf, backup>>
  BY <1>1 DEF FreshConf, Pairs
<1>2. CASE Gone
  BY <1>2, DefaultsAreFresh DEF Gone, DialogClosed
<1>3. CASE conf' = FieldsRead /\ UNCHANGED backup
  BY <1>3, FieldsAreFresh
<1>4. CASE User
  <2>1. CASE \E c \in {"gui", "prefs", "cli", "list"} : Start(c)
    BY <2>1, LoadedIsFresh DEF Start
  <2>2. CASE ClickMain \/ ClickPrefs \/ TypeIn \/ CtrlC
    BY <1>1, <2>2 DEF ClickMain, ClickPrefs, Click, TypeIn, CtrlC
  <2> QED BY <1>4, <2>1, <2>2 DEF User
<1>5. CASE Loop
  BY <1>1, <1>5 DEF Loop, Wake, Break, PumpEnds, Resize
<1>6. CASE Dialog
  <2>1. CASE FirstDialog
    BY <1>1, <2>1 DEF FirstDialog, DialogOpens
  <2>2. CASE Connect \/ SaveRefused \/ Save
    BY <1>3, <2>2 DEF Connect, SaveRefused, Save
  <2>3. CASE Connected \/ Cancel \/ Browse \/ PasswordLeft
    BY <1>1, <2>3 DEF Connected, Cancel, Browse, PasswordLeft
  <2>4. CASE Toggle
    <3>1. UNCHANGED backup /\ \/ UNCHANGED conf
                              \/ \E name : conf' = DelFolder(conf, name)
                              \/ \E name : conf' = AddFolder(conf, name)
      BY <2>4 DEF Toggle
    <3> QED BY <1>1, <3>1, EditedIsFresh
  <2>5. CASE DialogCloses
    <3>1. backup' = Defaults /\ conf' \in {conf, backup}
      BY <2>5 DEF DialogCloses, DialogClosed
    <3> QED BY <3>1, DefaultsAreFresh
  <2> QED BY <1>6, <2>1, <2>2, <2>3, <2>4, <2>5 DEF Dialog
<1>7. CASE MainWindow
  BY <1>1, <1>7 DEF MainWindow, MainOpens, MainCloses, Leave, MenuPrefs, DialogOpens,
                    StopClick, SyncClick
<1>8. CASE Sync
  BY <1>1, <1>8 DEF Sync, CliOpens, Listed, NextPair, Scan, Finish, NextFile,
                    Transferred, Progress, PollEnds
<1>9. CASE UNCHANGED vars
  BY <1>1, <1>9 DEF vars
<1>10. CASE Crash \/ SaveCut \/ WildOpen \/ Exit
  BY <1>2, <1>10 DEF Crash, SaveCut, WildOpen, Exit
<1> QED BY <1>4, <1>5, <1>6, <1>7, <1>8, <1>9, <1>10 DEF Next, Program

\* No edit, refusal, Save or Cancel leaves pairs behind that are not those
\* of the folders and the drawer.
THEOREM PairsAreFresh == Spec => []PairsFresh
<1>1. Init => FreshInv
  BY DefaultsAreFresh DEF Init, FreshInv
<1>2. FreshInv /\ [Next]_vars => FreshInv'
  BY NextFresh
<1>3. FreshInv => PairsFresh
  BY DEF FreshInv, FreshConf, PairsFresh
<1> QED BY <1>1, <1>2, <1>3, PTL DEF Spec

(***************************************************************************)
(* The return code                                                         *)
(***************************************************************************)
\* What went wrong so far is in the return code; a sync that was stopped is
\* something that went wrong.
Honest ==
  /\ main \in {"cli", "list"} /\ trouble => rc # 0
  /\ main = "cli" /\ abort => trouble

\* What a run of the engine adds.
LEMMA ReturnsHonest ==
  ASSUME Honest, NEW ok \in BOOLEAN, NEW failed \in BOOLEAN, NEW stopped \in BOOLEAN,
         RunReturns(ok, failed, stopped), UNCHANGED main
  PROVE  Honest'
<1>1. CASE main = "cli"
  <2>1. /\ abort' = stopped
        /\ ~ok \/ failed \/ stopped => rc' \in {5, 10}
        /\ ok /\ ~failed /\ ~stopped => rc' = rc /\ (trouble' => trouble)
        /\ ~ok \/ failed \/ stopped => trouble'
    <3>1. trouble' = (trouble \/ ~ok \/ failed \/ stopped)
      BY <1>1 DEF RunReturns
    <3>2. trouble' <=> trouble \/ ~ok \/ failed \/ stopped
      BY <3>1, Zenon
    <3>3. abort' = stopped /\ rc' = IF ~ok THEN 10 ELSE IF failed \/ stopped THEN 5 ELSE rc
      BY <1>1 DEF RunReturns
    <3> QED BY <3>2, <3>3
  <2> QED BY <1>1, <2>1 DEF Honest
<1>2. CASE main # "cli"
  <2>1. UNCHANGED <<rc, abort, trouble>>
    BY <1>2 DEF RunReturns
  <2> QED BY <1>2, <2>1 DEF Honest
<1> QED BY <1>1, <1>2

\* Honest is kept.
LEMMA NextHonest ==
  ASSUME Control, Honest, [Next]_vars
  PROVE  Honest'
<1> USE DEF proc, syncv
<1>1. CASE UNCHANGED <<main, rc, trouble, abort>>
  BY <1>1 DEF Honest
<1>2. CASE main' \notin {"cli", "list"}
  BY <1>2 DEF Honest
<1>3. CASE UNCHANGED vars
  BY <1>1, <1>3 DEF vars
<1>4. CASE User
  <2>1. CASE \E c \in {"gui", "prefs", "cli", "list"} : Start(c)
    <3>1. main = "off" /\ trouble' = FALSE /\ abort' = abort
      BY <2>1 DEF Start
    <3>2. ~abort
      BY <3>1 DEF Control, Aborting, Running
    <3> QED BY <3>1, <3>2 DEF Honest
  <2>2. CASE ClickMain \/ ClickPrefs \/ TypeIn \/ CtrlC
    BY <1>1, <2>2 DEF ClickMain, ClickPrefs, Click, TypeIn, CtrlC
  <2> QED BY <1>4, <2>1, <2>2 DEF User
<1>5. CASE Crash \/ SaveCut \/ WildOpen \/ Exit
  BY <1>2, <1>5 DEF Crash, SaveCut, WildOpen, Exit
<1>6. CASE Loop
  BY <1>1, <1>6 DEF Loop, Wake, Break, PumpEnds, Resize
<1>7. CASE Dialog
  <2>1. CASE FirstDialog
    BY <1>1, <1>2, <2>1 DEF FirstDialog, Returns
  <2>2. CASE DialogCloses
    <3>1. main \notin {"cli", "list"}
      BY <2>2 DEF DialogCloses, Waiting, Listening, Control, Places
    <3> QED BY <1>2, <2>2, <3>1 DEF DialogCloses, Returns
  <2>3. CASE Connect \/ Connected \/ Toggle \/ SaveRefused \/ Save \/ Cancel \/ Browse \/ PasswordLeft
    BY <1>1, <2>3 DEF Connect, Connected, Toggle, SaveRefused, Save, Cancel, Browse, PasswordLeft
  <2> QED BY <1>7, <2>1, <2>2, <2>3 DEF Dialog
<1>8. CASE MainWindow
  <2>1. main = "gui" /\ main' \notin {"cli", "list"}
    BY <1>8 DEF MainWindow, MainOpens, MainCloses, Leave, MenuPrefs, StopClick, SyncClick,
                Waiting, Receives, Listening, Control, Places
  <2> QED BY <1>2, <2>1
<1>9. CASE CliOpens
  <2>1. \/ main' = "exit"
        \/ UNCHANGED <<main, rc, trouble, abort>>
    BY <1>9 DEF CliOpens
  <2> QED BY <1>1, <1>2, <2>1
<1>10. CASE Listed \/ Transferred \/ Progress
  BY <1>1, <1>2, <1>10 DEF Listed, Transferred, Progress
<1>11. CASE NextPair
  <2>1. CASE UNCHANGED <<main, rc, trouble, abort>>
    BY <1>1, <2>1
  <2>2. CASE SyncIdle /\ main' = IF main = "cli" THEN "exit" ELSE main
    <3>1. main # "list"
      BY <1>11 DEF NextPair, Control, Running
    <3> QED BY <1>2, <2>2, <3>1
  <2> QED BY <1>11, <2>1, <2>2 DEF NextPair
<1>12. CASE Scan \/ Finish \/ NextFile \/ PollEnds
  <2>1. main' = main
    BY <1>12 DEF Scan, Finish, NextFile, PollEnds
  <2>2. CASE UNCHANGED <<rc, trouble, abort>>
    BY <1>1, <2>1, <2>2
  <2>3. CASE \E ok, failed, stopped \in BOOLEAN : RunReturns(ok, failed, stopped)
    BY <2>1, <2>3, ReturnsHonest
  <2>4. \/ UNCHANGED <<rc, trouble, abort>>
        \/ \E ok, failed, stopped \in BOOLEAN : RunReturns(ok, failed, stopped)
    BY <1>12 DEF Scan, Finish, NextFile, PollEnds, Goes
  <2> QED BY <2>2, <2>3, <2>4
<1> QED BY <1>3, <1>4, <1>5, <1>6, <1>7, <1>8, <1>9, <1>10, <1>11, <1>12
        DEF Next, Program, Sync

\* The step that ends a command.
LEMMA StepHonest ==
  ASSUME Control, Honest, [Next]_vars, main' = "exit", rc' = 0, main \in {"cli", "list"}
  PROVE  ~trouble' /\ (main = "cli" => pair \notin 1..Len(conf.pairs))
<1> USE DEF proc
<1>1. main' # main
  OBVIOUS
<1>2. CASE UNCHANGED vars
  BY <1>1, <1>2 DEF vars
<1>3. CASE User
  BY <1>1, <1>3 DEF User, Start, ClickMain, ClickPrefs, Click, TypeIn, CtrlC
<1>4. CASE Crash \/ SaveCut \/ WildOpen \/ Exit
  BY <1>4 DEF Crash, SaveCut, WildOpen, Exit
<1>5. CASE Loop
  BY <1>1, <1>5 DEF Loop, Wake, Break, PumpEnds, Resize
<1>6. CASE Dialog
  BY <1>1, <1>6 DEF Dialog, FirstDialog, Connect, Connected, Toggle, SaveRefused, Save,
                    Cancel, Browse, PasswordLeft, DialogCloses, Returns
<1>7. CASE MainWindow
  BY <1>1, <1>7 DEF MainWindow, MainOpens, MainCloses, Leave, MenuPrefs, StopClick, SyncClick,
                    Waiting, Receives, Listening, Control, Places
<1>8. CASE CliOpens
  BY <1>1, <1>8 DEF CliOpens
<1>9. CASE Listed
  <2>1. job = "listing" /\ main = "list"
    BY <1>9 DEF Listed, Control, Running
  <2>2. rc' = rc /\ trouble' = trouble
    BY <1>9 DEF Listed
  <2> QED BY <2>1, <2>2 DEF Honest
<1>10. CASE NextPair
  <2>1. UNCHANGED <<rc, trouble>> /\ job = "pair"
    BY <1>10 DEF NextPair
  <2>2. ~trouble /\ main = "cli" /\ ~abort
    BY <2>1 DEF Honest, Control, Running
  <2>3. ~(pair <= Len(conf.pairs))
    BY <1>1, <1>10, <2>2 DEF NextPair
  <2> QED BY <2>1, <2>2, <2>3
<1>11. CASE Scan \/ Finish \/ NextFile \/ Transferred \/ Progress \/ PollEnds
  BY <1>1, <1>11 DEF Scan, Finish, NextFile, Transferred, Progress, PollEnds
<1> QED BY <1>2, <1>3, <1>4, <1>5, <1>6, <1>7, <1>8, <1>9, <1>10, <1>11
        DEF Next, Program, Sync

\* A command returns 0 only when all was done and nothing went wrong.
THEOREM ReturnCodeHonest == Spec => HonestExit
<1>1. Init => Honest
  BY DEF Init, Honest
<1>2. Control /\ Honest /\ [Next]_vars => Honest'
  BY NextHonest
<1>3. Control /\ Honest /\ [Next]_vars =>
        [main' = "exit" /\ rc' = 0 /\ main \in {"cli", "list"} =>
           ~trouble' /\ (main = "cli" => pair \notin 1..Len(conf.pairs))]_vars
  BY StepHonest
<1> QED BY <1>1, <1>2, <1>3, ControlInvariant, PTL DEF Spec, HonestExit

(***************************************************************************)
(* The libraries                                                           *)
(***************************************************************************)
LibsKeys == {"users", "sock", "master", "ssl", "base", "utility", "windows", "locks"}

\* The base of utility.library is set only while the library is open, and
\* as long as a window is.
Sane(l) ==
  /\ DOMAIN l = LibsKeys
  /\ l.users \in Nat /\ l.utility \in Nat /\ l.windows \in Nat /\ l.locks = 0
  /\ l.base => l.utility > 0
  /\ l.windows > 0 => l.base

SameHandle(l, r) == r.users = l.users /\ r.sock = l.sock /\ r.ssl = l.ssl

(***************************************************************************)
(* What the operators of NsLibs return                                     *)
(***************************************************************************)
\* A handle: without one to begin with, with one if the libraries work.
LEMMA OpenedIsSane ==
  ASSUME NEW l, Sane(l), l.users = 0, NEW tls, NEW have, ~WildCall(l, tls)
  PROVE  /\ Sane(Opened(l, tls, have)) /\ Opened(l, tls, have).windows = l.windows
         /\ LibsWork(l, tls, have) =>
              /\ Opened(l, tls, have).users = 1 /\ Opened(l, tls, have).sock
              /\ tls => Opened(l, tls, have).ssl
         /\ ~LibsWork(l, tls, have) => Opened(l, tls, have).users = 0
<1> USE DEF Sane, LibsKeys
<1>1. CASE Survived(l)
  <2>1. LibsWork(l, tls, have) /\ l.sock /\ (tls => l.ssl)
    BY <1>1 DEF LibsWork, Survived, WildCall
  <2> QED BY <1>1, <2>1 DEF Opened, LibsUp
<1>2. CASE ~Survived(l)
  <2> DEFINE r == LibsUp(l, tls, have)
  <2>1. /\ r.users = 1 /\ r.windows = l.windows /\ r.base /\ r.utility = l.utility + 1
        /\ r.locks = l.locks /\ DOMAIN r = LibsKeys
    BY <1>2 DEF LibsUp
  <2>2. Sane(r)
    BY <2>1
  <2>3. r.sock = ("socket" \in have) /\ r.ssl = (tls /\ AllLibs \subseteq have)
    BY <1>2 DEF LibsUp
  <2>4. LibsWork(l, tls, have) = ("socket" \in have /\ (tls => AllLibs \subseteq have))
    BY <1>2 DEF LibsWork
  <2> HIDE DEF r
  <2>5. CASE LibsWork(l, tls, have)
    BY <2>1, <2>2, <2>3, <2>4, <2>5 DEF Opened, r
  <2>6. CASE ~LibsWork(l, tls, have)
    <3>1. Opened(l, tls, have) = [r EXCEPT !.users = 0]
      BY <2>1, <2>6 DEF Opened, LibsDown, r
    <3> QED BY <2>1, <2>2, <2>6, <3>1
  <2> QED BY <2>5, <2>6
<1> QED BY <1>1, <1>2

\* The end of a handle.
LEMMA DownIsSane ==
  ASSUME NEW l, Sane(l), l.users \in 0..1
  PROVE  Sane(LibsDown(l)) /\ LibsDown(l).users = 0 /\ LibsDown(l).windows = l.windows
<1> QED BY DEF LibsDown, Sane, LibsKeys

\* A window more, ...
LEMMA OpenIsSane ==
  ASSUME NEW l, Sane(l)
  PROVE  Sane(OpenLibs(l)) /\ OpenLibs(l).windows = l.windows + 1 /\ SameHandle(l, OpenLibs(l))
<1> USE DEF Sane, LibsKeys, SameHandle
<1>1. CASE l.windows > 0
  BY <1>1 DEF OpenLibs
<1>2. CASE l.windows = 0
  BY <1>2 DEF OpenLibs
<1> QED BY <1>1, <1>2

\* ... one less, ...
LEMMA CloseIsSane ==
  ASSUME NEW l, Sane(l), l.windows > 0
  PROVE  Sane(CloseLibs(l)) /\ CloseLibs(l).windows = l.windows - 1 /\ SameHandle(l, CloseLibs(l))
<1> USE DEF Sane, LibsKeys, SameHandle
<1>1. CASE l.windows > 1
  BY <1>1 DEF CloseLibs
<1>2. CASE l.windows = 1
  BY <1>2 DEF CloseLibs, DropLibs
<1> QED BY <1>1, <1>2

\* ... and one that does not open and leaves nothing behind.
LEMMA FailureIsSane ==
  ASSUME NEW l, Sane(l), NEW stage \in {OpenStages[i] : i \in 1..6},
         stage = "libs" => l.windows = 0
  PROVE  LET r == AguiFails(l, stage)
         IN Sane(r) /\ r.windows = l.windows /\ SameHandle(l, r)
<1>1. Sane(OpenLibs(l)) /\ OpenLibs(l).windows = l.windows + 1 /\ SameHandle(l, OpenLibs(l))
  BY OpenIsSane
<1>2. CASE stage = "libs"
  <2> DEFINE m == OpenLibs(l)
  <2>1. Sane(m) /\ m.base /\ m.utility > 0 /\ m.windows = 1 /\ SameHandle(l, m)
    BY <1>1, <1>2 DEF Sane
  <2>2. AguiFails(l, stage) = DropLibs([m EXCEPT !.windows = 0])
    BY <1>2 DEF AguiFails
  <2> HIDE DEF m
  <2> DEFINE d == [m EXCEPT !.windows = 0]
  <2>3. /\ DOMAIN d = LibsKeys /\ d.windows = 0 /\ d.base /\ d.utility = m.utility
        /\ d.locks = 0 /\ SameHandle(m, d)
    BY <2>1 DEF Sane, LibsKeys, SameHandle
  <2> HIDE DEF d
  <2>4. m.utility - 1 \in Nat
    BY <2>1 DEF Sane
  <2>5. Sane(DropLibs(d)) /\ DropLibs(d).windows = 0 /\ SameHandle(d, DropLibs(d))
    BY <2>1, <2>3, <2>4 DEF DropLibs, Sane, LibsKeys, SameHandle
  <2> QED BY <1>2, <2>1, <2>2, <2>3, <2>5 DEF Sane, SameHandle, d
<1>3. CASE stage # "libs"
  <2> DEFINE c == CloseLibs(OpenLibs(l))
             locked == IF Reached(stage, 4) THEN 1 ELSE 0
             window == IF Reached(stage, 6) THEN 1 ELSE 0
             n == locked - window - (IF locked > window THEN 1 ELSE 0)
  <2>1. Sane(c) /\ c.windows = l.windows /\ SameHandle(l, c)
    <3>1. OpenLibs(l).windows > 0 /\ l.windows \in Nat
      BY <1>1 DEF Sane
    <3>2. Sane(c) /\ c.windows = OpenLibs(l).windows - 1 /\ SameHandle(OpenLibs(l), c)
      BY <1>1, <3>1, CloseIsSane
    <3> QED BY <1>1, <3>1, <3>2 DEF SameHandle
  <2>2. n = 0
    <3>1. Reached(stage, 6) => Reached(stage, 4)
      BY DEF Reached
    <3> QED BY <3>1
  <2>3. AguiFails(l, stage) = [c EXCEPT !.locks = @ + n]
    BY <1>3 DEF AguiFails
  <2> HIDE DEF c, n
  <2> QED BY <2>1, <2>2, <2>3 DEF Sane, LibsKeys, SameHandle
<1> QED BY <1>2, <1>3

(***************************************************************************)
(* The program                                                             *)
(***************************************************************************)
One(open) == IF open THEN 1 ELSE 0
OpenWindows == One(win["main"].open) + One(win["prefs"].open)

\* The windows counted are those that are open.
LEMMA CountWindows == Cardinality({w \in Windows : win[w].open}) = OpenWindows
<1> DEFINE S == {w \in Windows : win[w].open}
<1>1. Cardinality({}) = 0 /\ Cardinality({"main"}) = 1 /\ Cardinality({"prefs"}) = 1
  BY FS_EmptySet, FS_Singleton, Zenon
<1>2. Cardinality({"main", "prefs"}) = 2
  <2>1. IsFiniteSet({"main"}) /\ "prefs" \notin {"main"}
    BY FS_Singleton
  <2>2. Cardinality({"main"} \cup {"prefs"}) = Cardinality({"main"}) + 1
    BY <2>1, FS_AddElement
  <2>3. {"main"} \cup {"prefs"} = {"main", "prefs"}
    OBVIOUS
  <2> QED BY <1>1, <2>2, <2>3
<1>3. S = (IF win["main"].open THEN {"main"} ELSE {})
            \cup (IF win["prefs"].open THEN {"prefs"} ELSE {})
  BY DEF Windows
<1> SUFFICES Cardinality(S) = OpenWindows
  OBVIOUS
<1> HIDE DEF S
<1>4. CASE win["main"].open /\ win["prefs"].open
  <2>1. S = {"main", "prefs"}
    BY <1>3, <1>4
  <2> QED BY <1>2, <1>4, <2>1 DEF OpenWindows, One
<1>5. CASE win["main"].open /\ ~win["prefs"].open
  <2>1. S = {"main"}
    BY <1>3, <1>5
  <2> QED BY <1>1, <1>5, <2>1 DEF OpenWindows, One
<1>6. CASE ~win["main"].open /\ win["prefs"].open
  <2>1. S = {"prefs"}
    BY <1>3, <1>6
  <2> QED BY <1>1, <1>6, <2>1 DEF OpenWindows, One
<1>7. CASE ~win["main"].open /\ ~win["prefs"].open
  <2>1. S = {}
    BY <1>3, <1>7
  <2> QED BY <1>1, <1>7, <2>1 DEF OpenWindows, One
<1>8. CASE win["main"].open
  BY <1>4, <1>5, <1>8
<1>9. CASE ~win["main"].open
  BY <1>6, <1>7, <1>9
<1> QED BY <1>8, <1>9

\* LibsHeld, with what it takes to keep it.
HeldInv ==
  /\ Sane(libs)
  /\ libs.users = One(HandleOpen)
  /\ HandleOpen => libs.sock /\ (Tls(conf) => libs.ssl)
  /\ libs.windows = OpenWindows
  /\ main = "off" => ~libs.base /\ ~libs.sock /\ ~libs.master /\ ~libs.ssl

\* It is LibsHeld and more.
LEMMA HeldIsHeld == HeldInv => LibsHeld
<1> QED BY CountWindows DEF HeldInv, LibsHeld, Sane, One

\* There is no handle where no sync runs and no command.
LEMMA NoHandle ==
  ASSUME Control, ~busy, ~connecting, main \notin {"cli", "list"}
  PROVE  ~HandleOpen
<1> QED BY DEF Control, ControlTypes, Running, HandleOpen

\* The windows are those that were open, more and less.
LEMMA StandingWindows ==
  ASSUME Standing \/ UNCHANGED win
  PROVE  OpenWindows' = OpenWindows
<1> QED BY DEF Standing, OpenWindows, One, Windows

\* What leaves libraries, handles and windows alone.
LEMMA HeldStill ==
  ASSUME HeldInv, UNCHANGED libs, OpenWindows' = OpenWindows,
         HandleOpen' <=> HandleOpen, HandleOpen => UNCHANGED conf,
         main' = "off" => main = "off"
  PROVE  HeldInv'
<1>1. One(HandleOpen)' = One(HandleOpen)
  BY DEF One
<1> QED BY <1>1 DEF HeldInv, Tls, Sane

\* What ends the program, or the machine.
LEMMA HeldGone ==
  ASSUME Gone, libs' = LibsClosed
  PROVE  HeldInv'
<1>1. Sane(LibsClosed) /\ LibsClosed.users = 0 /\ LibsClosed.windows = 0
  BY DEF LibsClosed, Sane, LibsKeys
<1>2. ~HandleOpen' /\ OpenWindows' = 0
  BY DEF Gone, SyncIdle, DialogClosed, HandleOpen, OpenWindows, One, NoWindow, Windows
<1>3. ~LibsClosed.base /\ ~LibsClosed.sock /\ ~LibsClosed.master /\ ~LibsClosed.ssl
  BY DEF LibsClosed
<1> QED BY <1>1, <1>2, <1>3 DEF HeldInv, Sane, One

\* A window more or less, or one that fails, where there is no new handle.
LEMMA HeldWindow ==
  ASSUME HeldInv, Sane(libs'), SameHandle(libs, libs'),
         libs'.windows - libs.windows = OpenWindows' - OpenWindows,
         HandleOpen' <=> HandleOpen, UNCHANGED conf \/ ~HandleOpen, main' # "off"
  PROVE  HeldInv'
<1>1. One(HandleOpen)' = One(HandleOpen)
  BY DEF One
<1>2. libs.windows \in Nat /\ libs'.windows \in Nat /\ OpenWindows \in Int /\ OpenWindows' \in Int
  BY DEF HeldInv, Sane, OpenWindows, One
<1>3. libs'.windows = OpenWindows'
  BY <1>2 DEF HeldInv
<1>4. Sane(libs)'
  BY DEF Sane
<1> QED BY <1>1, <1>3, <1>4 DEF HeldInv, SameHandle, Tls

\* A handle is opened, or not, for a configuration that stays.
LEMMA HeldOpens ==
  ASSUME HeldInv, ~HandleOpen, NEW have, ~WildCall(libs, Tls(conf')),
         libs' = Opened(libs, Tls(conf'), have), OpenWindows' = OpenWindows,
         HandleOpen' <=> LibsWork(libs, Tls(conf'), have), main' # "off"
  PROVE  HeldInv'
<1>1. Sane(libs) /\ libs.users = 0
  BY DEF HeldInv, One
<1>2. /\ Sane(libs') /\ libs'.windows = libs.windows
      /\ HandleOpen' => libs'.users = 1 /\ libs'.sock /\ (Tls(conf') => libs'.ssl)
      /\ ~HandleOpen' => libs'.users = 0
  BY <1>1, OpenedIsSane
<1>3. libs'.users = One(HandleOpen)'
  BY <1>2 DEF One
<1>4. Sane(libs)'
  BY <1>2 DEF Sane
<1> QED BY <1>2, <1>3, <1>4 DEF HeldInv, Tls

\* A handle is closed.
LEMMA HeldCloses ==
  ASSUME HeldInv, libs' = LibsDown(libs), ~HandleOpen', OpenWindows' = OpenWindows,
         main' # "off"
  PROVE  HeldInv'
<1>1. Sane(libs) /\ libs.users \in 0..1
  BY DEF HeldInv, One
<1>2. Sane(libs') /\ libs'.users = 0 /\ libs'.windows = libs.windows
  BY <1>1, DownIsSane
<1>3. Sane(libs)'
  BY <1>2 DEF Sane
<1> QED BY <1>2, <1>3 DEF HeldInv, One

\* The dialog opens.
LEMMA DialogOpensHeld ==
  ASSUME Control, HeldInv, ~win["prefs"].open, NEW w, w = win \/ w = Read("main"),
         DialogOpens(w), ~HandleOpen, UNCHANGED <<main, conf, job>>, main # "off"
  PROVE  HeldInv'
<1>1. OpenWindows' = OpenWindows + 1
  <2>1. win \in [Windows -> WindowType] /\ "main" \in Windows /\ "prefs" \in Windows
    BY DEF Control, ControlTypes, Windows
  <2>2. w["main"].open = win["main"].open /\ DOMAIN w = Windows
    BY <2>1 DEF Read, WindowType
  <2>3. win'["main"].open = win["main"].open /\ win'["prefs"].open
    BY <2>1, <2>2 DEF DialogOpens, NewWindow, NoWindow, Windows
  <2> QED BY <2>3 DEF OpenWindows, One
<1>2. /\ Sane(libs') /\ SameHandle(libs, libs') /\ libs'.windows = libs.windows + 1
  BY OpenIsSane DEF DialogOpens, AguiOpen, HeldInv
<1>3. ~HandleOpen'
  BY DEF DialogOpens, HandleOpen
<1>4. OpenWindows \in Int /\ libs.windows \in Int
  BY DEF OpenWindows, One, HeldInv, Sane
<1> QED BY <1>1, <1>2, <1>3, <1>4, HeldWindow

\* A window does not open.
LEMMA WindowFailsHeld ==
  ASSUME HeldInv, WindowFails, OpenWindows' = OpenWindows, HandleOpen' <=> HandleOpen,
         UNCHANGED conf, main' # "off"
  PROVE  HeldInv'
<1>1. PICK stage \in {OpenStages[i] : i \in 1..6} :
        (stage = "libs" => libs.windows = 0) /\ libs' = AguiFails(libs, stage)
  BY DEF WindowFails
<1>2. Sane(libs') /\ libs'.windows = libs.windows /\ SameHandle(libs, libs')
  BY <1>1, FailureIsSane DEF HeldInv
<1>3. OpenWindows \in Int /\ libs.windows \in Int
  BY DEF OpenWindows, One, HeldInv, Sane
<1> QED BY <1>2, <1>3, HeldWindow

\* The handlers of the dialog.
LEMMA DialogHeld ==
  ASSUME Control, HeldInv, Dialog
  PROVE  HeldInv'
<1> USE DEF store, syncv, dialog
<1>1. CASE FirstDialog
  <2>1. /\ main \in {"first", "prefs"} /\ ~win["prefs"].open /\ UNCHANGED <<conf, job>>
    BY <1>1 DEF FirstDialog
  <2>2. ~HandleOpen
    BY <2>1, NoHandle DEF Control, Places, Running
  <2>3. CASE DialogOpens(win) /\ UNCHANGED main
    BY <2>1, <2>2, <2>3, DialogOpensHeld
  <2>4. CASE WindowFails /\ Returns(FALSE) /\ UNCHANGED <<win, dialog>>
    <3>1. main' # "off"
      BY <2>1, <2>4 DEF Returns
    <3>2. HandleOpen' <=> HandleOpen
      BY <2>1, <2>4 DEF HandleOpen
    <3> QED BY <2>1, <2>4, <3>1, <3>2, StandingWindows, WindowFailsHeld
  <2> QED BY <1>1, <2>3, <2>4 DEF FirstDialog
<1>2. CASE Connect \/ Toggle \/ SaveRefused \/ Save \/ Cancel \/ Browse \/ PasswordLeft
  <2>1. Standing
    BY <1>2, Reading DEF Connect, Toggle, SaveRefused, Save, Cancel, Browse, PasswordLeft,
                         Control, Windows
  <2>2. win["prefs"].open /\ ~connecting /\ UNCHANGED <<main, job>>
    BY <1>2 DEF Connect, Toggle, SaveRefused, Save, Cancel, Browse, PasswordLeft, proc,
                Receives, Listening
  <2>3. main \notin {"off", "cli", "list"} /\ ~busy
    BY <2>2 DEF Control, Places, Running
  <2>4. ~HandleOpen
    BY <2>2, <2>3, NoHandle
  <2>5. OpenWindows' = OpenWindows
    BY <2>1, StandingWindows
  <2>6. CASE Connect
    <3>1. CASE UNCHANGED <<libs, connecting>>
      <4>1. HandleOpen' <=> HandleOpen
        BY <2>2, <3>1 DEF HandleOpen
      <4> QED BY <2>2, <2>4, <2>5, <3>1, <4>1, HeldStill
    <3>2. CASE /\ ~WildCall(libs, Tls(conf'))
               /\ \E have \in Installed :
                    /\ libs' = Opened(libs, Tls(conf'), have)
                    /\ connecting' = LibsWork(libs, Tls(conf'), have)
      <4>1. PICK have \in Installed :
              /\ libs' = Opened(libs, Tls(conf'), have)
              /\ connecting' = LibsWork(libs, Tls(conf'), have)
        BY <3>2
      <4>2. HandleOpen' <=> LibsWork(libs, Tls(conf'), have)
        BY <2>2, <2>4, <4>1 DEF HandleOpen
      <4> QED BY <2>2, <2>3, <2>4, <2>5, <3>2, <4>1, <4>2, HeldOpens
    <3> QED BY <2>6, <3>1, <3>2 DEF Connect
  <2>7. CASE Toggle \/ SaveRefused \/ Save \/ Cancel \/ Browse \/ PasswordLeft
    <3>1. UNCHANGED <<libs, connecting>>
      BY <2>7 DEF Toggle, SaveRefused, Save, Cancel, Browse, PasswordLeft
    <3>2. HandleOpen' <=> HandleOpen
      BY <2>2, <3>1 DEF HandleOpen
    <3> QED BY <2>2, <2>4, <2>5, <3>1, <3>2, HeldStill
  <2> QED BY <1>2, <2>6, <2>7
<1>3. CASE Connected
  <2>1. connecting /\ connecting' = FALSE /\ libs' = LibsDown(libs)
        /\ UNCHANGED <<win, main, job>>
    BY <1>3 DEF Connected, proc
  <2>2. main \notin {"off", "cli", "list"} /\ ~busy
    BY <2>1 DEF Control, Places, Running
  <2>3. ~HandleOpen'
    BY <2>1, <2>2 DEF HandleOpen, Control, ControlTypes, Running
  <2> QED BY <2>1, <2>2, <2>3, StandingWindows, HeldCloses
<1>4. CASE DialogCloses
  <2>1. /\ win["prefs"].open /\ ~connecting /\ connecting' = FALSE
        /\ win' = [win EXCEPT !["prefs"] = NoWindow]
        /\ libs' = CloseLibs(libs) /\ UNCHANGED job
    BY <1>4 DEF DialogCloses, Waiting, Listening, DialogClosed, AguiClose
  <2>2. main \in {"first", "prefs", "gui"} /\ main' # "off" /\ ~busy
    BY <1>4, <2>1 DEF Control, Places, Running, DialogCloses, Returns
  <2>3. ~HandleOpen /\ ~HandleOpen'
    BY <2>1, <2>2, NoHandle DEF HandleOpen
  <2>4. OpenWindows' = OpenWindows - 1 /\ OpenWindows > 0
    <3>1. ~win'["prefs"].open /\ win'["main"].open = win["main"].open
      BY <2>1 DEF Control, ControlTypes, Windows, NoWindow
    <3> QED BY <2>1, <3>1 DEF OpenWindows, One
  <2>5. Sane(libs') /\ libs'.windows = libs.windows - 1 /\ SameHandle(libs, libs')
    BY <2>1, <2>4, CloseIsSane DEF HeldInv
  <2>6. OpenWindows \in Int /\ libs.windows \in Int
    BY DEF OpenWindows, One, HeldInv, Sane
  <2> QED BY <2>2, <2>3, <2>4, <2>5, <2>6, HeldWindow
<1> QED BY <1>1, <1>2, <1>3, <1>4 DEF Dialog

\* The handlers of the main window.
LEMMA MainHeld ==
  ASSUME Control, HeldInv, MainWindow
  PROVE  HeldInv'
<1> USE DEF store, proc, syncv, dialog
<1>1. CASE MainOpens
  <2>1. main = "gui" /\ ~win["main"].open /\ UNCHANGED <<conf, job, connecting>>
    BY <1>1 DEF MainOpens
  <2>2. ~HandleOpen /\ (HandleOpen' <=> HandleOpen)
    BY <2>1, NoHandle DEF Control, Places, Running, HandleOpen
  <2>3. CASE win' = [win EXCEPT !["main"] = NewWindow] /\ libs' = AguiOpen(libs)
             /\ UNCHANGED main
    <3>1. OpenWindows' = OpenWindows + 1
      <4>1. win'["main"].open /\ win'["prefs"].open = win["prefs"].open
        BY <2>3 DEF Control, ControlTypes, Windows, NewWindow, NoWindow
      <4> QED BY <2>1, <4>1 DEF OpenWindows, One
    <3>2. Sane(libs') /\ SameHandle(libs, libs') /\ libs'.windows = libs.windows + 1
      BY <2>3, OpenIsSane DEF AguiOpen, HeldInv
    <3>3. OpenWindows \in Int /\ libs.windows \in Int
      BY DEF OpenWindows, One, HeldInv, Sane
    <3> QED BY <2>1, <2>2, <2>3, <3>1, <3>2, <3>3, HeldWindow
  <2>4. CASE WindowFails /\ main' = "exit" /\ UNCHANGED win
    BY <2>1, <2>2, <2>4, StandingWindows, WindowFailsHeld
  <2> QED BY <1>1, <2>3, <2>4 DEF MainOpens
<1>2. CASE MainCloses
  <2>1. /\ win["main"].open /\ ~win["main"].pump /\ main' = "exit"
        /\ win' = [win EXCEPT !["main"] = NoWindow] /\ libs' = CloseLibs(libs)
        /\ UNCHANGED <<conf, job, connecting>>
    BY <1>2 DEF MainCloses, Waiting, Listening, AguiClose
  <2>2. ~win["prefs"].open
    BY <1>2 DEF MainCloses, Waiting, Listening
  <2>3. ~HandleOpen /\ (HandleOpen' <=> HandleOpen)
    BY <2>1, <2>2, NoHandle DEF Control, Places, Running, HandleOpen
  <2>4. OpenWindows' = OpenWindows - 1 /\ OpenWindows > 0
    <3>1. ~win'["main"].open /\ win'["prefs"].open = win["prefs"].open
      BY <2>1 DEF Control, ControlTypes, Windows, NoWindow
    <3> QED BY <2>1, <2>2, <3>1 DEF OpenWindows, One
  <2>5. Sane(libs') /\ libs'.windows = libs.windows - 1 /\ SameHandle(libs, libs')
    BY <2>1, <2>4, CloseIsSane DEF HeldInv
  <2>6. OpenWindows \in Int /\ libs.windows \in Int
    BY DEF OpenWindows, One, HeldInv, Sane
  <2> QED BY <2>1, <2>3, <2>4, <2>5, <2>6, HeldWindow
<1>3. CASE MenuPrefs
  <2>1. /\ Receives("main", "prefs") /\ win["main"].open /\ ~win["prefs"].open
        /\ UNCHANGED <<main, conf, job>>
    BY <1>3 DEF MenuPrefs, Receives, Listening
  <2>2. main = "gui"
    BY <2>1 DEF Control, Places
  <2>3. CASE win' = Read("main") /\ UNCHANGED <<dialog, libs>>
    <3>1. OpenWindows' = OpenWindows
      BY <2>1, <2>3, Reading, StandingWindows DEF Control, Windows
    <3>2. HandleOpen' <=> HandleOpen
      BY <2>1, <2>3 DEF HandleOpen
    <3> QED BY <2>1, <2>2, <2>3, <3>1, <3>2, HeldStill
  <2>4. CASE ~busy /\ DialogOpens(Read("main"))
    <3>1. ~HandleOpen
      BY <2>1, <2>2, <2>4, NoHandle DEF Control, Places
    <3> QED BY <2>1, <2>2, <2>4, <3>1, DialogOpensHeld
  <2>5. CASE win' = Read("main") /\ WindowFails /\ UNCHANGED dialog
    <3>1. OpenWindows' = OpenWindows
      BY <2>1, <2>5, Reading, StandingWindows DEF Control, Windows
    <3>2. HandleOpen' <=> HandleOpen
      BY <2>1, <2>5 DEF HandleOpen
    <3> QED BY <2>1, <2>2, <2>5, <3>1, <3>2, WindowFailsHeld
  <2> QED BY <1>3, <2>3, <2>4, <2>5 DEF MenuPrefs
<1>4. CASE Leave \/ StopClick
  <2>1. \E type : Receives("main", type) /\ (win' = Read("main") \/ win' = ReadAndQuit("main"))
    BY <1>4 DEF Leave, StopClick
  <2>2. OpenWindows' = OpenWindows
    BY <2>1, Reading, StandingWindows DEF Control, Windows
  <2>3. UNCHANGED <<main, conf, job, connecting, libs>>
    BY <1>4 DEF Leave, StopClick
  <2>4. HandleOpen' <=> HandleOpen
    BY <2>3 DEF HandleOpen
  <2> QED BY <2>2, <2>3, <2>4, HeldStill
<1>5. CASE SyncClick
  <2>1. /\ Receives("main", "sync") /\ ~busy /\ win' = Read("main")
        /\ UNCHANGED <<main, conf, connecting>>
    BY <1>5 DEF SyncClick
  <2>2. main = "gui" /\ ~win["prefs"].open
    BY <2>1 DEF Receives, Listening, Control, Places
  <2>3. ~HandleOpen
    BY <2>1, <2>2, NoHandle DEF Control, Places
  <2>4. OpenWindows' = OpenWindows
    BY <2>1, Reading, StandingWindows DEF Control, Windows
  <2>5. PICK have \in Installed :
          /\ libs' = Opened(libs, Tls(conf), have)
          /\ IF LibsWork(libs, Tls(conf), have)
             THEN busy' = TRUE /\ abort' = FALSE /\ job' = "pair" /\ pair' = 1 /\ UNCHANGED cb
             ELSE UNCHANGED syncv
    BY <1>5 DEF SyncClick
  <2>6. ~WildCall(libs, Tls(conf'))
    BY <1>5, <2>1 DEF SyncClick
  <2>7. HandleOpen' <=> LibsWork(libs, Tls(conf'), have)
    BY <2>1, <2>3, <2>5 DEF HandleOpen
  <2>8. libs' = Opened(libs, Tls(conf'), have)
    BY <2>1, <2>5
  <2> QED BY <2>1, <2>2, <2>3, <2>4, <2>6, <2>7, <2>8, HeldOpens
<1> QED BY <1>1, <1>2, <1>3, <1>4, <1>5 DEF MainWindow

\* A sync, from the handle it opens to the one it closes.
LEMMA SyncHeld ==
  ASSUME Control, HeldInv, Sync
  PROVE  HeldInv'
<1> USE DEF store, proc, dialog
<1>1. CASE CliOpens
  <2>1. /\ main \in {"cli", "list"} /\ job = "off" /\ UNCHANGED <<win, conf, connecting>>
    BY <1>1 DEF CliOpens
  <2>2. ~HandleOpen
    BY <2>1 DEF HandleOpen, Control, Places
  <2>3. PICK have \in Installed :
          /\ libs' = Opened(libs, Tls(conf), have)
          /\ IF LibsWork(libs, Tls(conf), have)
             THEN /\ job' = IF main = "cli" THEN "pair" ELSE "listing"
                  /\ UNCHANGED <<main, rc, trouble>>
             ELSE main' = "exit" /\ rc' = 10 /\ trouble' = TRUE /\ UNCHANGED job
    BY <1>1 DEF CliOpens
  <2>4. HandleOpen' <=> LibsWork(libs, Tls(conf'), have)
    BY <2>1, <2>2, <2>3 DEF HandleOpen
  <2>5. ~WildCall(libs, Tls(conf')) /\ libs' = Opened(libs, Tls(conf'), have)
    BY <1>1, <2>1, <2>3 DEF CliOpens
  <2>6. main' # "off"
    BY <2>1, <2>3
  <2> QED BY <2>1, <2>2, <2>4, <2>5, <2>6, StandingWindows, HeldOpens
<1>2. CASE Listed
  <2>1. /\ job' = "off" /\ libs' = LibsDown(libs) /\ main' = "exit"
        /\ main = "list" /\ UNCHANGED <<win, connecting>>
    BY <1>2 DEF Listed, Control, Running
  <2>2. ~HandleOpen'
    BY <2>1 DEF HandleOpen, Control, Places
  <2> QED BY <2>1, <2>2, StandingWindows, HeldCloses
<1>3. CASE NextPair
  <2>1. job = "pair" /\ main # "off" /\ UNCHANGED <<win, conf, connecting>>
    BY <1>3 DEF NextPair, Control, Running
  <2>2. CASE job' = "scan" /\ UNCHANGED <<main, libs>>
    <3>1. HandleOpen' <=> HandleOpen
      BY <2>1, <2>2 DEF HandleOpen
    <3> QED BY <2>1, <2>2, <3>1, StandingWindows, HeldStill
  <2>3. CASE SyncIdle /\ libs' = LibsDown(libs) /\ main' = IF main = "cli" THEN "exit" ELSE main
    <3>1. ~HandleOpen'
      BY <2>1, <2>3 DEF SyncIdle, HandleOpen, Control, Places, Running
    <3> QED BY <2>1, <2>3, <3>1, StandingWindows, HeldCloses
  <2> QED BY <1>3, <2>2, <2>3 DEF NextPair
<1>4. CASE Scan \/ Finish \/ NextFile \/ Transferred \/ Progress \/ PollEnds
  <2>1. UNCHANGED <<win, conf, connecting, main, libs>>
    BY <1>4 DEF Scan, Finish, NextFile, Transferred, Progress, PollEnds
  <2>2. job # "off" /\ job' # "off"
    <3>1. job # "off"
      <4>1. CASE PollEnds
        BY <4>1 DEF PollEnds, Control, Aborting, Running
      <4> QED BY <1>4, <4>1 DEF Scan, Finish, NextFile, Transferred, Progress
    <3>2. job' # "off"
      BY <1>4, <3>1 DEF Scan, Finish, NextFile, Transferred, Progress, PollEnds, RunReturns, Goes
    <3> QED BY <3>1, <3>2
  <2>3. HandleOpen' <=> HandleOpen
    BY <2>2 DEF HandleOpen
  <2> QED BY <2>1, <2>3, StandingWindows, HeldStill
<1> QED BY <1>1, <1>2, <1>3, <1>4 DEF Sync

\* Users and the event loop, and what ends the program.
LEMMA UserHeld ==
  ASSUME Control, HeldInv, User \/ Loop \/ Crash \/ SaveCut \/ WildOpen
  PROVE  HeldInv'
<1> USE DEF store, proc, syncv, dialog
<1>1. CASE \E c \in {"gui", "prefs", "cli", "list"} : Start(c)
  <2>1. PICK c \in {"gui", "prefs", "cli", "list"} : Start(c)
    BY <1>1
  <2>2. main = "off" /\ main' # "off" /\ UNCHANGED <<win, job, connecting, libs>>
    BY <2>1 DEF Start
  <2>3. ~HandleOpen /\ (HandleOpen' <=> HandleOpen)
    BY <2>2, NoHandle DEF Control, Places, Running, HandleOpen
  <2> QED BY <2>2, <2>3, StandingWindows, HeldStill
<1>2. CASE ClickMain \/ ClickPrefs \/ TypeIn \/ CtrlC
  <2>1. UNCHANGED <<main, conf, job, connecting, libs>>
    BY <1>2 DEF ClickMain, ClickPrefs, Click, TypeIn, CtrlC
  <2>2. OpenWindows' = OpenWindows
    <3>1. CASE \E w \in Windows : \E m : Click(w, m)
      <4>1. PICK w \in Windows : \E m : Click(w, m)
        BY <3>1
      <4>2. \A v \in Windows : win'[v].open = win[v].open
        BY <4>1 DEF Click, Control, ControlTypes, WindowType
      <4> QED BY <4>2 DEF OpenWindows, One, Windows
    <3>2. CASE TypeIn \/ CtrlC
      BY <3>2, StandingWindows DEF TypeIn, CtrlC
    <3> QED BY <1>2, <3>1, <3>2 DEF ClickMain, ClickPrefs, Windows
  <2>3. HandleOpen' <=> HandleOpen
    BY <2>1 DEF HandleOpen
  <2> QED BY <2>1, <2>2, <2>3, HeldStill
<1>3. CASE Loop
  <2>1. UNCHANGED <<main, conf, job, connecting, libs>>
    BY <1>3 DEF Loop, Wake, Break, PumpEnds, Resize
  <2>2. \A v \in Windows : win'[v].open = win[v].open
    <3>1. CASE \E w \in Windows : Wake(w) \/ Break(w) \/ PumpEnds(w)
      <4>1. PICK w \in Windows : Wake(w) \/ Break(w) \/ PumpEnds(w)
        BY <3>1
      <4>2. \/ win' = [win EXCEPT ![w].pump = TRUE]
            \/ win' = [win EXCEPT ![w].done = TRUE]
            \/ win' = [win EXCEPT ![w].pump = FALSE]
        BY <4>1 DEF Wake, Break, PumpEnds
      <4>3. win \in [Windows -> WindowType]
        BY DEF Control, ControlTypes
      <4>4. \A v \in Windows : DOMAIN win[v] = {"open", "done", "pump", "queue"}
        BY <4>3 DEF WindowType
      <4>5. CASE win' = [win EXCEPT ![w].done = TRUE]
        BY <4>3, <4>4, <4>5
      <4>6. CASE \E b \in BOOLEAN : win' = [win EXCEPT ![w].pump = b]
        BY <4>3, <4>4, <4>6
      <4> QED BY <4>2, <4>5, <4>6
    <3>2. CASE Resize
      BY <3>2, Reading DEF Resize, Control, Windows, Standing
    <3> QED BY <1>3, <3>1, <3>2 DEF Loop
  <2>3. OpenWindows' = OpenWindows
    BY <2>2 DEF OpenWindows, One, Windows
  <2>4. HandleOpen' <=> HandleOpen
    BY <2>1 DEF HandleOpen
  <2> QED BY <2>1, <2>3, <2>4, HeldStill
<1>4. CASE Crash \/ SaveCut \/ WildOpen
  BY <1>4, HeldGone DEF Crash, SaveCut, WildOpen
<1> QED BY <1>1, <1>2, <1>3, <1>4 DEF User

\* The program ends: no window is open and no handle.
LEMMA ExitHeld ==
  ASSUME Control, HeldInv, Exit
  PROVE  HeldInv'
<1>1. main = "exit" /\ Gone /\ libs' = Shutdown(libs)
  BY DEF Exit
<1>2. ~HandleOpen /\ OpenWindows = 0
  BY <1>1 DEF Control, Places, Running, HandleOpen, OpenWindows, One
<1>3. ~HandleOpen' /\ OpenWindows' = 0
  BY <1>1 DEF Gone, SyncIdle, DialogClosed, HandleOpen, OpenWindows, One, NoWindow, Windows
<1>4. Sane(libs) /\ libs.users = 0 /\ libs.windows = 0
  BY <1>2 DEF HeldInv, One
<1>5. /\ Sane(libs') /\ libs'.users = 0 /\ libs'.windows = 0
      /\ ~libs'.base /\ ~libs'.sock /\ ~libs'.master /\ ~libs'.ssl
  BY <1>1, <1>4 DEF Shutdown, Sane, LibsKeys
<1>6. Sane(libs)'
  BY <1>5 DEF Sane
<1> QED BY <1>3, <1>5, <1>6 DEF HeldInv, One

\* Every step keeps the libraries as they should be.
LEMMA NextHeld ==
  ASSUME Control, HeldInv, [Next]_vars
  PROVE  HeldInv'
<1>1. CASE UNCHANGED vars
  <2>1. UNCHANGED <<main, conf, win, job, connecting, libs>>
    BY <1>1 DEF vars, store, proc, syncv, dialog
  <2>2. HandleOpen' <=> HandleOpen
    BY <2>1 DEF HandleOpen
  <2> QED BY <2>1, <2>2, StandingWindows, HeldStill
<1> QED BY <1>1, UserHeld, DialogHeld, MainHeld, SyncHeld, ExitHeld DEF Next, Program

\* It starts so.
LEMMA InitHeld == Init => HeldInv
<1> SUFFICES ASSUME Init PROVE HeldInv
  OBVIOUS
<1>1. Sane(LibsClosed) /\ LibsClosed.users = 0 /\ LibsClosed.windows = 0
  BY DEF LibsClosed, Sane, LibsKeys
<1>2. ~HandleOpen /\ OpenWindows = 0
  BY DEF Init, HandleOpen, OpenWindows, One, NoWindow, Windows
<1> QED BY <1>1, <1>2 DEF Init, HeldInv, One, LibsClosed

\* Libraries are open while a handle or a window needs them, whatever fails
\* to open, and nothing is open once the program has ended.
THEOREM LibrariesHeld == Spec => []LibsHeld
<1>1. Init => HeldInv
  BY InitHeld
<1>2. Control /\ HeldInv /\ [Next]_vars => HeldInv'
  BY NextHeld
<1>3. HeldInv => LibsHeld
  BY HeldIsHeld
<1> QED BY <1>1, <1>2, <1>3, ControlInvariant, PTL DEF Spec

(***************************************************************************)
(* What a keystroke does to a text                                         *)
(***************************************************************************)
\* A character put in.
LEMMA InsertedText ==
  ASSUME NEW S, NEW s \in Seq(S), NEW at \in 1..(Len(s) + 1), NEW c \in S
  PROVE  /\ InsertedAt(s, at, c) \in Seq(S) /\ Len(InsertedAt(s, at, c)) = Len(s) + 1
         /\ \A i \in 1..(Len(s) + 1) : InsertedAt(s, at, c)[i] =
              IF i < at THEN s[i] ELSE IF i = at THEN c ELSE s[i - 1]
<1> DEFINE a == SubSeq(s, 1, at - 1)
           b == SubSeq(s, at, Len(s))
           ac == a \o <<c>>
           n == Len(s)
<1>0. n \in Nat /\ at \in Nat /\ 1 <= at /\ at <= n + 1
  BY LenProperties
<1>1. /\ a \in Seq(S) /\ Len(a) = at - 1 /\ \A i \in 1..(at - 1) : a[i] = s[i]
  BY <1>0
<1>2. /\ b \in Seq(S) /\ Len(b) = n - at + 1 /\ \A i \in 1..(n - at + 1) : b[i] = s[at + i - 1]
  BY <1>0
<1>3. <<c>> \in Seq(S) /\ Len(<<c>>) = 1 /\ <<c>>[1] = c
  OBVIOUS
<1> HIDE DEF a, b, n, ac
<1>4. /\ ac \in Seq(S) /\ Len(ac) = at
      /\ \A i \in 1..at : ac[i] = IF i < at THEN s[i] ELSE c
  <2>1. /\ ac \in Seq(S) /\ Len(ac) = Len(a) + Len(<<c>>)
        /\ \A i \in 1..(Len(a) + Len(<<c>>)) :
             ac[i] = IF i <= Len(a) THEN a[i] ELSE <<c>>[i - Len(a)]
    BY <1>1, <1>3, ConcatProperties DEF ac
  <2>2. \A i \in 1..at : i >= at => i - (at - 1) = 1
    BY <1>0
  <2> QED BY <1>0, <1>1, <1>3, <2>1, <2>2
<1>5. /\ ac \o b \in Seq(S) /\ Len(ac \o b) = n + 1
      /\ \A i \in 1..(n + 1) : (ac \o b)[i] =
            IF i <= at THEN ac[i] ELSE b[i - at]
  <2>1. /\ ac \o b \in Seq(S) /\ Len(ac \o b) = Len(ac) + Len(b)
        /\ \A i \in 1..(Len(ac) + Len(b)) : (ac \o b)[i] =
             IF i <= Len(ac) THEN ac[i] ELSE b[i - Len(ac)]
    BY <1>2, <1>4, ConcatProperties
  <2>2. at + (n - at + 1) = n + 1
    BY <1>0
  <2> QED BY <1>2, <1>4, <2>1, <2>2
<1>6. ASSUME NEW i \in 1..(n + 1)
      PROVE  (ac \o b)[i] = IF i < at THEN s[i] ELSE IF i = at THEN c ELSE s[i - 1]
  <2>1. CASE i <= at
    BY <1>0, <1>4, <1>5, <2>1
  <2>2. CASE i > at
    <3>1. PICK j \in 1..(n - at + 1) : i - at = j /\ at + j - 1 = i - 1
      <4>1. i - at \in 1..(n - at + 1) /\ at + (i - at) - 1 = i - 1
        BY <1>0, <2>2
      <4> QED BY <4>1
    <3>2. b[j] = s[i - 1]
      BY <1>2, <3>1
    <3>3. (ac \o b)[i] = b[j] /\ ~(i < at) /\ i # at
      BY <1>0, <1>5, <2>2, <3>1
    <3> QED BY <1>0, <3>2, <3>3
  <2>3. i <= at \/ i > at
    BY <1>0
  <2> QED BY <2>1, <2>2, <2>3
<1> QED BY <1>5, <1>6 DEF InsertedAt, a, b, n, ac

\* A character taken out.
LEMMA DeletedText ==
  ASSUME NEW S, NEW s \in Seq(S), NEW at \in 1..Len(s)
  PROVE  /\ DeletedAt(s, at) \in Seq(S) /\ Len(DeletedAt(s, at)) = Len(s) - 1
         /\ \A i \in 1..(Len(s) - 1) : DeletedAt(s, at)[i] = IF i < at THEN s[i] ELSE s[i + 1]
<1> DEFINE a == SubSeq(s, 1, at - 1)
           b == SubSeq(s, at + 1, Len(s))
           n == Len(s)
<1>0. n \in Nat /\ at \in Nat /\ 1 <= at /\ at <= n
  BY LenProperties
<1>1. /\ a \in Seq(S) /\ Len(a) = at - 1 /\ \A i \in 1..(at - 1) : a[i] = s[i]
  BY <1>0
<1>2. /\ b \in Seq(S) /\ Len(b) = n - at /\ \A i \in 1..(n - at) : b[i] = s[at + i]
  BY <1>0
<1> HIDE DEF a, b, n
<1>3. /\ a \o b \in Seq(S) /\ Len(a \o b) = n - 1
      /\ \A i \in 1..(n - 1) : (a \o b)[i] = IF i <= at - 1 THEN a[i] ELSE b[i - (at - 1)]
  <2>1. /\ a \o b \in Seq(S) /\ Len(a \o b) = Len(a) + Len(b)
        /\ \A i \in 1..(Len(a) + Len(b)) : (a \o b)[i] = IF i <= Len(a) THEN a[i] ELSE b[i - Len(a)]
    BY <1>1, <1>2, ConcatProperties
  <2>2. (at - 1) + (n - at) = n - 1
    BY <1>0
  <2> QED BY <1>1, <1>2, <2>1, <2>2
<1>4. ASSUME NEW i \in 1..(n - 1)
      PROVE  (a \o b)[i] = IF i < at THEN s[i] ELSE s[i + 1]
  <2>1. CASE i < at
    BY <1>0, <1>1, <1>3, <2>1
  <2>2. CASE i >= at
    <3>1. PICK j \in 1..(n - at) : i - (at - 1) = j /\ at + j = i + 1
      <4>1. i - (at - 1) \in 1..(n - at) /\ at + (i - (at - 1)) = i + 1
        BY <1>0, <2>2
      <4> QED BY <4>1
    <3>2. b[j] = s[i + 1]
      BY <1>2, <3>1
    <3>3. (a \o b)[i] = b[j] /\ ~(i < at)
      BY <1>0, <1>3, <2>2, <3>1
    <3> QED BY <1>0, <3>2, <3>3
  <2>3. i < at \/ i >= at
    BY <1>0
  <2> QED BY <2>1, <2>2, <2>3
<1> QED BY <1>3, <1>4 DEF DeletedAt, a, b, n

(***************************************************************************)
(* The password field                                                      *)
(***************************************************************************)
PwTyped(p) ==
  /\ DOMAIN p = {"real", "mask", "view", "meant", "mixed"}
  /\ p.real \in Seq(Letter) /\ p.view \in Seq(Letter) /\ p.meant \in Seq(Letter)
  /\ p.mask \in Nat

\* The field, and what somebody who can see its view has typed.
PwTrue(p) == PwTyped(p) /\ (~p.mixed => InStep(p))

\* Asterisks are text.
LEMMA StarsText ==
  ASSUME NEW n \in Nat
  PROVE  Stars(n) \in Seq(Letter) /\ Len(Stars(n)) = n /\ \A i \in 1..n : Stars(n)[i] = Star
<1>1. Star \in Letter
  BY DEF Letter
<1> QED BY <1>1 DEF Stars

\* pw_real() remains a text, and is of the length of the view.
LEMMA KeptText ==
  ASSUME NEW p, PwTyped(p), NEW work \in Seq(Letter), NEW at \in Nat,
         Inserting(p, work) => at <= Len(p.real), ~Inserting(p, work) => at <= Len(work)
  PROVE  /\ Kept(p, work, at) \in Seq(Letter)
         /\ Len(Kept(p, work, at)) = Len(work)
<1> DEFINE r == p.real
           o == Len(r)
           n == Len(work)
           a == SubSeq(r, 1, at)
           b == SubSeq(work, at + 1, at + n - o)
           c == SubSeq(r, at + 1, o)
           d == SubSeq(r, at + 1 + o - n, o)
<1>1. r \in Seq(Letter) /\ o \in Nat /\ n \in Nat
  BY LenProperties DEF PwTyped
<1>2. CASE Inserting(p, work)
  <2> HIDE DEF r, o, n
  <2>1. n > o /\ at <= o
    BY <1>2 DEF Inserting, r, o, n
  <2>2. a \in Seq(Letter) /\ Len(a) = at
    BY <1>1, <2>1 DEF o
  <2>3. b \in Seq(Letter) /\ Len(b) = n - o
    <3>1. at + n - o >= at + 1 /\ at + n - o <= n /\ (at + n - o) - (at + 1) + 1 = n - o
      BY <1>1, <2>1
    <3> QED BY <1>1, <3>1 DEF n
  <2>4. c \in Seq(Letter) /\ Len(c) = o - at
    BY <1>1, <2>1 DEF o
  <2>5. Kept(p, work, at) = (a \o b) \o c
    BY <1>2 DEF Kept, r, o, n
  <2> HIDE DEF a, b, c
  <2>6. (a \o b) \in Seq(Letter) /\ Len(a \o b) = Len(a) + Len(b)
    BY <2>2, <2>3, ConcatProperties
  <2>7. (a \o b) \o c \in Seq(Letter) /\ Len((a \o b) \o c) = Len(a \o b) + Len(c)
    <3>1. \A x, y \in Seq(Letter) : x \o y \in Seq(Letter) /\ Len(x \o y) = Len(x) + Len(y)
      BY ConcatProperties
    <3> QED BY <2>4, <2>6, <3>1, Zenon
  <2>8. at + (n - o) + (o - at) = n
    BY <1>1
  <2> QED BY <2>2, <2>3, <2>4, <2>5, <2>6, <2>7, <2>8 DEF n
<1>3. CASE ~Inserting(p, work)
  <2> HIDE DEF r, o, n
  <2>1. n <= o /\ at <= n
    BY <1>1, <1>3 DEF Inserting, r, o, n
  <2>2. a \in Seq(Letter) /\ Len(a) = at
    BY <1>1, <2>1 DEF o
  <2>3. d \in Seq(Letter) /\ Len(d) = n - at
    <3>1. \A i \in (at + 1 + o - n)..o : i \in 1..o
      BY <1>1, <2>1
    <3>2. /\ at + 1 + o - n \in Int /\ at + 1 + o - n <= o + 1
          /\ o - (at + 1 + o - n) + 1 = n - at
      BY <1>1, <2>1
    <3> QED BY <1>1, <2>1, <3>1, <3>2 DEF o
  <2>4. Kept(p, work, at) = a \o d
    BY <1>3 DEF Kept, r, o, n
  <2> HIDE DEF a, d
  <2>5. a \o d \in Seq(Letter) /\ Len(a \o d) = Len(a) + Len(d)
    BY <2>2, <2>3, ConcatProperties
  <2>6. at + (n - at) = n
    BY <1>1
  <2> QED BY <2>2, <2>3, <2>4, <2>5, <2>6 DEF n
<1> QED BY <1>2, <1>3

\* The hook leaves a field a field, of the length Intuition left it, wherever
\* the cursor was.
LEMMA EditedTyped ==
  ASSUME NEW p, PwTyped(p), NEW work \in Seq(Letter), NEW cursor \in 0..Len(work)
  PROVE  /\ PwTyped(Edited(p, work, cursor))
         /\ Edited(p, work, cursor).meant = p.meant
         /\ Edited(p, work, cursor).mixed = p.mixed
         /\ Edited(p, work, cursor).mask = p.mask
         /\ Len(Edited(p, work, cursor).real) = Len(work)
         /\ Len(Edited(p, work, cursor).view) = Len(work)
<1> DEFINE n == Len(work) - Len(p.real)
           at == IF ~Inserting(p, work) THEN cursor ELSE IF cursor > n THEN cursor - n ELSE 0
           real == Kept(p, work, at)
           view == Shown(p, work, at, real)
           q == Edited(p, work, cursor)
<1>1. q = [p EXCEPT !.real = real, !.view = view]
  BY DEF Edited
<1>2. Len(work) \in Nat /\ Len(p.real) \in Nat /\ cursor \in Nat /\ cursor <= Len(work)
  BY LenProperties DEF PwTyped
<1>3. CASE Inserting(p, work)
  <2>1. Len(work) > Len(p.real)
    BY <1>3 DEF Inserting
  <2>2. at \in Nat /\ at <= Len(p.real)
    BY <1>2, <1>3, <2>1
  <2> HIDE DEF at, n
  <2>3. real \in Seq(Letter) /\ Len(real) = Len(work)
    BY <1>3, <2>2, KeptText
  <2> HIDE DEF real
  <2>4. view \in Seq(Letter) /\ Len(view) = Len(work)
    <3>1. \A i \in 1..Len(work) : view[i] \in Letter
      BY <2>3 DEF Shown, Letter
    <3> QED BY <1>2, <3>1 DEF Shown
  <2> HIDE DEF view
  <2> QED BY <1>1, <2>3, <2>4 DEF PwTyped
<1>4. CASE ~Inserting(p, work)
  <2>1. Len(work) <= Len(p.real)
    BY <1>2, <1>4 DEF Inserting
  <2>2. at \in Nat /\ at <= Len(work)
    BY <1>2, <1>4
  <2> HIDE DEF at, n
  <2>3. real \in Seq(Letter) /\ Len(real) = Len(work)
    BY <1>4, <2>2, KeptText
  <2> HIDE DEF real
  <2>4. view \in Seq(Letter) /\ Len(view) = Len(work)
    <3>1. \A i \in 1..Len(work) : view[i] = Star
      BY <1>2, <2>1 DEF Shown
    <3> QED BY <1>2, <3>1 DEF Shown, Letter
  <2> HIDE DEF view
  <2> QED BY <1>1, <2>3, <2>4 DEF PwTyped
<1> QED BY <1>3, <1>4

\* A character typed is put into the text where it is put into the view.
LEMMA TypedTrue ==
  ASSUME NEW p, PwTrue(p), NEW at \in 1..(Len(p.view) + 1), NEW c \in Letter
  PROVE  PwTrue(Typed(p, at, c))
<1> DEFINE work == InsertedAt(p.view, at, c)
           e == Edited(p, work, at)
           q == Typed(p, at, c)
           n == Len(p.view)
<1>0. PwTyped(p) /\ p.view \in Seq(Letter) /\ n \in Nat
  BY LenProperties DEF PwTrue, PwTyped
<1>1. /\ work \in Seq(Letter) /\ Len(work) = n + 1
      /\ \A i \in 1..(n + 1) : work[i] =
           IF i < at THEN p.view[i] ELSE IF i = at THEN c ELSE p.view[i - 1]
  <2> DEFINE v == p.view
             w == InsertedAt(v, at, c)
  <2>1. v \in Seq(Letter) /\ at \in 1..(Len(v) + 1) /\ c \in Letter
    BY <1>0
  <2> HIDE DEF v
  <2>2. /\ w \in Seq(Letter) /\ Len(w) = Len(v) + 1
        /\ \A i \in 1..(Len(v) + 1) : w[i] =
              IF i < at THEN v[i] ELSE IF i = at THEN c ELSE v[i - 1]
    BY <2>1, InsertedText
  <2> QED BY <2>2 DEF v
<1>2. at \in 0..Len(work)
  BY <1>0, <1>1
<1> HIDE DEF work
<1>3. PwTyped(e) /\ e.meant = p.meant /\ e.mixed = p.mixed
  BY <1>0, <1>1, <1>2, EditedTyped
<1>4. CASE p.mixed
  <2>1. q = [e EXCEPT !.meant = e.meant]
    BY <1>4 DEF Typed, work
  <2> HIDE DEF e
  <2>2. PwTyped(q) /\ q.mixed = p.mixed
    BY <1>3, <2>1 DEF PwTyped
  <2> QED BY <1>4, <2>2 DEF PwTrue
<1>5. CASE ~p.mixed
  <2>1. p.real = p.meant /\ Len(p.real) = n /\ InStep(p) /\ p.real \in Seq(Letter)
    BY <1>0, <1>5 DEF PwTrue, InStep, PwTyped
  <2>2. Inserting(p, work) /\ Len(work) - Len(p.real) = 1
    BY <1>0, <1>1, <2>1 DEF Inserting
  <2> DEFINE real == Kept(p, work, at - 1)
             view == Shown(p, work, at - 1, real)
  <2>3. e.real = real /\ e.view = view
    <3>1. (IF ~Inserting(p, work) THEN at ELSE IF at > Len(work) - Len(p.real)
           THEN at - (Len(work) - Len(p.real)) ELSE 0) = at - 1
      BY <1>0, <2>2
    <3>2. e = [p EXCEPT !.real = real, !.view = view]
      BY <3>1 DEF Edited
    <3> HIDE DEF real, view, e
    <3> QED BY <1>0, <3>2 DEF PwTyped
  <2>4. real = InsertedAt(p.real, at, c)
    <3>1. SubSeq(work, at, at) = <<c>>
      <4>1. at \in 1..(n + 1) /\ work[at] = c /\ ~(at < at)
        BY <1>0, <1>1
      <4>2. Len(SubSeq(work, at, at)) = 1 /\ SubSeq(work, at, at)[1] = work[at]
        BY <1>0, <1>1, <4>1
      <4>3. SubSeq(work, at, at) \in Seq(Letter)
        BY <1>0, <1>1, <4>1
      <4>4. /\ <<c>> \in Seq(Letter) /\ Len(<<c>>) = 1 /\ <<c>>[1] = c
        OBVIOUS
      <4> DEFINE x == SubSeq(work, at, at)
                 y == <<c>>
      <4>5. x \in Seq(Letter) /\ y \in Seq(Letter) /\ Len(x) = 1 /\ Len(y) = 1 /\ x[1] = y[1]
        BY <4>1, <4>2, <4>3, <4>4
      <4> HIDE DEF x, y
      <4>6. Len(x) = Len(y) /\ \A i \in 1..Len(x) : x[i] = y[i]
        BY <4>5
      <4>7. x = y
        BY <4>5, <4>6, SeqEqual
      <4> QED BY <4>7 DEF x, y
    <3>2. (at - 1) + 1 = at /\ (at - 1) + (n + 1) - n = at
      BY <1>0
    <3> QED BY <1>1, <2>1, <2>2, <3>1, <3>2 DEF Kept, InsertedAt
  <2>5. /\ real \in Seq(Letter) /\ Len(real) = n + 1
    BY <2>1, <2>4, InsertedText
  <2>6. view = [i \in 1..(n + 1) |-> IF i = at THEN real[i] ELSE Star]
    <3>1. \A i \in 1..(n + 1) : i = (at - 1) + 1 <=> i = at
      BY <1>0
    <3> QED BY <1>0, <1>1, <2>1, <3>1 DEF Shown
  <2>7. q = [e EXCEPT !.meant = InsertedAt(p.meant, at, c)]
    BY <1>3, <1>5 DEF Typed, work
  <2> HIDE DEF real, view, e
  <2>8. /\ q.real = real /\ q.view = view /\ q.meant = real /\ q.mixed = p.mixed
        /\ DOMAIN q = DOMAIN e /\ q.mask = e.mask
    BY <1>3, <2>1, <2>3, <2>4, <2>7 DEF PwTyped
  <2>9. PwTyped(q)
    BY <1>3, <2>3, <2>5, <2>8 DEF PwTyped
  <2>10. InStep(q)
    <3>1. Len(view) = n + 1
      BY <1>0, <2>6
    <3>2. \A i \in 1..(n + 1) : view[i] = IF i = at THEN real[i] ELSE Star
      BY <2>6
    <3> HIDE DEF q
    <3> QED BY <1>0, <2>5, <2>8, <3>1, <3>2 DEF InStep
  <2> QED BY <2>9, <2>10 DEF PwTrue
<1> QED BY <1>4, <1>5

\* A character deleted goes from the text where it goes from the view.
LEMMA DeletedTrue ==
  ASSUME NEW p, PwTrue(p), NEW at \in 1..Len(p.view)
  PROVE  PwTrue(Deleted(p, at))
<1> DEFINE work == DeletedAt(p.view, at)
           e == Edited(p, work, at - 1)
           q == Deleted(p, at)
           n == Len(p.view)
<1>0. PwTyped(p) /\ p.view \in Seq(Letter) /\ n \in Nat
  BY LenProperties DEF PwTrue, PwTyped
<1>1. work \in Seq(Letter) /\ Len(work) = n - 1
  BY <1>0, DeletedText
<1>2. at - 1 \in 0..Len(work)
  BY <1>0, <1>1
<1> HIDE DEF work
<1>3. PwTyped(e) /\ e.meant = p.meant /\ e.mixed = p.mixed
  BY <1>0, <1>1, <1>2, EditedTyped
<1>4. CASE p.mixed
  <2>1. q = [e EXCEPT !.meant = e.meant]
    BY <1>4 DEF Deleted, work
  <2> HIDE DEF e
  <2>2. PwTyped(q) /\ q.mixed = p.mixed
    BY <1>3, <2>1 DEF PwTyped
  <2> QED BY <1>4, <2>2 DEF PwTrue
<1>5. CASE ~p.mixed
  <2>1. p.real = p.meant /\ Len(p.real) = n /\ InStep(p) /\ p.real \in Seq(Letter)
    BY <1>0, <1>5 DEF PwTrue, InStep, PwTyped
  <2>2. ~Inserting(p, work)
    BY <1>0, <1>1, <2>1 DEF Inserting
  <2> DEFINE real == Kept(p, work, at - 1)
             view == Shown(p, work, at - 1, real)
  <2>3. e.real = real /\ e.view = view
    <3>1. e = [p EXCEPT !.real = real, !.view = view]
      BY <2>2 DEF Edited
    <3> HIDE DEF real, view, e
    <3> QED BY <1>0, <3>1 DEF PwTyped
  <2>4. real = DeletedAt(p.real, at)
    <3>1. (at - 1) + 1 + n - (n - 1) = at + 1
      BY <1>0
    <3> QED BY <1>1, <2>1, <2>2, <3>1 DEF Kept, DeletedAt
  <2>5. /\ real \in Seq(Letter) /\ Len(real) = n - 1
    BY <2>1, <2>4, DeletedText
  <2>6. view = Stars(n - 1)
    <3>1. Len(work) # Len(p.real) + 1
      BY <1>0, <1>1, <2>1
    <3> QED BY <1>1, <3>1 DEF Shown, Stars
  <2>7. q = [e EXCEPT !.meant = DeletedAt(p.meant, at)]
    BY <1>3, <1>5 DEF Deleted, work
  <2> HIDE DEF real, view, e
  <2>8. /\ q.real = real /\ q.view = view /\ q.meant = real /\ q.mixed = p.mixed
        /\ DOMAIN q = DOMAIN e /\ q.mask = e.mask
    BY <1>3, <2>1, <2>3, <2>4, <2>7 DEF PwTyped
  <2>9. PwTyped(q)
    BY <1>3, <2>3, <2>5, <2>8 DEF PwTyped
  <2>10. InStep(q)
    <3>1. n - 1 \in Nat
      BY <1>0
    <3>2. Len(view) = n - 1 /\ \A i \in 1..(n - 1) : view[i] = Star
      BY <2>6, <3>1, StarsText
    <3> HIDE DEF q
    <3> QED BY <1>0, <2>5, <2>8, <3>2 DEF InStep
  <2> QED BY <2>9, <2>10 DEF PwTrue
<1> QED BY <1>4, <1>5
\* Clearing the field clears the text.
LEMMA ClearedTrue ==
  ASSUME NEW p, PwTrue(p)
  PROVE  PwTrue(Cleared(p))
<1> DEFINE e == Edited(p, <<>>, 0)
           q == Cleared(p)
           n == Len(p.real)
           real == Kept(p, <<>>, 0)
<1>0. PwTyped(p) /\ p.real \in Seq(Letter) /\ n \in Nat
  BY LenProperties DEF PwTrue, PwTyped
<1>1. <<>> \in Seq(Letter) /\ Len(<<>>) = 0 /\ 0 \in 0..Len(<<>>)
  OBVIOUS
<1>2. PwTyped(e) /\ e.meant = p.meant /\ e.mixed = p.mixed
  BY <1>0, <1>1, EditedTyped
<1>3. ~Inserting(p, <<>>)
  BY <1>0, <1>1 DEF Inserting
<1>4. e = [p EXCEPT !.real = real, !.view = Shown(p, <<>>, 0, real)]
  BY <1>3 DEF Edited
<1>5. real = <<>>
  <2> DEFINE a == SubSeq(p.real, 1, 0)
             b == SubSeq(p.real, 0 + 1 + n - 0, n)
  <2>1. Kept(p, <<>>, 0) = a \o b
    BY <1>1, <1>3 DEF Kept
  <2>2. a = <<>> /\ b = <<>>
    BY <1>0
  <2> HIDE DEF a, b
  <2> QED BY <2>1, <2>2
<1>6. Shown(p, <<>>, 0, real) = <<>>
  BY <1>1 DEF Shown
<1> HIDE DEF real, e
<1>7. /\ q.real = <<>> /\ q.view = <<>> /\ q.meant = <<>> /\ q.mixed = p.mixed
      /\ DOMAIN q = DOMAIN e /\ q.mask = e.mask
  <2>1. q = [e EXCEPT !.meant = <<>>]
    BY DEF Cleared, e
  <2>2. e.real = <<>> /\ e.view = <<>>
    BY <1>0, <1>4, <1>5, <1>6 DEF PwTyped
  <2> QED BY <1>2, <2>1, <2>2 DEF PwTyped
<1> HIDE DEF q
<1>8. PwTyped(q)
  BY <1>1, <1>2, <1>7 DEF PwTyped
<1>9. InStep(q)
  BY <1>1, <1>7 DEF InStep
<1>10. PwTrue(q)
  BY <1>8, <1>9 DEF PwTrue
<1> QED BY <1>10 DEF q

\* Whatever one key does.
LEMMA KeyedTrue ==
  ASSUME NEW p, PwTrue(p), NEW q \in Keyed(p, Chars)
  PROVE  PwTrue(q)
<1>1. Chars \subseteq Letter
  BY AppAssumption DEF Letter
<1>2. \/ \E at \in 1..(Len(p.view) + 1), c \in Chars : q = Typed(p, at, c)
      \/ \E at \in 1..Len(p.view) : q = Deleted(p, at)
      \/ q = Cleared(p)
  BY DEF Keyed
<1> QED BY <1>1, <1>2, TypedTrue, DeletedTrue, ClearedTrue

\* A field that is set, left or drawn anew.
LEMMA ShownTrue ==
  /\ \A text \in Seq(Letter) : PwTrue(SetPassword(text))
  /\ \A p : PwTrue(p) => PwTrue(Hidden(p)) /\ PwTrue(Redrawn(p))
<1>1. ASSUME NEW text \in Seq(Letter)
      PROVE  PwTrue(SetPassword(text))
  <2> DEFINE n == Len(text)
             stars == Stars(n)
  <2>1. n \in Nat
    BY LenProperties
  <2>2. stars \in Seq(Letter) /\ Len(stars) = n /\ \A i \in 1..n : stars[i] = Star
    BY <2>1, StarsText
  <2>3. SetPassword(text) = [real |-> text, mask |-> n, view |-> stars,
                             meant |-> text, mixed |-> FALSE]
    BY DEF SetPassword
  <2> HIDE DEF n, stars
  <2> QED BY <2>1, <2>2, <2>3 DEF PwTrue, PwTyped, InStep, n
<1>2. ASSUME NEW p, PwTrue(p)
      PROVE  PwTrue(Hidden(p))
  <2> DEFINE n == Len(p.real)
             stars == Stars(n)
             q == [p EXCEPT !.mask = n, !.view = stars]
  <2>1. PwTyped(p) /\ n \in Nat
    BY <1>2, LenProperties DEF PwTrue, PwTyped
  <2>2. stars \in Seq(Letter) /\ Len(stars) = n /\ \A i \in 1..n : stars[i] = Star
    BY <2>1, StarsText
  <2>3. Hidden(p) = q
    BY DEF Hidden
  <2> HIDE DEF stars
  <2>4. /\ q.real = p.real /\ q.view = stars /\ q.meant = p.meant /\ q.mixed = p.mixed
        /\ q.mask = n /\ DOMAIN q = DOMAIN p
    BY <2>1 DEF PwTyped
  <2> HIDE DEF q
  <2>5. PwTyped(q)
    BY <2>1, <2>2, <2>4 DEF PwTyped
  <2>6. ~q.mixed => InStep(q)
    BY <1>2, <2>1, <2>2, <2>4 DEF PwTrue, InStep
  <2> QED BY <2>3, <2>5, <2>6 DEF PwTrue
<1>3. ASSUME NEW p, PwTrue(p)
      PROVE  PwTrue(Redrawn(p))
  <2> DEFINE stars == Stars(p.mask)
             other == p.mixed \/ p.mask # Len(p.real)
             q == [p EXCEPT !.view = stars, !.mixed = other]
  <2>1. PwTyped(p) /\ p.mask \in Nat
    BY <1>3 DEF PwTrue, PwTyped
  <2>2. stars \in Seq(Letter) /\ Len(stars) = p.mask /\ \A i \in 1..p.mask : stars[i] = Star
    BY <2>1, StarsText
  <2>3. Redrawn(p) = q
    BY DEF Redrawn
  <2>4. ~other => ~p.mixed /\ p.mask = Len(p.real)
    OBVIOUS
  <2> HIDE DEF stars, other
  <2>5. /\ q.real = p.real /\ q.view = stars /\ q.meant = p.meant /\ q.mixed = other
        /\ q.mask = p.mask /\ DOMAIN q = DOMAIN p
    BY <2>1 DEF PwTyped
  <2> HIDE DEF q
  <2>6. PwTyped(q)
    BY <2>1, <2>2, <2>5 DEF PwTyped
  <2>7. ~q.mixed => InStep(q)
    <3>1. ASSUME ~q.mixed
          PROVE  ~p.mixed /\ p.mask = Len(p.real)
      BY <2>4, <2>5, <3>1
    <3> QED BY <1>3, <2>1, <2>2, <2>5, <3>1 DEF PwTrue, InStep
  <2> QED BY <2>3, <2>6, <2>7 DEF PwTrue
<1> QED BY <1>1, <1>2, <1>3
\* What is kept of passwords, in the configurations and the file, is text.
TextInv ==
  /\ conf.pass \in Seq(Letter) /\ backup.pass \in Seq(Letter)
  /\ disk = NoFile \/ disk.pass \in Seq(Letter)

\* The first and the last letter that is no blank.
LEMMA Edges ==
  ASSUME NEW S, NEW t \in Seq(S), Inked(t) # {}
  PROVE  /\ Min(Inked(t)) \in Inked(t) /\ Max(Inked(t)) \in Inked(t)
         /\ \A k \in Inked(t) : Min(Inked(t)) <= k /\ k <= Max(Inked(t))
<1> DEFINE I == Inked(t)
<1>1. Len(t) \in Nat /\ I \in SUBSET (1..Len(t)) /\ I \subseteq Nat
  BY LenProperties DEF Inked
<1> HIDE DEF I
<1>2. I # {}
  BY DEF I
<1>3. \E m \in I : \A k \in I : m <= k
  BY <1>1, <1>2, LeastNumber
<1>4. \E m \in I : \A k \in I : k <= m
  BY <1>1, <1>2, GreatestNumber
<1>5. Min(I) \in I /\ \A k \in I : Min(I) <= k
  BY <1>3 DEF Min
<1>6. Max(I) \in I /\ \A k \in I : k <= Max(I)
  <2>1. \E m \in I : \A k \in I : m >= k
    BY <1>1, <1>4
  <2>2. Max(I) \in I /\ \A k \in I : Max(I) >= k
    BY <2>1 DEF Max
  <2> QED BY <1>1, <2>2
<1> QED BY <1>5, <1>6 DEF I

\* A text that is empty, or begins and ends with no blank.
Trimmed(t) == t = <<>> \/ (t[1] # Blank /\ t[Len(t)] # Blank)

\* take_rest() makes such texts, ...
LEMMA RestText ==
  ASSUME NEW S, NEW t \in Seq(S)
  PROVE  TakeRest(t) \in Seq(S) /\ Trimmed(TakeRest(t))
<1>1. CASE Inked(t) = {}
  BY <1>1 DEF TakeRest, Trimmed
<1>2. CASE Inked(t) # {}
  <2> DEFINE lo == Min(Inked(t))
             hi == Max(Inked(t))
             r == SubSeq(t, lo, hi)
  <2>1. lo \in Inked(t) /\ hi \in Inked(t) /\ lo <= hi
    BY <1>2, Edges
  <2>2. TakeRest(t) = r
    BY <1>2 DEF TakeRest
  <2> HIDE DEF lo, hi
  <2>3. lo \in 1..Len(t) /\ hi \in 1..Len(t) /\ t[lo] # Blank /\ t[hi] # Blank
    BY <2>1 DEF Inked
  <2>4. Len(t) \in Nat
    BY LenProperties
  <2>5. /\ r \in Seq(S) /\ Len(r) = hi - lo + 1
        /\ \A i \in 1..(hi - lo + 1) : r[i] = t[lo + i - 1]
    BY <2>1, <2>3, <2>4
  <2> HIDE DEF r
  <2>6. 1 \in 1..(hi - lo + 1) /\ (hi - lo + 1) \in 1..(hi - lo + 1)
        /\ lo + 1 - 1 = lo /\ lo + (hi - lo + 1) - 1 = hi
    BY <2>1, <2>3, <2>4
  <2>7. r[1] = t[lo] /\ r[Len(r)] = t[hi]
    BY <2>5, <2>6
  <2> QED BY <2>2, <2>3, <2>5, <2>7 DEF Trimmed
<1> QED BY <1>1, <1>2

\* ... and leaves them alone.
LEMMA RestAgain ==
  ASSUME NEW S, NEW t \in Seq(S), Trimmed(t)
  PROVE  TakeRest(t) = t
<1>0. Len(t) \in Nat
  BY LenProperties
<1>1. CASE t = <<>>
  <2>1. Inked(t) = {}
    BY <1>1 DEF Inked
  <2> QED BY <1>1, <2>1 DEF TakeRest
<1>2. CASE t # <<>>
  <2> DEFINE lo == Min(Inked(t))
             hi == Max(Inked(t))
  <2>1. t[1] # Blank /\ t[Len(t)] # Blank /\ Len(t) > 0
    BY <1>0, <1>2, EmptySeq DEF Trimmed
  <2>2. 1 \in Inked(t) /\ Len(t) \in Inked(t)
    BY <1>0, <2>1 DEF Inked
  <2>3. /\ lo \in Inked(t) /\ hi \in Inked(t)
        /\ lo <= 1 /\ Len(t) <= hi
    BY <2>2, Edges
  <2>4. TakeRest(t) = SubSeq(t, lo, hi)
    BY <2>2 DEF TakeRest
  <2> HIDE DEF lo, hi
  <2>5. lo \in 1..Len(t) /\ hi \in 1..Len(t)
    BY <2>3 DEF Inked
  <2>6. lo = 1 /\ hi = Len(t)
    BY <1>0, <2>3, <2>5
  <2>7. SubSeq(t, 1, Len(t)) = t
    BY <1>0
  <2> QED BY <2>4, <2>6, <2>7
<1> QED BY <1>1, <1>2

\* A configuration that was loaded has a password that is text, ...
LEMMA LoadedText ==
  ASSUME disk = NoFile \/ disk.pass \in Seq(Letter)
  PROVE  Defaults.pass \in Seq(Letter) /\ Loaded(disk).pass \in Seq(Letter)
<1>1. Defaults.pass \in Seq(Letter)
  BY DEF Defaults
<1>2. CASE disk = NoFile
  BY <1>1, <1>2 DEF Loaded
<1>3. CASE disk # NoFile
  <2> DEFINE rest == TakeRest(disk.pass)
             pass == FirstOf(rest, MaxPass)
  <2>1. \A s, p, u, l, f, e, q :
          Rebuild([server |-> s, user |-> u, pass |-> pass, port |-> p, local |-> l,
                   folders |-> f, extra |-> e, pairs |-> q]).pass = pass
    BY DEF Rebuild
  <2>2. Loaded(disk).pass = pass
    <3> HIDE DEF rest
    <3> QED BY <1>3, <2>1 DEF Loaded, rest
  <2>3. rest \in Seq(Letter)
    BY <1>3, RestText
  <2> HIDE DEF rest
  <2>4. pass \in Seq(Letter)
    BY <2>3, LimitsAssumption DEF FirstOf
  <2> QED BY <1>1, <2>2, <2>4
<1> QED BY <1>2, <1>3

\* A file that was cut short has the password, a piece of it, or none.
LEMMA TornPass ==
  ASSUME NEW file, "pass" \in DOMAIN file, NEW f \in Torn(file)
  PROVE  f.pass \in {file.pass, FirstOf(file.pass, Len(file.pass) \div 2), <<>>}
<1>1. PICK w : f \in TornBy(file, w)
  BY DEF Torn
<1>2. PICK g \in HeadCut(file, w[1]) : \E x, y : f = [g EXCEPT !.folders = x, !.pairs = y]
  BY <1>1 DEF TornBy
<1>3. PICK x, y : f = [g EXCEPT !.folders = x, !.pairs = y]
  BY <1>2
<1>4. /\ "pass" \in DOMAIN g
      /\ g.pass \in {file.pass, FirstOf(file.pass, Len(file.pass) \div 2), <<>>}
  BY <1>2 DEF HeadCut
<1> QED BY <1>3, <1>4

\* ... so has one that was edited, and that is what a file gets.
LEMMA EditedText ==
  ASSUME NEW c, FreshConf(c), c.pass \in Seq(Letter), NEW name
  PROVE  /\ AddFolder(c, name).pass \in Seq(Letter) /\ DelFolder(c, name).pass \in Seq(Letter)
         /\ Saved(c).pass \in Seq(Letter)
         /\ \A f \in Torn(Saved(c)) : f.pass \in Seq(Letter)
<1>1. \A x : Rebuild([c EXCEPT !.folders = x]).pass = c.pass
  BY DEF FreshConf, ConfKeys, Rebuild
<1>2. AddFolder(c, name).pass = c.pass /\ DelFolder(c, name).pass = c.pass
  BY <1>1 DEF AddFolder, DelFolder
<1>3. Saved(c).pass = c.pass /\ "pass" \in DOMAIN Saved(c)
  BY DEF Saved
<1>4. \A f \in Torn(Saved(c)) : f.pass \in Seq(Letter)
  <2> DEFINE n == Len(c.pass) \div 2
  <2>1. n \in Nat
    <3>1. \A k \in Nat : k \div 2 \in Nat
      OBVIOUS
    <3>2. Len(c.pass) \in Nat
      BY LenProperties
    <3> QED BY <3>1, <3>2
  <2> HIDE DEF n
  <2>2. FirstOf(c.pass, n) \in Seq(Letter) /\ <<>> \in Seq(Letter)
    BY <2>1 DEF FirstOf
  <2> QED BY <1>3, <2>2, TornPass DEF n
<1> QED BY <1>2, <1>3, <1>4

\* The field is read into the configuration.
LEMMA FieldsText ==
  ASSUME FreshConf(conf), PwTrue(pw)
  PROVE  FieldsRead.pass \in Seq(Letter)
<1> DEFINE port == IF fields.port \in 1..(UWord - 1) THEN fields.port ELSE 443
           c == [conf EXCEPT !.server = fields.server, !.user = fields.user,
                   !.pass = pw.real, !.local = fields.local, !.port = port]
<1>1. FieldsRead = Rebuild(c)
  BY DEF FieldsRead
<1> HIDE DEF port
<1>2. DOMAIN c = ConfKeys /\ c.pass = pw.real
  BY DEF FreshConf, ConfKeys
<1> HIDE DEF c
<1>3. Rebuild(c).pass = c.pass
  BY <1>2 DEF Rebuild, ConfKeys
<1> QED BY <1>1, <1>2, <1>3 DEF PwTrue, PwTyped

PassInv == PwTrue(pw) /\ TextInv

\* PassInv is kept.
LEMMA NextPass ==
  ASSUME PassInv, FreshInv, [Next]_vars
  PROVE  PassInv'
<1>0. /\ PwTrue(pw) /\ TextInv /\ FreshConf(conf) /\ FreshConf(backup)
      /\ Defaults.pass \in Seq(Letter) /\ PwTrue(SetPassword(<<>>))
  <2>1. PwTrue(pw) /\ TextInv /\ FreshConf(conf) /\ FreshConf(backup)
    BY DEF PassInv, FreshInv
  <2>2. Defaults.pass \in Seq(Letter)
    BY <2>1, LoadedText DEF TextInv
  <2>3. <<>> \in Seq(Letter)
    OBVIOUS
  <2>4. PwTrue(SetPassword(<<>>))
    BY <2>3, ShownTrue
  <2> QED BY <2>1, <2>2, <2>4
<1> USE DEF store, dialog
<1>1. CASE UNCHANGED <<conf, backup, disk>> /\ PwTrue(pw')
  BY <1>0, <1>1 DEF PassInv, TextInv, PwTrue, PwTyped, InStep
<1>2. CASE Gone /\ (UNCHANGED disk \/ disk'.pass \in Seq(Letter))
  <2>1. conf' = Defaults /\ backup' = Defaults /\ pw' = SetPassword(<<>>)
    BY <1>2 DEF Gone, DialogClosed
  <2>2. PwTrue(pw')
    BY <1>0, <2>1
  <2> HIDE DEF Defaults
  <2> QED BY <1>0, <1>2, <2>1, <2>2 DEF PassInv, TextInv, PwTrue, PwTyped, InStep
<1>3. ASSUME UNCHANGED <<backup, pw>>, conf'.pass \in Seq(Letter),
             UNCHANGED disk \/ disk'.pass \in Seq(Letter)
      PROVE  PassInv'
  BY <1>0, <1>3 DEF PassInv, TextInv, PwTrue, PwTyped, InStep
<1>4. CASE UNCHANGED <<conf, backup, disk, pw>>
  BY <1>0, <1>1, <1>4
<1>5. CASE \E w : DialogOpens(w) /\ UNCHANGED <<conf, disk>>
  <2>1. backup' = conf /\ pw' = SetPassword(conf.pass) /\ UNCHANGED <<conf, disk>>
    BY <1>5 DEF DialogOpens
  <2>2. PwTrue(pw')
    BY <1>0, <2>1, ShownTrue DEF TextInv
  <2> QED BY <1>0, <2>1, <2>2 DEF PassInv, TextInv, PwTrue, PwTyped, InStep
<1>6. CASE User
  <2>1. CASE \E c \in {"gui", "prefs", "cli", "list"} : Start(c)
    <3>1. conf' = Loaded(disk) /\ UNCHANGED <<backup, pw, disk>>
      BY <2>1 DEF Start
    <3>2. Loaded(disk).pass \in Seq(Letter)
      BY <1>0, LoadedText DEF TextInv
    <3> QED BY <1>3, <3>1, <3>2
  <2>2. CASE ClickMain \/ ClickPrefs \/ CtrlC
    BY <1>4, <2>2 DEF ClickMain, ClickPrefs, Click, CtrlC
  <2>3. CASE TypeIn
    <3>1. UNCHANGED <<conf, backup, disk>> /\ (pw' \in Keyed(pw, Chars) \/ UNCHANGED pw)
      BY <2>3 DEF TypeIn
    <3> QED BY <1>0, <1>1, <3>1, KeyedTrue
  <2> QED BY <1>6, <2>1, <2>2, <2>3 DEF User
<1>7. CASE Loop
  <2>1. CASE Resize
    <3>1. UNCHANGED <<conf, backup, disk>> /\ (pw' = Redrawn(pw) \/ UNCHANGED pw)
      BY <2>1 DEF Resize
    <3> QED BY <1>0, <1>1, <3>1, ShownTrue
  <2>2. CASE \E w \in Windows : Wake(w) \/ Break(w) \/ PumpEnds(w)
    BY <1>4, <2>2 DEF Wake, Break, PumpEnds
  <2> QED BY <1>7, <2>1, <2>2 DEF Loop
<1>8. CASE Dialog
  <2>1. CASE FirstDialog
    BY <1>4, <1>5, <2>1 DEF FirstDialog
  <2>2. CASE Connect \/ SaveRefused
    <3>1. conf' = FieldsRead /\ UNCHANGED <<backup, pw, disk>>
      BY <2>2 DEF Connect, SaveRefused
    <3> QED BY <1>0, <1>3, <3>1, FieldsText
  <2>3. CASE Save
    <3>1. /\ conf' = FieldsRead /\ UNCHANGED <<backup, pw>>
          /\ disk' = Saved(FieldsRead) \/ disk' \in Torn(Saved(FieldsRead))
      BY <2>3 DEF Save
    <3>2. FreshConf(FieldsRead) /\ FieldsRead.pass \in Seq(Letter)
      BY <1>0, FieldsText, FieldsAreFresh
    <3>3. disk'.pass \in Seq(Letter)
      BY <3>1, <3>2, EditedText
    <3> QED BY <1>3, <3>1, <3>2, <3>3
  <2>4. CASE Connected \/ Cancel \/ Browse
    BY <1>4, <2>4 DEF Connected, Cancel, Browse
  <2>5. CASE PasswordLeft
    <3>1. UNCHANGED <<conf, backup, disk>> /\ pw' = Hidden(pw)
      BY <2>5 DEF PasswordLeft
    <3> QED BY <1>0, <1>1, <3>1, ShownTrue
  <2>6. CASE Toggle
    <3>1. UNCHANGED <<backup, pw, disk>> /\ \/ UNCHANGED conf
                                            \/ \E name : conf' = DelFolder(conf, name)
                                            \/ \E name : conf' = AddFolder(conf, name)
      BY <2>6 DEF Toggle
    <3>2. conf'.pass \in Seq(Letter)
      BY <1>0, <3>1, EditedText DEF TextInv
    <3> QED BY <1>3, <3>1, <3>2
  <2>7. CASE DialogCloses
    <3>1. /\ backup' = Defaults /\ pw' = SetPassword(<<>>) /\ conf' \in {conf, backup}
          /\ UNCHANGED disk
      BY <2>7 DEF DialogCloses, DialogClosed
    <3>2. PwTrue(pw')
      BY <1>0, <3>1
    <3> HIDE DEF Defaults
    <3> QED BY <1>0, <3>1, <3>2 DEF PassInv, TextInv, PwTrue, PwTyped, InStep
  <2> QED BY <1>8, <2>1, <2>2, <2>3, <2>4, <2>5, <2>6, <2>7 DEF Dialog
<1>9. CASE MainWindow
  <2>1. CASE MainOpens \/ MainCloses \/ Leave \/ StopClick \/ SyncClick
    BY <1>4, <2>1 DEF MainOpens, MainCloses, Leave, StopClick, SyncClick
  <2>2. CASE MenuPrefs
    BY <1>4, <1>5, <2>2 DEF MenuPrefs
  <2> QED BY <1>9, <2>1, <2>2 DEF MainWindow
<1>10. CASE Sync
  BY <1>4, <1>10 DEF Sync, CliOpens, Listed, NextPair, Scan, Finish, NextFile,
                     Transferred, Progress, PollEnds
<1>11. CASE UNCHANGED vars
  BY <1>4, <1>11 DEF vars
<1>12. CASE Crash \/ WildOpen \/ Exit
  BY <1>2, <1>12 DEF Crash, WildOpen, Exit
<1>13. CASE SaveCut
  <2>1. Gone /\ disk' \in Torn(Saved(FieldsRead))
    BY <1>13 DEF SaveCut
  <2>2. FreshConf(FieldsRead) /\ FieldsRead.pass \in Seq(Letter)
    BY <1>0, FieldsText, FieldsAreFresh
  <2>3. disk'.pass \in Seq(Letter)
    BY <2>1, <2>2, EditedText
  <2> QED BY <1>2, <2>1, <2>3
<1> QED BY <1>6, <1>7, <1>8, <1>9, <1>10, <1>11, <1>12, <1>13 DEF Next, Program

\* PassInv and FreshInv hold at the start.
LEMMA InitPass == Init => PassInv /\ FreshInv
<1> SUFFICES ASSUME Init PROVE PassInv /\ FreshInv
  OBVIOUS
<1>1. disk \in Files /\ conf = Defaults /\ backup = Defaults /\ pw = SetPassword(<<>>)
  BY DEF Init
<1>2. disk = NoFile \/ disk.pass \in Seq(Letter)
  <2>1. \A s \in Seq(STRING) : s \in Seq(Letter)
    BY DEF Letter
  <2> QED BY <1>1, <2>1, AppAssumption DEF FileType
<1>3. PwTrue(pw) /\ Defaults.pass \in Seq(Letter)
  <2>1. <<>> \in Seq(Letter)
    OBVIOUS
  <2>2. PwTrue(SetPassword(<<>>))
    BY <2>1, ShownTrue
  <2> QED BY <1>1, <1>2, <2>2, LoadedText
<1> HIDE DEF Defaults
<1> QED BY <1>1, <1>2, <1>3, DefaultsAreFresh DEF PassInv, TextInv, FreshInv

\* The password behind the asterisks is the one that was typed by the view,
\* whatever keys, in whatever order, at whatever place, unless a resize came
\* before the field was left; and the view shows one character of it at most.
THEOREM PasswordIsTyped == Spec => []PasswordKept
<1>1. Init => PassInv /\ FreshInv
  BY InitPass
<1>2. PassInv /\ FreshInv /\ [Next]_vars => PassInv' /\ FreshInv'
  BY NextPass, NextFresh
<1>3. PassInv /\ FreshInv => PasswordKept
  BY DEF PassInv, PwTrue, PasswordKept
<1> QED BY <1>1, <1>2, <1>3, PTL DEF Spec
(***************************************************************************)
(* The Sync button                                                         *)
(***************************************************************************)
\* What the main window was drawn for: under the dialog, what Cancel returns
\* to.
Drawn == IF win["prefs"].open THEN backup ELSE conf
ButtonInv == win["main"].open /\ ~sized => ghosted = ~Complete(Drawn)

\* ButtonInv is kept.
LEMMA NextButton ==
  ASSUME Control, ButtonInv, [Next]_vars
  PROVE  ButtonInv'
<1>0. win \in [Windows -> WindowType] /\ "main" \in Windows /\ "prefs" \in Windows
  BY DEF Control, ControlTypes, Windows
<1> USE DEF store, dialog, button
<1>1. ASSUME UNCHANGED <<button, conf, backup>>, win'["main"].open = win["main"].open,
             win'["prefs"].open = win["prefs"].open
      PROVE  ButtonInv'
  <2>1. Drawn' = Drawn /\ ghosted' = ghosted /\ sized' = sized
    BY <1>1 DEF Drawn
  <2> QED BY <1>1, <2>1 DEF ButtonInv, Complete
<1>2. ASSUME ~win'["main"].open
      PROVE  ButtonInv'
  BY <1>2 DEF ButtonInv
<1>3. ASSUME win["prefs"].open, win'["prefs"].open, UNCHANGED <<button, backup>>,
             win'["main"].open = win["main"].open
      PROVE  ButtonInv'
  <2>1. Drawn' = Drawn /\ ghosted' = ghosted /\ sized' = sized
    BY <1>3 DEF Drawn
  <2> QED BY <1>3, <2>1 DEF ButtonInv, Complete
<1>4. ASSUME ~win["prefs"].open, win'["prefs"].open, UNCHANGED button, backup' = conf,
             win'["main"].open = win["main"].open
      PROVE  ButtonInv'
  <2>1. Drawn' = Drawn /\ ghosted' = ghosted /\ sized' = sized
    BY <1>4 DEF Drawn
  <2> QED BY <1>4, <2>1 DEF ButtonInv, Complete
<1>5. ASSUME Standing, UNCHANGED <<button, conf, backup>>
      PROVE  ButtonInv'
  BY <1>0, <1>1, <1>5 DEF Standing
<1>6. CASE User
  <2>1. CASE \E c \in {"gui", "prefs", "cli", "list"} : Start(c)
    <3>1. main = "off" /\ UNCHANGED win
      BY <2>1 DEF Start
    <3> QED BY <1>2, <3>1 DEF Control, Places
  <2>2. CASE ClickMain \/ ClickPrefs
    <3>1. \E w \in Windows : \E m : Click(w, m)
      BY <2>2 DEF ClickMain, ClickPrefs, Windows
    <3>2. /\ win'["main"].open = win["main"].open /\ win'["prefs"].open = win["prefs"].open
          /\ UNCHANGED <<button, conf, backup>>
      BY <1>0, <3>1 DEF Click, WindowType
    <3> QED BY <1>1, <3>2
  <2>3. CASE TypeIn \/ CtrlC
    BY <1>1, <2>3 DEF TypeIn, CtrlC
  <2> QED BY <1>6, <2>1, <2>2, <2>3 DEF User
<1>7. CASE Loop
  <2>1. CASE Resize
    <3>1. Standing /\ UNCHANGED <<conf, backup>>
      BY <2>1, Reading DEF Resize, Control, Windows
    <3>2. CASE UNCHANGED button
      BY <1>5, <3>1, <3>2
    <3>3. CASE sized' = TRUE
      BY <3>3 DEF ButtonInv
    <3> QED BY <2>1, <3>2, <3>3 DEF Resize
  <2>2. CASE \E w \in Windows : Wake(w) \/ Break(w) \/ PumpEnds(w)
    <3>1. UNCHANGED <<button, conf, backup>>
      BY <2>2 DEF Wake, Break, PumpEnds
    <3>2. PICK w \in Windows : \/ win' = [win EXCEPT ![w].pump = TRUE]
                               \/ win' = [win EXCEPT ![w].done = TRUE]
                               \/ win' = [win EXCEPT ![w].pump = FALSE]
      BY <2>2 DEF Wake, Break, PumpEnds
    <3>3. \A v \in Windows : win'[v].open = win[v].open
      <4>1. CASE win' = [win EXCEPT ![w].pump = TRUE]
        BY <1>0, <4>1 DEF WindowType
      <4>2. CASE win' = [win EXCEPT ![w].done = TRUE]
        BY <1>0, <4>2 DEF WindowType
      <4>3. CASE win' = [win EXCEPT ![w].pump = FALSE]
        BY <1>0, <4>3 DEF WindowType
      <4> QED BY <3>2, <4>1, <4>2, <4>3
    <3> QED BY <1>0, <1>1, <3>1, <3>3
  <2> QED BY <1>7, <2>1, <2>2 DEF Loop
<1>8. CASE Dialog
  <2>1. CASE FirstDialog
    <3>1. ~win["prefs"].open /\ UNCHANGED <<button, conf>>
      BY <2>1 DEF FirstDialog
    <3>2. CASE DialogOpens(win)
      <4>1. /\ win'["main"].open = win["main"].open /\ win'["prefs"].open
            /\ backup' = conf
        BY <1>0, <3>2 DEF DialogOpens, NewWindow, NoWindow
      <4> QED BY <1>4, <3>1, <4>1
    <3>3. CASE UNCHANGED <<win, dialog>>
      BY <1>1, <3>1, <3>3
    <3> QED BY <2>1, <3>2, <3>3 DEF FirstDialog
  <2>2. CASE Connect \/ Toggle \/ SaveRefused \/ Save \/ Cancel \/ Browse \/ PasswordLeft
    <3>1. Standing
      BY <2>2, Reading DEF Connect, Toggle, SaveRefused, Save, Cancel, Browse, PasswordLeft,
                           Control, Windows
    <3>2. win["prefs"].open
      BY <2>2 DEF Connect, Toggle, SaveRefused, Save, Cancel, Browse, PasswordLeft,
                  Receives, Listening
    <3>3. UNCHANGED <<button, backup>>
      BY <2>2 DEF Connect, Toggle, SaveRefused, Save, Cancel, Browse, PasswordLeft
    <3> QED BY <1>0, <1>3, <3>1, <3>2, <3>3 DEF Standing
  <2>3. CASE Connected
    BY <1>1, <2>3 DEF Connected
  <2>4. CASE DialogCloses
    <3>1. /\ win["prefs"].open /\ win'["main"].open = win["main"].open
          /\ ~win'["prefs"].open
      BY <1>0, <2>4 DEF DialogCloses, Waiting, Listening, NoWindow
    <3>2. CASE win["main"].open /\ saved
      <4>1. ghosted' = ~Complete(conf) /\ conf' = conf
        BY <2>4, <3>2 DEF DialogCloses
      <4>2. Drawn' = conf
        BY <3>1, <4>1 DEF Drawn
      <4> QED BY <4>1, <4>2 DEF ButtonInv, Complete
    <3>3. CASE win["main"].open /\ ~saved
      <4>1. conf' = backup /\ ghosted' = ghosted /\ sized' = sized
        BY <2>4, <3>3 DEF DialogCloses
      <4>2. Drawn' = Drawn
        BY <3>1, <4>1 DEF Drawn
      <4> QED BY <3>1, <4>1, <4>2 DEF ButtonInv, Complete
    <3>4. CASE ~win["main"].open
      BY <1>2, <3>1, <3>4
    <3> QED BY <3>2, <3>3, <3>4
  <2> QED BY <1>8, <2>1, <2>2, <2>3, <2>4 DEF Dialog
<1>9. CASE MainWindow
  <2>1. CASE MainOpens
    <3>1. main = "gui" /\ ~win["main"].open /\ UNCHANGED <<conf, backup>>
      BY <2>1 DEF MainOpens
    <3>2. ~win["prefs"].open
      BY <3>1 DEF Control, Places
    <3>3. CASE UNCHANGED win
      BY <1>2, <3>1, <3>3
    <3>4. CASE /\ win' = [win EXCEPT !["main"] = NewWindow] /\ ghosted' = ~Complete(conf)
      <4>1. ~win'["prefs"].open
        BY <1>0, <3>2, <3>4
      <4>2. Drawn' = conf
        BY <3>1, <4>1 DEF Drawn
      <4> QED BY <3>4, <4>2 DEF ButtonInv, Complete
    <3> QED BY <2>1, <3>3, <3>4 DEF MainOpens
  <2>2. CASE MainCloses
    BY <1>0, <1>2, <2>2 DEF MainCloses, NoWindow
  <2>3. CASE MenuPrefs
    <3>1. /\ UNCHANGED <<button, conf>> /\ ~win["prefs"].open /\ win["main"].queue # <<>>
      BY <2>3 DEF MenuPrefs, Receives, Listening
    <3>2. CASE win' = Read("main") /\ UNCHANGED dialog
      <4>1. Standing
        BY <2>3, <3>2, Reading DEF MenuPrefs, Control, Windows
      <4> QED BY <1>5, <3>1, <3>2, <4>1
    <3>3. CASE DialogOpens(Read("main"))
      <4>1. /\ win'["main"].open = win["main"].open /\ win'["prefs"].open /\ backup' = conf
        BY <1>0, <3>3 DEF DialogOpens, Read, NewWindow, NoWindow, WindowType
      <4> QED BY <1>4, <3>1, <4>1
    <3> QED BY <2>3, <3>2, <3>3 DEF MenuPrefs
  <2>4. CASE Leave \/ StopClick \/ SyncClick
    <3>1. \E type : Receives("main", type) /\ (win' = Read("main") \/ win' = ReadAndQuit("main"))
      BY <2>4 DEF Leave, StopClick, SyncClick
    <3>2. Standing
      BY <3>1, Reading DEF Control, Windows
    <3>3. UNCHANGED <<button, conf, backup>>
      BY <2>4 DEF Leave, StopClick, SyncClick
    <3> QED BY <1>5, <3>2, <3>3
  <2> QED BY <1>9, <2>1, <2>2, <2>3, <2>4 DEF MainWindow
<1>10. CASE Sync
  BY <1>1, <1>10 DEF Sync, CliOpens, Listed, NextPair, Scan, Finish, NextFile,
                     Transferred, Progress, PollEnds
<1>11. CASE UNCHANGED vars
  BY <1>1, <1>11 DEF vars
<1>12. CASE Crash \/ SaveCut \/ WildOpen \/ Exit
  BY <1>2, <1>12 DEF Crash, SaveCut, WildOpen, Exit, Gone, NoWindow, Windows
<1> QED BY <1>6, <1>7, <1>8, <1>9, <1>10, <1>11, <1>12 DEF Next, Program

\* The Sync button can be used exactly when there is something to sync, after
\* every Save and every Cancel, but for the time after a resize.
THEOREM SyncButtonRight == Spec => []ButtonRight
<1>1. Init => ButtonInv
  BY DEF Init, ButtonInv, NoWindow, Windows
<1>2. Control /\ ButtonInv /\ [Next]_vars => ButtonInv'
  BY NextButton
<1>3. ButtonInv => ButtonRight
  BY DEF ButtonInv, Drawn, ButtonRight
<1> QED BY <1>1, <1>2, <1>3, ControlInvariant, PTL DEF Spec
=============================================================================
