------------------------------- MODULE NsApp -------------------------------
(***************************************************************************)
(* The program: main() of src/main.c with the main window (src/gui.c), the *)
(* Preferences dialog (src/nsprefs.c) and the event loop of AGUI they run  *)
(* in, over the configuration, the password field and the library bases.   *)
(*                                                                         *)
(* One task.  What runs beside it is the user, who types into gadgets and  *)
(* whose clicks wait in the ports of the windows, and whatever fails.      *)
(***************************************************************************)
EXTENDS NsConf, AgPassword, NsLibs, FiniteSets

CONSTANTS
  Files,      \* what may be on the disk when the program starts, NoFile among it
  Texts,      \* what users type: a set of records [field, text]
  Ports,      \* ... and into the port gadget
  Chars,      \* ... and into the password gadget
  Listings,   \* the folders a server may list, as sequences of names
  Installed,  \* what there is of the libraries, a set of subsets of AllLibs
  MaxList,    \* MAXLIST
  MaxQueue,   \* bound: messages waiting for a window
  MaxInput,   \* bound: what users do
  MaxFaults   \* bound: crashes, failed writes, windows that do not open

FileType == [server : Text, port : Nat, user : Text, pass : Seq(Letter), local : Text,
             folders : Seq(Text), pairs : Seq(Text)]

ASSUME AppAssumption ==
  /\ \A f \in Files \ {NoFile} : f \in FileType
  /\ NoFile \notin FileType
  /\ \A t \in Texts : t.field \in {"server", "user", "local"} /\ t.text \in Text
  /\ Ports \subseteq Nat /\ Chars \subseteq STRING /\ Listings \subseteq Seq(Text)
  /\ MaxPass = MaxChars
  /\ MaxList \in Nat /\ MaxQueue \in Nat /\ MaxInput \in Nat /\ MaxFaults \in Nat

VARIABLES
  disk, conf, torn, off,
  main, rc, brk, trouble, wild,
  win,
  busy, abort, job, cb, pair, ghosted, sized,
  fields, pw, names, rows, backup, saved, late, connecting, before,
  libs, input, faults

(***************************************************************************)
(*   disk, conf     NextSync.conf, and the nsconf of main()                *)
(*   torn           ghost: the file is short of lines that were not written*)
(*   off            ghost: the folders switched off since the file was    *)
(*                  read, by the names a start would know them by          *)
(*   main           where main() is: "off", "first" (Preferences before the*)
(*                  window), "gui", "prefs", "cli" (SYNC), "list", "exit"  *)
(*   brk            SIGBREAKF_CTRL_C                                       *)
(*   trouble, wild  ghosts: a sync met an error or was stopped; a function *)
(*                  was called through a base that is not open             *)
(*   win            the two windows: a_Done, being in pump_messages(), and *)
(*                  the messages at the port                               *)
(*   busy, abort    gui_state; abort is also st.aborted of cmd_sync()      *)
(*   job, pair      where run_sync() or cmd_sync() is, with which pair     *)
(*   cb             the callback of the engine that is polling             *)
(*   ghosted        is the Sync button disabled?                           *)
(*   sized          ghost: the main window was resized                     *)
(*   fields, pw     the gadgets of the dialog                              *)
(*   names ... saved  prefs_state, rows being what the list shows          *)
(*   late           ghost: the dialog went on changing things after Save   *)
(*   before         ghost: conf, disk and off when the dialog was opened   *)
(***************************************************************************)
store == <<disk, conf, torn, off>>
proc == <<main, rc, brk, trouble, wild>>
syncv == <<busy, abort, job, cb, pair>>
button == <<ghosted, sized>>
dialog == <<fields, pw, names, rows, backup, saved, late, connecting, before>>
bounds == <<input, faults>>
vars == <<store, proc, win, syncv, button, dialog, libs, bounds>>

Windows == {"main", "prefs"}
NoWindow == [open |-> FALSE, done |-> FALSE, pump |-> FALSE, queue |-> <<>>]
NewWindow == [NoWindow EXCEPT !.open = TRUE]
Msg(type, row) == [type |-> type, row |-> row]

NoFields == [server |-> <<>>, user |-> <<>>, local |-> <<>>, port |-> 443]
DialogClosed ==
  /\ fields' = NoFields /\ pw' = SetPassword(<<>>) /\ names' = <<>> /\ rows' = <<>>
  /\ backup' = Defaults /\ saved' = FALSE /\ late' = FALSE /\ connecting' = FALSE
  /\ before' = [conf |-> Defaults, disk |-> NoFile, off |-> {}]
SyncIdle == busy' = FALSE /\ abort' = FALSE /\ job' = "off" /\ cb' = "none" /\ pair' = 1

\* The machine without the program.
Gone ==
  /\ conf' = Defaults /\ off' = {} /\ win' = [w \in Windows |-> NoWindow]
  /\ ghosted' = FALSE /\ sized' = FALSE /\ SyncIdle /\ DialogClosed

Init ==
  /\ disk \in Files /\ conf = Defaults /\ torn = FALSE /\ off = {}
  /\ main = "off" /\ rc = 0 /\ brk = FALSE /\ trouble = FALSE /\ wild = FALSE
  /\ win = [w \in Windows |-> NoWindow]
  /\ busy = FALSE /\ abort = FALSE /\ job = "off" /\ cb = "none" /\ pair = 1
  /\ ghosted = FALSE /\ sized = FALSE
  /\ fields = NoFields /\ pw = SetPassword(<<>>) /\ names = <<>> /\ rows = <<>>
  /\ backup = Defaults /\ saved = FALSE /\ late = FALSE /\ connecting = FALSE
  /\ before = [conf |-> Defaults, disk |-> NoFile, off |-> {}]
  /\ libs = LibsClosed /\ input = 0 /\ faults = 0

Fault == faults < MaxFaults /\ faults' = faults + 1
UserActs == input < MaxInput /\ input' = input + 1 /\ UNCHANGED faults
Tls(c) == c.port = 443

(***************************************************************************)
(* Users                                                                   *)
(***************************************************************************)
Usage(command, c) ==
  \/ command = "cli" /\ ~Complete(c)
  \/ command = "list" /\ (c.server = <<>> \/ c.user = <<>>)

Start(command) ==
  /\ main = "off" /\ UserActs
  /\ conf' = Loaded(disk)
  /\ IF Usage(command, conf') THEN main' = "exit" /\ rc' = 20
     ELSE /\ rc' = 0
          /\ main' = IF command = "gui" /\ (disk = NoFile \/ ~Complete(conf'))
                     THEN "first" ELSE command
  /\ brk' = FALSE /\ trouble' = FALSE /\ wild' = FALSE /\ off' = {}
  /\ UNCHANGED <<disk, torn, win, syncv, button, dialog, libs>>

Click(w, m) ==
  /\ win[w].open /\ Len(win[w].queue) < MaxQueue /\ UserActs
  /\ win' = [win EXCEPT ![w].queue = Append(@, m)]
  /\ UNCHANGED <<store, proc, syncv, button, dialog, libs>>

\* A disabled button gives no message: Sync, Connect and Save may be.
ClickMain ==
  \E type \in {"sync", "esc", "close", "quit", "prefs", "size"} :
    (type = "sync" => ~ghosted) /\ Click("main", Msg(type, 0))

ClickPrefs ==
  \/ \E type \in {"cancel", "browse", "size", "left"} : Click("prefs", Msg(type, 0))
  \/ \E type \in {"connect", "save"} : ~connecting /\ Click("prefs", Msg(type, 0))
  \/ \E row \in 1..Len(rows) : Click("prefs", Msg("row", row))

\* Typing is between the user and Intuition, whatever the program does.
TypeIn ==
  /\ win["prefs"].open /\ UserActs
  /\ \/ \E t \in Texts : fields' = [fields EXCEPT ![t.field] = t.text] /\ UNCHANGED pw
     \/ \E n \in Ports : fields' = [fields EXCEPT !.port = n] /\ UNCHANGED pw
     \/ pw' \in Keyed(pw, Chars) /\ UNCHANGED fields
  /\ UNCHANGED <<store, proc, win, syncv, button, names, rows, backup, saved, late,
                 connecting, before, libs>>

CtrlC ==
  /\ main # "off" /\ ~brk /\ UserActs /\ brk' = TRUE
  /\ UNCHANGED <<store, main, rc, trouble, wild, win, syncv, button, dialog, libs>>

\* The machine is switched off, or goes down.
Crash ==
  /\ main # "off" /\ Fault /\ main' = "off" /\ Gone /\ libs' = LibsClosed
  /\ UNCHANGED <<disk, torn, rc, brk, trouble, wild, input>>

(***************************************************************************)
(* The event loop of AGUI.  A dialog runs inside the handler that opened   *)
(* it, and a sync inside the handler that started it.                      *)
(***************************************************************************)
Listening(w) ==
  IF w = "prefs" THEN win["prefs"].open /\ ~connecting
  ELSE win["main"].open /\ ~win["prefs"].open /\ (busy => cb # "none")

Waiting(w) == Listening(w) /\ ~win[w].pump

Wake(w) ==
  /\ Waiting(w) /\ ~win[w].done /\ ~brk /\ win[w].queue # <<>>
  /\ win' = [win EXCEPT ![w].pump = TRUE]
  /\ UNCHANGED <<store, proc, syncv, button, dialog, libs, bounds>>

\* CTRL-C is AGE_CLOSE and the end of the loop, whoever waits.
Break(w) ==
  /\ Waiting(w) /\ ~win[w].done /\ brk /\ brk' = FALSE
  /\ win' = [win EXCEPT ![w].done = TRUE]
  /\ UNCHANGED <<store, main, rc, trouble, wild, syncv, button, dialog, libs, bounds>>

PumpEnds(w) ==
  /\ Listening(w) /\ win[w].pump /\ win[w].queue = <<>> /\ cb = "none"
  /\ win' = [win EXCEPT ![w].pump = FALSE]
  /\ UNCHANGED <<store, proc, syncv, button, dialog, libs, bounds>>

\* Every message that waits is handled, also after one that ended the loop.
Receives(w, type) ==
  /\ Listening(w) /\ win[w].pump /\ win[w].queue # <<>> /\ Head(win[w].queue).type = type
Read(w) == [win EXCEPT ![w].queue = Tail(@)]
ReadAndQuit(w) == [win EXCEPT ![w].queue = Tail(@), ![w].done = TRUE]

\* relayout(): gadgets are made anew, enabled, and with what was kept of them.
Resize ==
  /\ \/ /\ Receives("main", "size") /\ win' = Read("main")
        /\ ghosted' = FALSE /\ sized' = TRUE /\ UNCHANGED pw
     \/ /\ Receives("prefs", "size") /\ win' = Read("prefs")
        /\ pw' = Redrawn(pw) /\ UNCHANGED button
  /\ UNCHANGED <<store, proc, syncv, fields, names, rows, backup, saved, late,
                 connecting, before, libs, bounds>>

(***************************************************************************)
(* Preferences                                                             *)
(***************************************************************************)
\* add_name() for one after the other: no empty ones, none twice, MaxList.
AddNames(list) ==
  LET first == {i \in 1..Len(list) :
                  list[i] # <<>> /\ \A j \in 1..(i - 1) : list[j] # list[i]}
  IN FirstOf(Picked(list, first), MaxList)

Rows(c, list) ==
  [i \in 1..Len(list) |-> [name |-> list[i], on |-> HasFolder(c, list[i])]]
    \o [i \in 1..Len(c.extra) |-> [name |-> c.extra[i].remote, on |-> FALSE]]

DialogOpens(w) ==
  /\ win' = [w EXCEPT !["prefs"] = NewWindow] /\ libs' = AguiOpen(libs)
  /\ backup' = conf
  /\ fields' = [server |-> conf.server, user |-> conf.user, local |-> conf.local,
                port |-> conf.port]
  /\ pw' = SetPassword(conf.pass)
  /\ names' = AddNames(conf.folders) /\ rows' = Rows(conf, names')
  /\ saved' = FALSE /\ late' = FALSE /\ connecting' = FALSE
  /\ before' = [conf |-> conf, disk |-> disk, off |-> off]

WindowFails ==
  /\ Fault
  /\ \E stage \in {OpenStages[i] : i \in 1..6} :
       (stage = "libs" => libs.windows = 0) /\ libs' = AguiFails(libs, stage)

\* nsprefs_show() returns to main(), or to the handler of the main window.
Returns(ok) ==
  /\ main' = IF main = "first" THEN "gui" ELSE IF main = "prefs" THEN "exit" ELSE main
  /\ rc' = IF main = "prefs" /\ ~ok THEN 5 ELSE rc

FirstDialog ==
  /\ main \in {"first", "prefs"} /\ ~win["prefs"].open
  /\ \/ DialogOpens(win) /\ UNCHANGED <<main, rc, faults>>
     \/ WindowFails /\ Returns(FALSE) /\ UNCHANGED <<win, dialog>>
  /\ UNCHANGED <<store, brk, trouble, wild, syncv, button, input>>

MenuPrefsAnyTime ==  \* Mutant: not asked whether a sync is running, or Quit came
  /\ Receives("main", "prefs")
  /\ \/ DialogOpens(Read("main")) /\ UNCHANGED faults
     \/ win' = Read("main") /\ WindowFails /\ UNCHANGED dialog
  /\ UNCHANGED <<store, proc, syncv, button, input>>

\* Not while a sync is running, and no menu is looked at after Quit.
MenuPrefs ==
  /\ Receives("main", "prefs")
  /\ IF busy \/ win["main"].done THEN win' = Read("main") /\ UNCHANGED <<dialog, libs, faults>>
     ELSE \/ DialogOpens(Read("main")) /\ UNCHANGED faults
          \/ win' = Read("main") /\ WindowFails /\ UNCHANGED dialog
  /\ UNCHANGED <<store, proc, syncv, button, input>>

\* read_fields()
FieldsRead ==
  Rebuild([conf EXCEPT
    !.server = fields.server, !.user = fields.user, !.pass = pw.real,
    !.local = fields.local,
    !.port = IF fields.port \in 1..(UWord - 1) THEN fields.port ELSE 443])

Connect ==
  /\ Receives("prefs", "connect") /\ win' = Read("prefs")
  /\ conf' = FieldsRead /\ late' = (late \/ saved)
  /\ IF conf'.server = <<>> \/ conf'.user = <<>> THEN UNCHANGED <<libs, connecting>>
     ELSE /\ ~WildCall(libs, Tls(conf'))
          /\ \E have \in Installed :
               /\ libs' = Opened(libs, Tls(conf'), have)
               /\ connecting' = LibsWork(libs, Tls(conf'), have)
  /\ UNCHANGED <<disk, torn, off, proc, syncv, button, fields, pw, names, rows,
                 backup, saved, before, bounds>>

ConnectedToServer ==  \* Mutant: only what the server lists is listed
  /\ connecting /\ connecting' = FALSE /\ libs' = LibsDown(libs)
  /\ \/ UNCHANGED <<names, rows>>
     \/ \E list \in Listings : names' = AddNames(list) /\ rows' = Rows(conf, names')
  /\ UNCHANGED <<store, proc, win, syncv, button, fields, pw, backup, saved, late,
                 before, bounds>>

\* The server does not answer, or lists folders; those configured come after.
Connected ==
  /\ connecting /\ connecting' = FALSE /\ libs' = LibsDown(libs)
  /\ \/ UNCHANGED <<names, rows>>
     \/ \E list \in Listings :
          names' = AddNames(list \o conf.folders) /\ rows' = Rows(conf, names')
  /\ UNCHANGED <<store, proc, win, syncv, button, fields, pw, backup, saved, late,
                 before, bounds>>

\* toggle_folder(), by the row clicked.  A full table is told the user.
Toggle ==
  /\ Receives("prefs", "row") /\ win' = Read("prefs")
  /\ LET row == Head(win["prefs"].queue).row
     IN IF row > Len(names) THEN UNCHANGED <<conf, off, rows, late>>
        ELSE LET name == names[row]
                 had  == HasFolder(conf, name)
             IN /\ conf' = IF had THEN DelFolder(conf, name) ELSE AddFolder(conf, name)
                /\ off' = IF had THEN off \cup {TakeRest(name)}
                         ELSE IF HasFolder(conf', name) THEN off \ {TakeRest(name)} ELSE off
                /\ rows' = IF had \/ HasFolder(conf', name) THEN Rows(conf', names) ELSE rows
                /\ late' = (late \/ saved)
  /\ UNCHANGED <<disk, torn, proc, syncv, button, fields, pw, names, backup, saved,
                 connecting, before, libs, bounds>>

Savable(c) == c.server # <<>> /\ c.user # <<>> /\ c.local # <<>>

\* Refused for a field that is empty, by the user when there are no folders,
\* or because the file cannot be opened.  The fields have been read anyway.
SaveRefused ==
  /\ Receives("prefs", "save") /\ win' = Read("prefs")
  /\ conf' = FieldsRead /\ late' = (late \/ saved)
  /\ IF Savable(conf') /\ conf'.pairs # <<>> THEN Fault ELSE UNCHANGED faults
  /\ UNCHANGED <<disk, torn, off, proc, syncv, button, fields, pw, names, rows,
                 backup, saved, connecting, before, libs, input>>

Save ==
  /\ Receives("prefs", "save") /\ win' = ReadAndQuit("prefs")
  /\ conf' = FieldsRead /\ Savable(conf') /\ saved' = TRUE /\ late' = (late \/ saved)
  /\ \/ disk' = Saved(conf') /\ torn' = FALSE /\ UNCHANGED faults
     \/ disk' \in Torn(Saved(conf')) /\ torn' = TRUE /\ Fault
  /\ UNCHANGED <<off, proc, syncv, button, fields, pw, names, rows, backup,
                 connecting, before, libs, input>>

\* The machine stops while the file is being written.
SaveCut ==
  /\ Receives("prefs", "save") /\ Savable(FieldsRead) /\ Fault
  /\ disk' \in Torn(Saved(FieldsRead)) /\ torn' = TRUE
  /\ main' = "off" /\ Gone /\ libs' = LibsClosed
  /\ UNCHANGED <<rc, brk, trouble, wild, input>>

\* Cancel and the close gadget.
Cancel ==
  /\ Receives("prefs", "cancel") /\ win' = ReadAndQuit("prefs")
  /\ UNCHANGED <<store, proc, syncv, button, dialog, libs, bounds>>

Browse ==
  /\ Receives("prefs", "browse") /\ win' = Read("prefs")
  /\ \/ UNCHANGED fields
     \/ \E t \in Texts : t.field = "local" /\ fields' = [fields EXCEPT !.local = t.text]
  /\ UNCHANGED <<store, proc, syncv, button, pw, names, rows, backup, saved, late,
                 connecting, before, libs, bounds>>

PasswordLeft ==
  /\ Receives("prefs", "left") /\ win' = Read("prefs") /\ pw' = Hidden(pw)
  /\ UNCHANGED <<store, proc, syncv, button, fields, names, rows, backup, saved, late,
                 connecting, before, libs, bounds>>

\* "Cancel undoes every edit".  The main window shows what was saved.
DialogClosesAsIs ==  \* Mutant: the edits stay
  /\ Waiting("prefs") /\ win["prefs"].done
  /\ win' = [win EXCEPT !["prefs"] = NoWindow] /\ libs' = AguiClose(libs)
  /\ Returns(saved) /\ DialogClosed
  /\ IF win["main"].open /\ saved
     THEN ghosted' = ~Complete(conf) /\ sized' = FALSE ELSE UNCHANGED button
  /\ UNCHANGED <<store, brk, trouble, wild, syncv, bounds>>

DialogClosesQuietly ==  \* Mutant: refresh_config() is not called after it
  /\ Waiting("prefs") /\ win["prefs"].done
  /\ win' = [win EXCEPT !["prefs"] = NoWindow] /\ libs' = AguiClose(libs)
  /\ IF saved THEN UNCHANGED <<conf, off>> ELSE conf' = backup /\ off' = before.off
  /\ Returns(saved) /\ DialogClosed
  /\ UNCHANGED <<button, disk, torn, brk, trouble, wild, syncv, bounds>>

DialogCloses ==
  /\ Waiting("prefs") /\ win["prefs"].done
  /\ win' = [win EXCEPT !["prefs"] = NoWindow] /\ libs' = AguiClose(libs)
  /\ IF saved THEN UNCHANGED <<conf, off>> ELSE conf' = backup /\ off' = before.off
  /\ Returns(saved) /\ DialogClosed
  /\ IF win["main"].open /\ saved
     THEN ghosted' = ~Complete(conf) /\ sized' = FALSE ELSE UNCHANGED button
  /\ UNCHANGED <<disk, torn, brk, trouble, wild, syncv, bounds>>

(***************************************************************************)
(* The main window                                                         *)
(***************************************************************************)
MainOpens ==
  /\ main = "gui" /\ ~win["main"].open
  /\ \/ /\ win' = [win EXCEPT !["main"] = NewWindow] /\ libs' = AguiOpen(libs)
        /\ ghosted' = ~Complete(conf) /\ sized' = FALSE /\ UNCHANGED <<main, rc, faults>>
     \/ WindowFails /\ main' = "exit" /\ rc' = 20 /\ UNCHANGED <<win, button>>
  /\ UNCHANGED <<store, brk, trouble, wild, syncv, dialog, input>>

MainCloses ==
  /\ Waiting("main") /\ win["main"].done
  /\ win' = [win EXCEPT !["main"] = NoWindow] /\ libs' = AguiClose(libs)
  /\ main' = "exit"
  /\ UNCHANGED <<store, rc, brk, trouble, wild, syncv, button, dialog, bounds>>

\* The close gadget, ESC, Quit.
Leave ==
  /\ \/ Receives("main", "close") /\ IF busy THEN abort' = TRUE /\ win' = Read("main")
                                     ELSE win' = ReadAndQuit("main") /\ UNCHANGED abort
     \/ Receives("main", "esc") /\ win' = Read("main") /\ abort' = (abort \/ busy)
     \/ Receives("main", "quit") /\ UNCHANGED abort
          /\ win' = IF busy THEN Read("main") ELSE ReadAndQuit("main")
  /\ UNCHANGED <<store, proc, busy, job, cb, pair, button, dialog, libs, bounds>>

\* The button that starts a sync, and stops the one that is running.
StopClick ==
  /\ Receives("main", "sync") /\ busy /\ win' = Read("main") /\ abort' = TRUE
  /\ UNCHANGED <<store, proc, busy, job, cb, pair, button, dialog, libs, bounds>>

SyncClick ==
  /\ Receives("main", "sync") /\ ~busy /\ win' = Read("main")
  /\ ~WildCall(libs, Tls(conf))
  /\ \E have \in Installed :
       /\ libs' = Opened(libs, Tls(conf), have)
       /\ IF LibsWork(libs, Tls(conf), have)
          THEN busy' = TRUE /\ abort' = FALSE /\ job' = "pair" /\ pair' = 1 /\ UNCHANGED cb
          ELSE UNCHANGED syncv
  /\ UNCHANGED <<store, proc, button, dialog, bounds>>

(***************************************************************************)
(* run_sync() and cmd_sync(), around nssync_run()                          *)
(***************************************************************************)
CliOpens ==
  /\ main \in {"cli", "list"} /\ job = "off"
  /\ ~WildCall(libs, Tls(conf))
  /\ \E have \in Installed :
       /\ libs' = Opened(libs, Tls(conf), have)
       /\ IF LibsWork(libs, Tls(conf), have)
          THEN /\ job' = IF main = "cli" THEN "pair" ELSE "listing"
               /\ UNCHANGED <<main, rc, trouble>>
          ELSE main' = "exit" /\ rc' = 10 /\ trouble' = TRUE /\ UNCHANGED job
  /\ UNCHANGED <<store, brk, wild, win, busy, abort, cb, pair, button, dialog, bounds>>

\* libs_up() answers TRUE without looking: the program goes down.
WildOpen ==
  /\ \/ Receives("main", "sync") /\ ~busy /\ WildCall(libs, Tls(conf))
     \/ main \in {"cli", "list"} /\ job = "off" /\ WildCall(libs, Tls(conf))
     \/ /\ Receives("prefs", "connect") /\ WildCall(libs, Tls(FieldsRead))
        /\ FieldsRead.server # <<>> /\ FieldsRead.user # <<>>
  /\ main' = "off" /\ wild' = TRUE /\ Gone /\ libs' = LibsClosed
  /\ UNCHANGED <<disk, torn, rc, brk, trouble, bounds>>

\* NextSync LIST
Listed ==
  /\ job = "listing" /\ job' = "off" /\ libs' = LibsDown(libs) /\ main' = "exit"
  /\ \/ UNCHANGED <<rc, trouble>>
     \/ rc' = 10 /\ trouble' = TRUE
  /\ UNCHANGED <<store, brk, wild, win, busy, abort, cb, pair, button, dialog, bounds>>

EveryPair ==  \* Mutant: the loop over the pairs does not look at abort
  /\ job = "pair" /\ UNCHANGED <<store, rc, brk, trouble, wild, win, button, dialog, bounds>>
  /\ IF pair <= Len(conf.pairs)
     THEN job' = "scan" /\ UNCHANGED <<main, busy, abort, cb, pair, libs>>
     ELSE /\ SyncIdle /\ libs' = LibsDown(libs)
          /\ main' = IF main = "cli" THEN "exit" ELSE main

NextPair ==
  /\ job = "pair" /\ UNCHANGED <<store, rc, brk, trouble, wild, win, button, dialog, bounds>>
  /\ IF pair <= Len(conf.pairs) /\ ~abort
     THEN job' = "scan" /\ UNCHANGED <<main, busy, abort, cb, pair, libs>>
     ELSE /\ SyncIdle /\ libs' = LibsDown(libs)
          /\ main' = IF main = "cli" THEN "exit" ELSE main

\* nssync_run() returns.  The command line makes a return code of it.
RunReturnsLast(ok, failed, stopped) ==  \* Mutant: the last pair decides
  /\ job' = "pair" /\ pair' = pair + 1 /\ cb' = "none"
  /\ IF main = "cli"
     THEN /\ rc' = IF ~ok THEN 10 ELSE IF failed \/ stopped THEN 5 ELSE 0
          /\ abort' = stopped /\ trouble' = (trouble \/ ~ok \/ failed \/ stopped)
     ELSE UNCHANGED <<rc, abort, trouble>>

RunReturns(ok, failed, stopped) ==
  /\ job' = "pair" /\ pair' = pair + 1 /\ cb' = "none"
  /\ IF main = "cli"
     THEN /\ rc' = IF ~ok THEN 10 ELSE IF failed \/ stopped THEN 5 ELSE rc
          /\ abort' = stopped /\ trouble' = (trouble \/ ~ok \/ failed \/ stopped)
     ELSE UNCHANGED <<rc, abort, trouble>>

\* Both scans, then one file after the other, as many as there are.
Scan ==
  /\ job = "scan" /\ cb = "none"
  /\ \/ job' = "items" /\ UNCHANGED <<rc, trouble, abort, cb, pair>>
     \/ RunReturns(FALSE, FALSE, FALSE)
  /\ UNCHANGED <<store, main, brk, wild, win, busy, button, dialog, libs, bounds>>

Finish ==
  /\ job = "items" /\ cb = "none" /\ \E failed \in BOOLEAN : RunReturns(TRUE, failed, FALSE)
  /\ UNCHANGED <<store, main, brk, wild, win, busy, button, dialog, libs, bounds>>

\* file_cb: cli_file() looks at the signal and clears it, gui_file() polls.
NextFile ==
  /\ job = "items" /\ cb = "none"
  /\ IF main # "cli"
     THEN cb' = "file" /\ UNCHANGED <<rc, brk, trouble, abort, job, pair>>
     ELSE IF brk THEN brk' = FALSE /\ RunReturns(TRUE, FALSE, TRUE)
     ELSE job' = "flight" /\ UNCHANGED <<rc, brk, trouble, abort, cb, pair>>
  /\ UNCHANGED <<store, main, wild, win, busy, button, dialog, libs, bounds>>

Transferred ==
  /\ job = "flight" /\ cb = "none" /\ job' = "items"
  /\ UNCHANGED <<store, proc, win, busy, abort, cb, pair, button, dialog, libs, bounds>>

\* gui_progress(), after a block.
Progress ==
  /\ main # "cli" /\ job \in {"scan", "flight"} /\ cb = "none"
  /\ win["main"].queue # <<>> /\ cb' = job
  /\ UNCHANGED <<store, proc, win, busy, abort, job, pair, button, dialog, libs, bounds>>

Goes(next) == job' = next /\ cb' = "none" /\ UNCHANGED <<rc, trouble, abort, pair>>

FileAnyway ==  \* Mutant: gui_file() polls and answers TRUE
  /\ cb # "none" /\ win["main"].queue = <<>> /\ ~win["prefs"].open
  /\ \/ abort /\ cb = "scan" /\ RunReturns(FALSE, FALSE, FALSE)
     \/ abort /\ cb = "flight" /\ Goes("items")
     \/ (abort => cb = "file") /\ Goes(IF cb = "file" THEN "flight" ELSE job)
  /\ UNCHANGED <<store, main, brk, wild, win, busy, button, dialog, libs, bounds>>

\* The callback answers !abort.  FALSE ends the run before the next file,
\* breaks the file in flight off, and fails the scan of the server.
PollEnds ==
  /\ cb # "none" /\ win["main"].queue = <<>> /\ ~win["prefs"].open
  /\ \/ abort /\ cb = "file" /\ RunReturns(TRUE, FALSE, TRUE)
     \/ abort /\ cb = "scan" /\ RunReturns(FALSE, FALSE, FALSE)
     \/ abort /\ cb = "flight" /\ Goes("items")
     \/ ~abort /\ Goes(IF cb = "file" THEN "flight" ELSE job)
  /\ UNCHANGED <<store, main, brk, wild, win, busy, button, dialog, libs, bounds>>

\* nshttp_shutdown(), the last thing before the program ends.
ExitOpen ==  \* Mutant: without it
  /\ main = "exit" /\ main' = "off" /\ Gone /\ UNCHANGED libs
  /\ UNCHANGED <<disk, torn, rc, brk, trouble, wild, bounds>>

Exit ==
  /\ main = "exit" /\ main' = "off" /\ Gone /\ libs' = Shutdown(libs)
  /\ UNCHANGED <<disk, torn, rc, brk, trouble, wild, bounds>>

(***************************************************************************)
(* The specification                                                       *)
(***************************************************************************)
User == (\E c \in {"gui", "prefs", "cli", "list"} : Start(c)) \/ ClickMain \/ ClickPrefs
          \/ TypeIn \/ CtrlC
Loop == (\E w \in Windows : Wake(w) \/ Break(w) \/ PumpEnds(w)) \/ Resize
Dialog == FirstDialog \/ Connect \/ Connected \/ Toggle \/ SaveRefused \/ Save \/ Cancel
            \/ Browse \/ PasswordLeft \/ DialogCloses
MainWindow == MainOpens \/ MainCloses \/ Leave \/ MenuPrefs \/ StopClick \/ SyncClick
Sync == CliOpens \/ Listed \/ NextPair \/ Scan \/ Finish \/ NextFile \/ Transferred \/ Progress
          \/ PollEnds
Program == Loop \/ Dialog \/ MainWindow \/ Sync \/ WildOpen \/ Exit

Next == User \/ Program \/ Crash \/ SaveCut

Spec == Init /\ [][Next]_vars

\* The task goes on when it can.  Users do as they like.
FairSpec == Spec /\ WF_vars(Program)

(***************************************************************************)
(* Properties                                                              *)
(***************************************************************************)
Messages ==
  {m \in [type : {"sync", "esc", "close", "quit", "prefs", "size", "connect", "save",
                   "cancel", "browse", "left", "row"}, row : Nat] :
     m.type = "row" => m.row > 0}

\* Type invariant, with the limits of the tables and of the counters.
TypeOK ==
  /\ main \in {"off", "first", "gui", "prefs", "cli", "list", "exit"} /\ rc \in {0, 5, 10, 20}
  /\ \A v \in {torn, brk, trouble, wild, busy, abort, ghosted, sized, saved, late, connecting} :
       v \in BOOLEAN
  /\ job \in {"off", "pair", "scan", "items", "flight", "listing"}
  /\ cb \in {"none", "file", "scan", "flight"} /\ pair \in Nat
  /\ \A w \in Windows :
       /\ win[w].open \in BOOLEAN /\ win[w].done \in BOOLEAN /\ win[w].pump \in BOOLEAN
       /\ win[w].queue \in Seq(Messages) /\ Len(win[w].queue) <= MaxQueue
  /\ Len(conf.folders) <= MaxFolders /\ Len(conf.extra) <= MaxExtra
  /\ conf.port \in 1..(UWord - 1) /\ Len(conf.pairs) <= MaxFolders + MaxExtra
  /\ Len(names) <= MaxList /\ Len(pw.real) <= MaxChars /\ Len(pw.view) <= MaxChars

\* The pairs the engine works from are those of the folders and the drawer
\* in the configuration, after every toggle, and in the middle of edits.
PairsFresh == conf.pairs = Pairs(conf)

\* The dialog is left.  A crash is not that.
PrefsLeft == win["prefs"].open /\ ~win'["prefs"].open /\ main' # "off"

\* "On Cancel conf is left exactly as it was", and so is the file: whatever
\* was typed, toggled, connected with, or refused by Save before.
CancelRestores ==
  [][PrefsLeft /\ ~saved => conf' = before.conf /\ disk' = before.disk]_vars

\* After Save the program works with what the next start will load, as long
\* as the server and the user are words, the password, the drawer and the
\* folders begin and end with no blank, all lines were written and nothing
\* that waited at the port behind Save changed anything.
Plain(c) ==
  /\ TakeWord(c.server) = c.server /\ TakeWord(c.user) = c.user
  /\ TakeRest(c.pass) = c.pass /\ TakeRest(c.local) = c.local
  /\ Rests(c.folders) = c.folders
SavedIsLoaded ==
  [][PrefsLeft /\ saved /\ ~late /\ ~torn /\ Plain(conf) => Loaded(disk') = conf']_vars

\* "So Save cannot silently drop it": of the folders and pairs a start would
\* have loaded, a file that is written whole has all that were not switched
\* off, whether the server lists them or the list has room for them.
KeepsLines(old, new) ==
  /\ ToSet(old.folders) \ off \subseteq ToSet(new.folders)
  /\ old.extra = new.extra
NothingDropped ==
  [][disk' # disk /\ ~torn' => torn \/ KeepsLines(Loaded(disk), Loaded(disk'))]_vars

\* While a sync is running the pairs it goes through are not changed under
\* it, nor is the file: the handler is entered again, but only for Stop.
Undisturbed == [][busy /\ busy' => UNCHANGED <<conf, disk>>]_vars

\* After Stop no file and no folder is begun.
NothingBegun == [][abort /\ job' \in {"scan", "flight"} => job' = job]_vars

\* Stop leads to the end of the sync, however many files are left.
StopStops == abort ~> ~busy

\* Quit leads to the end of the program, or to the sync that was asked for
\* by a click that waited behind it.
QuitEnds == win["main"].done ~> (main = "off" \/ busy)

\* The list shows the folders as they are ticked, and every one that is
\* configured while there is room, also when the server does not list it.
ListTrue ==
  win["prefs"].open =>
    /\ rows = Rows(conf, names)
    /\ ToSet(conf.folders) \subseteq ToSet(names) \cup {<<>>} \/ Len(names) = MaxList

\* The Sync button can be used exactly when there is something to sync, but
\* for the time after a resize.
ButtonRight ==
  win["main"].open /\ ~win["prefs"].open /\ ~sized => ghosted = ~Complete(conf)

\* The password kept is the one typed, unless a resize came before the field
\* was left.
PasswordKept == win["prefs"].open /\ ~pw.mixed => InStep(pw)

\* Libraries are open while a handle or a window needs them, also when the
\* dialog over the main window was closed; and nothing is open at the end.
HandleOpen == connecting \/ job # "off"
LibsHeld ==
  /\ libs.users = IF HandleOpen THEN 1 ELSE 0
  /\ HandleOpen => libs.sock /\ (Tls(conf) => libs.ssl)
  /\ libs.windows = Cardinality({w \in Windows : win[w].open}) /\ libs.locks = 0
  /\ libs.windows > 0 => libs.base
  /\ (libs.base => libs.utility > 0) /\ libs.utility >= 0
  /\ main = "off" => ~libs.base /\ ~libs.sock /\ ~libs.master /\ ~libs.ssl

\* NextSync SYNC returns 0 only when every pair was synced without a fault,
\* and NextSync LIST when the folder was listed.
HonestExit ==
  [][main' = "exit" /\ rc' = 0 /\ main \in {"cli", "list"} =>
       ~trouble' /\ (main = "cli" => pair \notin 1..Len(conf.pairs))]_vars

\* "If it cannot, it tells you why": a connection that TLS is missing for is
\* refused and never made through a library that is not open.
TlsReady == ~wild
=============================================================================
