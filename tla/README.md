# A verification project for NextSync

NextSync keeps drawers on an Amiga in step with folders on a Nextcloud
server, over WebDAV. This directory holds TLA+ models of its code, the TLC
runs that check them on small instances, and proofs checked by TLAPS of the
properties that matter most, for every instance. Line numbers refer to the
files under `src/` (so `src/src/nssync.c` is the sync engine).

## The system

| component | code | state it keeps | what is hard about it |
|---|---|---|---|
| sync engine | `nssync.c` | the table of items (what the scans saw, the last sync), `.nextsync.state`, `.nspart` files | three sources compared at three times, crashes and failures between any two steps, edits by others meanwhile |
| WebDAV requests | `nsdav.c` | none but an error text | effects on the server that a lost answer hides; replacing a file in several DOS calls |
| HTTP client | `nshttp.c` | the kept connection, the retry, sink and file handles | stale connections, a retry of half a transfer, framing of bodies |
| library bootstrap | `nshttp.c` 160-231, `agui.c` 1022-1061 | library bases, use counters, one base that both files share | bases that outlive handles, failures half way, a window that needs what another closes |
| XML reader | `nsxml.c`, `nsdav.c` 118-313 | a stack of open elements, the entry being read | a document may be cut anywhere, or nest too deep |
| configuration | `nsconf.c` | server, user, folders, pairs of 1.0, and the table of pairs made of them | a derived table that every edit must rebuild, a file rewritten in place, limits |
| preferences | `nsprefs.c` | the gadgets, the list of folders on offer, a copy to cancel to | Cancel and Save after any sequence of edits |
| GUI | `gui.c` | `busy`, `abort`, the Sync button | the event handler is entered again from inside the sync it started |
| command line | `main.c` | a return code | CTRL-C, a return code made of many pairs |
| AGUI toolkit | `agui/src/agui.c` | windows, ports, gadgets, event loop, password field | nested windows, messages behind the one that closes, gadgets made anew by a resize |

How they interact: the GUI or the command line opens one HTTP handle
(`nshttp_open`), wraps it (`nsdav_init`) and calls `nssync_run` for one folder
pair after the other. The engine asks the server through `nsdav.c`, which makes
one blocking request at a time through `nshttp.c`. Twice it is called back:
`file_cb` before each transfer or deletion, and the progress callback after each
block; both pump the GUI's events and answer FALSE once Stop was pressed. The
Preferences dialog is a second window with an event loop of its own, inside the
handler of the main window or before it. Everything runs in one task. The
concurrency is with the outside: the user who edits the drawer or clicks and types
while the program does something else, other clients of the server, the server
and the network.

### What makes each part correct

- Engine: both sides end up the same; nothing a user wrote is lost; a deletion
  is carried over only when it was one; what is recorded as synced really is
  the same on both sides; a second run does nothing; a run ends.
- HTTP client: an answer belongs to its request; a PUT or GET moves a whole file
  or none; a request reported done is done; a stale connection does not show;
  a request ends.
- XML reader: a listing is read as the server wrote it or not at all.
- Bootstrap: nothing is used before it is open or after it is closed.
- Configuration and preferences: what was saved is what is loaded; Save drops
  nothing; Cancel leaves no trace; the pairs are always those of the folders.
- GUI: one sync at a time; Stop stops; nothing else acts while busy; the button
  can be used when there is something to sync.
- Command line: 0 is returned only for a sync that was complete.
- Password field: what is kept is what was typed.

## The modules

| module | what it is |
|---|---|
| `NsSync` | the engine, one action per step that something can come between |
| `MCNsSync` | small folders for TLC: their names, order and shape |
| `NsSyncProofs` | `TypeInvariant`, and the typing and tree lemmas it rests on; `SoundInvariant` and `StateSoundness` |
| `NsSyncLoss` | `LossInvariant`, `LossIsConfined`, and what deletions on the server are founded on; it extends `NsSyncProofs` |
| `NsSyncSettle` | `SettleInvariant`: what each of the first undisturbed runs achieves; `ConvergesOrSticks`, `Converges`, `LaterRunsAreQuiet`; it extends `NsSyncLoss` |
| `NsHttp` | `do_request` with the kept connection, beside server and network |
| `MCNsHttp` | small files for TLC |
| `NsTransport` | abstract: what a request promises the engine |
| `NsHttpProofs` | `LinkInvariant`, `AnswersPaired`, `PutStoresWhole` and types; `KeepsThePromise`: `NsHttp` implements `NsTransport`; what follows for downloads, listings and retries |
| `NsListing` | operators: `nsxml_parse()` with the handlers of `nsdav.c`, as a fold over tokens |
| `NsTime` | operators and theorems: DateStamps, HTTP dates, and the seconds both become |
| `NsCounting` | operators and lemmas: what a loop keeps of a sequence when it passes over some entries; least numbers |
| `NsConf` | operators: the configuration, its file, and a file cut short |
| `AgPassword` | operators: the password field and its edit hook |
| `NsLibs` | operators: library bases and their counters |
| `NsApp` | the program: `main()`, both windows, the event loop, the sync as the windows see it, over `NsConf`, `AgPassword` and `NsLibs` |
| `MCNsApp` | small configurations, texts and listings for TLC |
| `NsAppProofs` | the control invariant; Cancel, Stop, an undisturbed sync, fresh pairs, the return code, `LibrariesHeld`, `PasswordIsTyped`, `SyncButtonRight` |
| `NsAppConf` | `TypesAndLimits`, `ListIsTrue`, `SaveIsLoaded` and `SaveDropsNothing`; it extends `NsAppProofs` |

`NsSync` and `NsHttp` are joined by `NsTransport`: a request in `NsSync` is a step
that takes effect on the server or not and is told as done or failed, which is
what `NsTransport` promises and `NsHttp` is shown to keep. Of a GET it promises the
data only when nothing went wrong since it was asked for (`Brought`): otherwise the
caller may be told "ok" and have another file. So `NsSync.Get` has two outcomes: without
a fault the server's data, and after a `net` fault a file of nobody's under the etag of
the answer. `NsApp` in its turn
sees `nssync_run()` as scan, files and callbacks, with any number of files and any
outcome; what a run does to the files is left to `NsSync`.

### NsSync

The state is the two trees of files (`loc`, `rem`), the state file (`st`), the
`.nspart` files (`part`), and the run: `pc`, the table (`tab`) with its columns
as functions on paths (`sr` and `sl`, the `r_` and `l_` fields; `ss`, the `s_`
fields; `rmd`), and `todo`, the drawers still to scan or the items still to
handle. The loop index is `todo` itself: `First` is the item `sort_items`
brings next, `Last` the one the removal pass goes to.

Contents are versions, numbers drawn from `clock`; what a broken GET leaves is a version
of its own, since it has another length than the file it stands for. Etags are versions. A
local size and datestamp together are one number, the stamp, equal when
sizes are equal and times at most 2 seconds apart. `X-OC-MTime` and
`SetFileDate` carry stamps across, as in the code.

One listing of a folder is one step, one item of the loop is one step, and a
download is five: `Download` (choice, parent drawers), `Get`, `Swap`
(`DeleteFile`), `Install` (`Rename`), `Stamp`; `dl` is what lies in the `.nspart`
meanwhile, the version it should be and the etag of that. An upload is two when the server
sends no etag with its answer (`PutTags = FALSE`). Edits, crashes and faults
come between any two of these. `Fault` uses up one of `MaxFaults`; the events it
is called with are listed in the module. Errors that follow from the state
alone, like a GET of what is no longer there, cost nothing. A request over the
network fails before or after the server has acted.

Users create, change and delete at the places in `KindsOf`, when `pc` is in
`LocalWindow` or `RemoteWindow`. The ghost `owed` holds the versions that users
wrote and did not themselves overwrite or delete; `razed` those that went with a
folder that was deleted on the server; `copied` those that have at some time lain in
a conflict copy; `mangled` pairs a version on the server with what a GET has made of it
that was sent again in its middle or cut without a length to tell (both of these are noted beside
every step, `Notes`); `calm` counts runs without an edit or a fault.

### NsHttp

One handle, one resource. `wire` is what the server has sent and the client has
not read, as items: a head, blocks, the end of a chunked body. `inbox` is the
request the server has so far. The server's end may go (`up`) long before the
client notices (`connected`): a send may seem to work all the same. `attempt`,
`fresh`, the position `pos` of the file sent, `left` and `written` are the
variables of `do_request`. Blocks are 16 KB pieces, so the only lengths are
whole blocks. `resp.full` and `resp.mine` are ghosts: the body the
server meant to send and whether the answer is for the present attempt. `clean`
is a ghost too: nothing went wrong since the request began. Nothing in this
module counts upwards, so no bound on requests or faults is needed.

`Close` lets the server carry out a request it has got in full although the
client has gone. A server that refuses a request does so with an error and
closes, perhaps before it has read the body.

`NsTransport` is the abstract specification beside it: a caller asks, the request
is carried out as a whole, any number of times, while it waits; it is told "ok"
only when what it asked for is so, and a failure tells it nothing. What a GET has brought
(`got`) is what the server has as long as nothing went wrong since it was asked for
(`clean`, a history variable; `Mishap` ends it). In the
refinement a caller waits as long as `pc` is not `"idle"`; `res`, `req` and
`result` are the variables of that name. A refused request that was carried out at
the same moment is why `GiveUp` may change the resource.

A listing has two blocks, and `Parses` stands for the reader: it takes the whole
document or nothing, or what is cut before the first element (the `listing` event of
`NsSync`). That this is what the
reader does is checked of `NsListing`.

### NsListing

A document is a sequence of tokens; a text is one token per word. `Token` is one
turn of the loop of `nsxml_parse()`, with the stack of frames and the limits
`MAXDEPTH` and `MAXTEXT`; `Start` and `Ended` are `pf_start()` and `pf_end()`; `List`
and `Stat` the two callers. `memory` is how many entries can be allocated. What
servers write is `Multistatus`, after the properties the request names.

### NsTime

`ds2unix()`, `unix2ds()` and the arithmetic at the end of `parse_http_date()`, over
all numbers, with a ULONG modulo 2^32. `MonthLength` is the calendar they are
compared with.

### NsConf, AgPassword, NsLibs

Three modules of operators on one record each. A text of `NsConf` is the sequence
of its words and of the blanks that do not stand between two words, a password that of
its letters, since blanks are what a value loses on its way through the file:
`TakeWord` (`take_word`) takes what comes before the next one, `TakeRest` (`take_rest`)
leaves them out at both ends. Nothing is trimmed when it is typed, so a
password with a blank at an edge is used as typed after Save and another after the next
start. `Torn` is what failing Writes, or a crash between them, may leave:
`nsconf_save()` writes the first five lines at once and each folder and pair by
itself, and goes on after one that fails. Each Write is whole, lost, or cut in the
key or the value of a line (`Failures`): up to `MaxLost` of them by themselves, or all from
one on. The next line is joined to a half one (`LinesLeft`). A loop that passes over empty names or broken lines is
`Picked` of `NsCounting`: the k-th entry kept is the one up to which k are counted. It is
what `SelectSeq` computes, without recursion, which the proofs could not follow.

`AgPassword` has the text kept (`pw_real`), the number of asterisks in `pw_Mask`, and
what the gadget shows. Intuition changes its buffer first; `Edited` is the hook,
which sees the buffer and the cursor and works out what was done. The ghost
`meant` is what somebody who edits by the view has typed.

`NsLibs` has a use counter and flags of the bases of `nshttp.c`, and the counter of
windows of `agui.c`. Both files define `UtilityBase`, and linked together it is one
variable: `base`, while `utility` counts how often the library really is open.
`AguiFails` goes through all stages of `AGUI_Open()`, with the lock of the screen.

### NsApp

| state | code |
|---|---|
| `disk`, `conf` | `NextSync.conf`, the `nsconf` of `main()` |
| `main`, `rc`, `brk` | where `main()` is, its return code, CTRL-C |
| `win` | per window: open, `a_Done`, in `pump_messages()`, what waits at its port |
| `busy`, `abort`, `job`, `pair`, `cb` | `gui_state`, where `run_sync()` or `cmd_sync()` is, and the callback that is polling |
| `ghosted` | the Sync button is disabled |
| `fields`, `pw`, `names`, `rows`, `backup`, `saved`, `connecting` | the gadgets of the dialog, the list, and `prefs_state` |
| `libs` | the library bases |

The ghosts are `torn`, `off`, `trouble`, `wild`, `sized`, `late` and `before`; each is
explained in the module. A folder leaves `off`, the folders switched off since the file
was read, only when it really is in the table again: `toggle_folder()` may find the table
full, which it tells the user, and `NothingDropped` must then not hold the folder
against the next Save. Users start the program with one of four commands, click,
type and break at any moment; what they click waits at the port. The loop of AGUI is
`Wake` (the wait is over), the handlers, each of which reads its message
(`Receives`), and `PumpEnds`; the queue is emptied before `a_Done` is looked at, as in
`pump_messages()`. Which window is listened to follows from the nesting (`Listening`):
while the dialog is open its loop runs, and during a sync the main window's port is
read only from a callback (`cb`). `Connect` is two steps, as one can type
meanwhile. The sync is `NextPair`, `Scan`, `NextFile`, `Transferred`, `Progress`,
`PollEnds` and `Finish`, with any outcome of each.

`Crash` is possible at any moment, and `SaveCut` in the middle of a Save.
`WildOpen` is the call through a library base that is not open, and ends the
machine.

## The runs

| run | instance | checks |
|---|---|---|
| `Pair` | a file, its conflict copy, a name with a colon; 3 edits between runs, 2 faults, crash, reset | `StateSound` `Converged` `DeletionProved` `DeletedIsGone` `LossConfined` `SecondRunQuiet` |
| `Tree` | a drawer, a file in it, its conflict copy; 4 edits, 1 fault, crash | `TypeOK` `StateSound` `LossInv` `ConvergedOrStuck` `DeletionFounded` `LossConfined` `RunEnds` |
| `Race` | the same, 3 edits at any moment, every fault, also an unreadable drawer and a listing that comes empty, no etag with a PUT | `StateSound` `SoundInv` `ConvergedOrStuck` |
| `Http` | any number of requests, all faults, all framings, files of 0 to 3 blocks | `TypeOK` `Paired` `LinkInv` `Achieved` `DownloadWhole` `ListingWhole` `ReopenedButPut` `PutWhole` `Implements` `RequestEnds`, and that listings are read as written (`ListingsAreRead`, an assumption of `MCNsHttp`) |
| `App` | the program over and over: four acts of users, two faults, four files on the disk, three sets of libraries | `TypeOK` `PairsFresh` `ListTrue` `ButtonRight` `PasswordKept` `LibsHeld` `CancelRestores` `SavedIsLoaded` `NothingDropped` `Undisturbed` `NothingBegun` `HonestExit` `StopStops` `QuitEnds` |
| `LongName` | violation of `NothingLost` | a conflict copy that cannot be named, where the `.nspart` can |
| `Reset` | violation of `NothingLost` | a conflict, then the state file deleted |
| `FolderGone` | violation of `DeletionProved` | a drawer deleted here, a new file in it there |
| `DotFile` | violation of `DeletedIsGone` | a dot file on the server |
| `GetAgain` | violation of `DownloadExact` | a GET retried in the middle of its body |
| `PutAgain` | violation of `Reopened` | a PUT over a connection the server has closed |
| `Tls` | violation of `TlsReady` | Connect twice where AmiSSL is missing |

`App` has `CHECK_DEADLOCK FALSE`: when users have acted for the last time the program
waits for them, or is off, and nothing more happens; so has `Tls`. The other runs
never come to a stop.

### Why the bounds are enough

The rules of the engine look at one path at a time, with three exceptions: a
file and its conflict copy, a directory and what is in it, and the table's
size. `Pair` and `Tree` hold one of each of the first two. Three edits make a
conflict and one more change afterwards; two faults make a failure during the
recovery from a failure; the runs themselves are not bounded, so every behaviour
goes on until nothing changes any more. `Settle = 2`: a first run carries the
edits over, a second one a conflict copy made by the first. `Race` has one fault
because each edit can already come between any two steps.

A request of `NsHttp` is sent at most twice, so files of three blocks have a
first, a middle and a last one, and a retry can begin after none, some or all.

`ListingsAreRead` takes every folder of up to two entries out of three, each
document that begins like its listing and ends at any token or within one, and one
entry less of memory than needed. The reader keeps nothing from one
response to the next but the flag of the first one, so two entries after the folder
itself show a first, a following and a last one. `MaxDepth` is 6 where the code has
32: listings nest five deep.

`App` has four acts (`MaxInput`). A program started for `PREFS`, or without a complete
configuration, begins with the dialog, so that three are left for it: two edits and Save
or Cancel, a Save that is refused and a Cancel, Connect and two clicks, a key behind a
resize, a click behind the one that closes. From the main window it is the menu, one edit and
Save or Cancel, or a sync with Stop, Quit or a second Sync behind it. A fifth act
makes ten times as many states and lets nothing fail that four do not (the safety
properties pass with five as well, the liveness ones take too long). Two messages wait at a port (`MaxQueue`), since a handler reads the
first and what matters is that there is one behind it. The tables hold two folders
and one pair (`MaxFolders`, `MaxExtra`) and the list three names (`MaxList`), so that
files and listings have more than there is room for; the password has two
characters (`MaxChars`, and `MaxPass`, the room in `nsconf`: 127 each in the code), so a key
can come before, between and after; the key there is (`Chars`) is a blank, which the
next start trims; and one file has a password that is too long. `MaxLost` is 1: one
Write fails by itself, or all from one on. The two faults
(`MaxFaults`) are crashes, Saves cut short, or windows that do not open at one of
six stages: a failure while another is recovered from. The proofs below have none of these
bounds.

### What the violations say

Each is a place where the code does not do what the documentation says;
the README's quotations are in `PROJECT.json` under `findings`.

- *Conflicts can lose data* (`nssync.c` 807-808). `DeleteFile` and `Rename` of
  the conflict copy are not checked. When `<name>.conflict` is too long for the
  filesystem and `<name>.nspart` is not (22 or 23 characters on FFS, where names have 30),
  the download overwrites the only copy. Longer names still have no `.nspart`, are never
  downloaded, and so lose nothing (`nsdav.c` 327-333).
- *A reset can lose data* (807). Without a state file all files are conflicts,
  and the conflict copy of an earlier, real conflict is deleted to make room.
- *A folder's deletion takes new files with it* (908).
- *Dot files vanish from the server* (236): the local scan passes over them,
  the remote one does not.
- *A retried GET corrupts the file* (`nshttp.c` 829): the second attempt writes
  on where the first one stopped, and the length check counts the second only. What
  that does to later runs is in `NsSync`: the broken file is recorded under the server's
  etag, stays as it is, and takes the server's with it when it is changed or deleted here.
- *A PUT does not survive a stale connection* (`nshttp.c` 780): its file handle
  is not set back. The failure is reported, and the next run sends the file.
- *A second Connect without AmiSSL calls into nothing* (`nshttp.c` 168):
  `libs_up()` takes an open `SocketBase` for everything being open. It stays open
  after a refusal, so that the next attempt with TLS calls `TLS_client_method()`
  through a base that was never set.

The passing properties say what holds besides: `LossConfined` that a run loses
a version in three ways only (it has lain in a conflict copy, it went with a folder
deleted on the server, or a broken GET has made another file of it, `Garbled`), whatever
fails and wherever it crashes; `DeletionFounded` that,
short of folders, a run deletes on the server only what the state file knows in this
very version and the Amiga's user has deleted; `ConvergedOrStuck` that two things only
are left different: the data of a file a broken GET has left, and a drawer removed on the
server and not empty here, which `rmdir` leaves and whose state entry keeps it from
being made again;
`DownloadWhole` that a download is never truncated and wrong only after
a retry; `PutWhole` that the retry of a PUT, though it starts in the middle of
the file, never stores a piece of it. `CancelRestores` says that Cancel undoes what
was typed, toggled, connected with or refused by Save, in the program and on the
disk; `NothingDropped` that a Save keeps folders the server does not list and pairs of
the old format; `Undisturbed` that the pairs a sync goes through cannot change under
it, though the handler is entered again; `LibsHeld` that the libraries of a handle are open
as long as it is, and that the shared base of `utility.library` is set while a window
needs it, through every failure to open a window.

### Where the properties stop

- `StateSound` is about every file but conflict copies: `Rename` keeps the
  datestamp, which may be one a download took from an older scan and which may
  by chance be recorded for an older conflict copy. For the same reason `InStep`, which
  `Converged` and `ConvergedOrStuck` are made of, asks of a conflict copy that both sides
  have it and that the entry is right about etag and stamp, and not that the data are the
  same. TLC finds with four faults how they can differ for ever: a run scans
  a copy, replaces it by another conflict's and uploads that under the stamp of the
  scan (`nssync.c` 785-786); a later conflict brings a file with just that stamp back into
  the place of the copy, in a run that is stopped before it comes to it.
- It takes what a broken GET left for a copy of the server's file (`CopyOf`, by `mangled`),
  as the program does: `nsdav.c` 356-358 says that of a file "recorded as a good copy"
  nothing would ever notice, and `GetAgain` shows that it happens. Where no GET was broken
  `mangled` is empty and the data are equal. `InStep` is about data in the same way.
- It fails, and TLC shows it, in three more circumstances that `Orderly` excludes
  and that `Race` leaves out: a local edit between the `Rename` of a download and
  the reading back of its datestamp; a remote edit between a PUT without an
  etag and the PROPFIND for it; two edits within 2 seconds that leave the size
  the same (the `quick` event).
- `DeletionProved`, `DeletedIsGone`, `DeletionFounded` and `LossConfined` are checked
  and proved with edits between runs only. In the middle of a run the code decides by
  what the scans saw, and sends no `If-Match`: an edit made after the scan can be
  lost, by design.
- `LossConfined` excepts `Garbled`, every version a broken GET was made of: its user has
  another file here under its etag, and a change or the deletion of that overwrites or
  deletes the last copy on the server. It does not hold with unreadable drawers or empty
  listings (`Careful`): what a scan passes over in silence looks deleted.
- `LossConfined` names `copied`, what has lain in a conflict copy, and not what does so
  at the moment. With four faults TLC finds why: a run cannot read the state file, takes
  a file both sides have for a conflict, renames the local one and crashes before
  the download; the user writes the file anew, which the next run renames in its turn
  over the older copy, and crashes as well; the third run has its state file back,
  misses the file here, and deletes the server's, by now the last copy of a version
  that is in no conflict copy any more.
- A full table (`MAXENTRIES`, 2048) drops state entries, which come back as
  conflicts on the next run, and never settles, so `Converged` fails there. `Admitted`
  models it; the runs use a table that is large enough, since the state space has no
  end. The proofs hold for a table of any size: a full one loses nothing.
- `ListingWhole` has an exception: where only the end of the connection says where
  a body ends, an answer cut before its first element is read as an empty folder. It is
  the `listing` event of `NsSync` (`ScanRemoteEmpty`), in the run `Race` and in the
  theorems about `StateSound` and convergence. Nextcloud sends PROPFIND answers with a
  length or in chunks.
- `PasswordKept` stops where a resize draws the field with an older number of
  asterisks (`mixed`), and `ButtonRight` where it enables the button again (`sized`):
  both do go wrong there.
- `SavedIsLoaded` leaves out servers and users that are not one word, a password, drawer or
  folders with a blank at an edge, which `take_rest()` trims (`Plain`), a file that was
  not written whole, and a dialog that went on after Save because a click waited
  behind it (`late`): folders are toggled then that are in no file.
- `QuitEnds` allows for a click on Sync that waited behind Quit, and a click on Stop
  that arrives as the sync ends starts a new one.
- `HonestExit` is about 0 or not 0: a 10 of one pair may become the 5 of a
  later one.
- No file of the runs names a folder twice. `nsconf_load()` keeps both lines, and
  clicking the row then takes away only one of them.
- `LibsHeld` says nothing of `utility.library` being closed at the end: `agui.c` 93 and
  `nshttp.c` 37 open it into one base, and it may stay open once.
- `NothingBegun` is about files and folders to come. The file in flight is broken
  off by `gui_progress()` after a block; README.md:145 lets it finish.

### Fairness

`FairSpec` of `NsSync` has weak fairness of the engine as a whole: `nssync_run` is
a loop in one task that goes on when it can. Nothing else is fair: users, faults
and the start of a run may or may not come. In `NsHttp` there is weak fairness
of the client, and of the server answering a request it has in full: no call of
`nshttp.c` has a timeout, so a server that neither answers nor closes would block
it for ever. Lost connections may occur without end; the two attempts bound
them. In `NsApp` there is weak fairness of the program, one task that runs when
it can, and of nothing else: users may stop acting, and no fault must come. It
assumes that calls return, which for the network is the point above.

## The proofs

All are checked by `tlapm` without anything left out, for every tree of names,
number of files, size of the table, set of events and windows, from the named
assumptions of the modules.

`TypeInvariant` (`NsSyncProofs`): `Spec => []TypeOK`. Besides types it says that
both sides stay trees, which takes `TreeAssumption`: parents rank
before their children, and a conflict copy is beside its original. The lemmas
`TreeWithNode`, `TreeWithout`, `TreeDeleted` and `TreeEnsured` say what each kind
of change does to a tree.

`SoundInvariant` and `StateSoundness` (`NsSyncProofs`), under `Orderly`:
`Spec => []SoundInv` and `Spec => []StateSound`. `StateSound` alone is not inductive:
what will be saved is in the table, and what will be in the table depends on a
transfer under way. `SoundInv` adds that, in two parts. `Fresh`: every number in
use is older than `clock`, so no later write can bring back an etag or a stamp
some entry remembers. `Sound`: the entries of the state file and of the table
both agree with the two sides; during a download `dl` is what its etag says
(`Fetched`) or made of that by a broken GET (`CopyOf`), after the `Rename` the file is `dl`,
and during an upload the server holds what was sent (`Sent`). Each kind of step has a lemma: `ClockStep`,
`EntryStep`, `FreshStep` for the first part; `WindowStep`, `StampStep`,
`PlainStep` for the second. `TypeInvariant` is used throughout.

`LossInvariant`, `LossIsConfined` and `DeletionsAreFounded` (`NsSyncLoss`), under
`Careful`. A version users count on is *vital* (`Vital`) as long as it has neither lain
in a conflict copy nor gone with a folder, and no broken GET was made of it. A run takes a file away only when
an entry of the state says that the other side has, or had, the same; so `LossInv`
has to say what an entry means, and that what the table says of both sides is true at the
moment it is acted on.

- `Mirrored`: where an entry of the state file or the table matches a vital version on
  one side, the other side has it as well. This is what makes it safe to take a
  missing file for deleted, or to overwrite an unchanged one.
- `Scanned`: the scans miss only what the table has no room for (`NoRoom`), which stays so
  since the table never shrinks while they go on. What is below a
  listed folder is below one of the folders in it (`StepDown`), which takes induction on
  ranks: `LeastRank`. The induction theorems of the library are out of reach, so the
  well-ordering of numbers, `LeastNumber`, is had from its well-founded order of finite
  sets.
- `Awaited`: from the last scan on, what the table says of an item the loop has not come to
  is still so. It is where a conflict copy could get in the way: it comes into being under
  an item that is still ahead, which is why `Awaited` says less of conflict copies.
- `Transferred`: what a download or upload under way has in its hands.
- `Nobodys`: what a broken GET makes is a version on which no user counts, so nothing is
  lost when it goes (`MangledStep` and `NobodysStep`; `VitalWhole`: a vital version is
  fetched whole).
- `CopiesKept`, `KindsFit`, `Dated`: conflict copies are files, files are where users make
  files, and no version is newer than the clock.

There is a lemma for each part and, for every way to change a path, what can change it
(`LocalFate`, `RemoteFate`, `FileFate`, `EditFate`). `Careful` asks for edits between runs,
none hidden in the 2 seconds, no `rename`, `scan` or `listing` event, no names that begin with a dot or
end in `.nspart`, and conflict copies that can be named and that no drawer is in the way
of. TLC finds `LossConfined` violated without each of these: an unreadable drawer makes a
download overwrite an edit the scan did not see, and a drawer named like a conflict
copy, with something in it, makes the `Rename` fail as an overlong name does. It allows
every crash, network and disk error, GETs that bring a broken file, an unreadable or torn
state file, resets, and a table of any size. `DeletionsAreFounded` reads what a deletion rests on out of `Awaited`.
`DeletionsAreProved` and `DeletedAreGone` are the same for `DeletionProved` and
`DeletedIsGone`, where no folder holds another path (`Flat`; the run `FolderGone` shows
that it must not).

`LinkInvariant`, `AnswersPaired` and `PutStoresWhole` (`NsHttpProofs`), for any set
of files, faults and framings, from `HttpAssumption` alone. `Paired` says nothing of
the moments in which the damage would be done, so the proof goes by `LinkInv`, in
five parts. `Quiet`: between requests, and until a head is sent, the server has
nothing and the wire is empty, which is why `Forgotten` has nothing to forget.
`Position` and `Asked`: the server has a stretch of the file that ends at the
position of the handle, and with what is still to be sent it makes up the
announced length; so a request that is complete began at the beginning of
the file (`CompleteIsWhole`), and a retry that did not never completes.
`Answered` and `Reading`: the wire holds the answer to this attempt, or its
beginning, in the order head, blocks, mark of the end (`Shape`); so once the body
has come to its end the wire is empty again (`DoneKeeps`), the case of a 204
included. A request that is given up closes the connection (`Abandoned`). There
is one lemma per action or group of actions. That `PUT` stores whole files
(`PutStoresWhole`) then follows from `CompleteIsWhole`.

`SettleInvariant`, `ConvergesOrSticks`, `Converges` and `LaterRunsAreQuiet` (`NsSyncSettle`),
under `Settling`, are about runs in a row that neither an edit nor a fault disturbs,
after any history. `calm` counts them, and each run has an invariant that begins with what
the one before it has left; nothing is assumed of the state in which the
first begins.

- `FirstRun`, from `calm >= 1` on. The scans miss nothing (`ScansTrue`), what the loop is
  still to handle is as they saw it (`LoopTable`, `LoopTrue`), and what is behind it
  is a `Mirror`: all that the server has is here, and the entry says so. So
  it is when the run has ended (`EndTrue`). The Amiga may have more, and its conflict copies may
  be newer than the entry says, as the scan comes before they are made.
- `NextRun`, from `calm >= 2` on. With a mirror to begin with no server's file is
  new or changed, so nothing is downloaded and no conflict arises; what is left is to
  upload, to delete and to remove drawers (`LoopAlike`, `EndAlike`). It ends `Settled`: both sides
  are `Alike` and the entry says so, or the Amiga alone has the path and a drawer that is
  `Kept` is the reason (`HeldUp`): it was synced, has gone on the server, is not empty here, and its
  entry prevents the MKCOL without which nothing below it can be sent.
- `Still`, from the third on: no step of a run changes `loc`, `rem` or `st`. The only
  thing left to try is the removal of a kept drawer, which fails again since the drawer is
  `Full`.

`KindsHold` (a path is a file's or a directory's on both sides and in every column) and
`TableClean` (what the columns hold before the scans have filled them) are kept by every step,
disturbed or not. The lemmas go by items: `LoopCases` and `ItemFrame` say what a step of the loop can be and
touch, `FirstRunItem`, `NextRunItem` and `StillItem` what each run makes of
an item, `PutRefused`, `NotSent` and `Blocked` why the requests that fail do so by the
state alone. That two files are the same once their entry agrees is `StateSoundness`.

`Settling` asks for `Orderly`, since a state file that is wrong may stay so; for a table with
room for all paths (a full one never settles); for paths that are either a file's or a
directory's (a file in the place of a drawer is passed over by every run, as the code
has no rule for it); and for no path to be synced below a drawer whose name the engine passes over.
`Converges` takes a folder without drawers, where nothing can be held up.
`LaterRunsAreQuiet` takes one without names that begin with a dot or end in `.nspart`: such a name
on the server is brought here by one run and deleted there by a later one (the run
`DotFile`), and a stale `.nspart` is removed by any. The runs `Pair`, `Tree` and `Race` are
instances of `Settling`.

`KeepsThePromise` (`NsHttpProofs`) is the refinement: `Spec => Promise!Spec`. Initial
states map to initial states; a request is `Ask`, the server's acting is `Act`, the
last step is `Succeed` or `GiveUp`, and everything else stutters. The one hard step
is `Succeed`, which must find the effect in place though the answer may
be that to a second attempt. It takes `Told`: whenever a head that counts as
success is under way or read, the resource already is as asked (404 and 405
included), and nobody else changes it meanwhile. `OkIsAchieved` follows.
The other is what a GET has brought: `Truthful` adds that an answer of 200 has what the
server has for its body, and `DownloadWhole` that a request nothing went wrong with has
that body whole, so that `Brought` holds. `DownloadsWhole` goes by `Delivering` (what was read and what is on the wire make up
the body of this answer, and the file ends with what was read), `OnlyPutFails` by
`Reopening` (a second attempt has a new connection, and as long as nothing went wrong
a new connection stays up until the server has answered and the answer is read), and `ListsWhole` by
what has been read of the answer when a body ends.

`ControlInvariant` (`NsAppProofs`) is the strengthening for the program. `Places`: which
window may be open where `main()` is. `Running`: a sync runs inside the handler of
the main window, with no dialog open, or at the shell without windows. `Aborting`:
abort belongs to a sync, and callbacks to the window. `StopBeginsNothing` and
`SyncUndisturbed` follow from it step by step: whatever would change the configuration
happens in a dialog, and a dialog is not opened while busy.
`CancelLeavesNoTrace` needs `Restorable` besides (while the dialog is open, its backup
and the disk are those it was opened with); `PairsAreFresh` needs the same of the
backup as of the configuration (`FreshInv`), as Cancel brings it back;
`ReturnCodeHonest` needs `Honest`: trouble is in the return code from the moment it
happens, and a sync that was stopped is trouble.
`LibrariesHeld` has lemmas about each operator of `NsLibs` (`Sane`), and
`HeldInv` ties the counters to the handle and the windows.

`PasswordIsTyped` (`NsAppProofs`) is about every text and every place of the cursor.
`TypedTrue` and `DeletedTrue` show that the difference of two lengths and the
cursor determine what was typed: the hook's three pieces are the text with one
character put in, or two pieces with one taken out. `PwTrue` is kept by keys, by
leaving the field and by drawing it anew; `TextInv` carries the type of the
password through file, configuration and backup. `SyncButtonRight` goes by
`ButtonInv`: under an open dialog the button is right for the backup, to which
Cancel returns and which Save replaces.

`TypesAndLimits`, `ListIsTrue`, `SaveIsLoaded` and `SaveDropsNothing` (`NsAppConf`) are about
what the tables keep, for tables, lists and texts of any size. They rest on what the
functions of `nsconf.c` do: `PickedEntries` and `PickedAll` (`NsCounting`) say which entries
a loop keeps and that it keeps all when it passes over none; `RestText` and `RestAgain`
that trimming gives a text and changes nothing the second time (`GreatestNumber` for the
last letter that is no blank); `TornTyped` that what failing Writes leave still is a file; `LoadedOK` that what is
loaded fits, whatever is in the file; `LoadedSaved` that loading undoes saving (pairs
of 1.0 always, folders but for the blanks at their edges, the rest when server and user are
words, nothing has a blank at an edge and there is a drawer);
`EditedOK` what a toggle adds and takes away, and that a toggle that fails changes nothing;
`NamesAdded` that the list has every name on offer or is full. `StepEffect` reduces every
step of the program to one of eight effects on configuration, file and dialog (`Effect`),
so that each invariant has eight cases. `DataInv` is the types; none of the others is
inductive without it. `ListInv` and `SavedInv` are `ListTrue` and what a file holds between
Save and the closing of the dialog. `DropInv` is the strengthening of `NothingDropped`: at every
moment, not only when Save comes, what a start would load is in the configuration or was
switched off, and so it is, until Save, with what Cancel returns to. `AppInvariant` puts
them all together.

`FileTimeKept`, `DatesAreCounted` and `SecondsAreExact` (`NsTime`) are arithmetic: a time
set with `SetFileDate` and read back is the same second, so a downloaded file does not
look changed to the next scan; HTTP dates are counted without gap or repetition
over leap years and centuries; and no wrap before 2106. TLC cannot represent 2^32, so
these are in no run.

Only model-checked: `ListingsAreRead` (a fold over a document, which needs induction
over data), and the liveness properties `RunEnds`, `RequestEnds`, `StopStops` and `QuitEnds`, which are
out of the prover's reach. So the theorems about convergence say what undisturbed runs
achieve once they have ended; that they end is `RunEnds`.

## Not modelled

- The creation of the two root directories (`nssync.c` 524-595): a failure there
  ends the run before anything has changed.
- The depth limit of 16, the limit of 16 stale `.nspart` files removed from a
  drawer in one scan, the order in which a table that is nearly full takes its last items
  (the code looks into a folder before it goes on with the folder's siblings, `Admitted`
  takes a folder as a whole), a state line torn in the middle (a truncated file loses
  whole entries in the model), running out of memory for an item.
- Error texts, log lines and statistics.
- `s_dir`, which is written and never read.
- How characters make tokens: URL coding, base64, tags, namespaces and entities of
  XML, header lines, the lines of the configuration beyond words and their order.
- In AGUI: layout, drawing, list nodes, the timer, the file requester beyond its
  answer, snapshots of windows, menus beyond their messages, the undo key of a string
  gadget, and kinds of widgets this program does not use.
- The test modes of `main.c`, `gui.c` and `nsprefs.c`, `nstest.c`, `aguishot.c` and the
  mock server: they drive the program or stand for its surroundings, which the
  models do with users and a server of their own.
- Build and packaging: scripts without state the program depends on.

## Plan

Done: the engine with its proofs; the HTTP client with its proofs and the abstract
transport it implements; the program with windows, configuration, password field and
libraries, and its proofs; the reader of listings; times.

Left, in this order:

1. An abstract three-way merge (per path, what the three columns say must become of
   it) that the engine's steps are shown to implement.
2. URL coding and base64 as operators over bytes, compared with their definitions.
3. Proofs: the lemmas about those operators, and that each item's steps are what the
   merge says.
