------------------------------- MODULE NsSync -------------------------------
(***************************************************************************)
(* The sync engine of NextSync: nssync_run() of src/nssync.c with the      *)
(* requests it makes through src/nsdav.c, one run after another, beside    *)
(* the two users who edit the drawer on the Amiga and the folder on the    *)
(* Nextcloud server.                                                       *)
(*                                                                         *)
(* Data is abstracted to what the engine compares.  Every write of a file, *)
(* on either side, makes a new version, a number drawn from clock; so are  *)
(* a resource's etag and the pair of size and modification time the engine *)
(* compares on the Amiga (stamp, mtime).  0 stands for an empty etag and   *)
(* for "no time".  Two stamps are equal when the sizes are and the times   *)
(* differ by at most the 2 seconds the comparison tolerates.               *)
(***************************************************************************)
EXTENDS Naturals, FiniteSets

CONSTANTS
  Path,          \* the relative paths that can occur below the two roots
  Root,          \* the synced folder itself, parent of the top level paths
  Parent,        \* the folder a path is in
  Above,         \* the paths above it, the transitive closure of Parent
  Rank,          \* the place of a path in strcmp order
  Conflict,      \* the path named "<path>.conflict", or
  NoPath,        \*   NoPath when the filesystem cannot hold that name
  Class,         \* what the name is: "plain"; "dot" (begins with a dot);
                 \*   "part" (ends in .nspart); "bad" (contains a colon)
  KindsOf,       \* what users make at a path: files, directories or both
  MaxEntries,    \* MAXENTRIES: how many items the table holds
  PutTags,       \* does the server answer a PUT with the new etag?
  Events,        \* the untoward things that can happen, see below
  LocalWindow,   \* the values of pc at which the Amiga's user may edit
  RemoteWindow,  \* the values of pc at which the server's users may edit
  MaxEdits,      \* bound: edits made by users
  MaxFaults,     \* bound: untoward events
  Settle         \* how many runs in a row must bring the sides in step

(***************************************************************************)
(* Events that use up MaxFaults:                                           *)
(*   "net"    a connection is lost: a request fails, before or after the   *)
(*            server has acted on it, or a GET is sent again from its      *)
(*            middle                                                       *)
(*   "listing" it is lost before the first element of a listing that ends  *)
(*            with the connection: that is the listing of an empty folder  *)
(*   "disk"   AmigaDOS refuses an Open, CreateDir, DeleteFile or Rename    *)
(*   "rename" it refuses the DeleteFile or Rename of a conflict copy       *)
(*   "scan"   Lock, AllocDosObject or Examine fails on a drawer            *)
(*   "state"  the state file cannot be opened, or is cut short             *)
(*   "abort"  file_cb answers FALSE: Stop, ESC, CTRL-C                     *)
(*   "crash"  the machine or the program goes down                         *)
(*   "reset"  the user deletes the state file                              *)
(* and kinds of edits a user may make:                                     *)
(*   "quick"   an edit that keeps the size, within 2 seconds of the last   *)
(*   "undated" a resource for which the server reports no mtime            *)
(***************************************************************************)
AllEvents == {"net", "listing", "disk", "rename", "scan", "state", "abort",
              "crash", "reset", "quick", "undated"}

PCs == {"idle", "scanR", "scanL", "item", "get", "swap", "install", "stamp",
        "tag", "rmdir", "save"}

ASSUME TreeAssumption ==
  /\ IsFiniteSet(Path) /\ Root \notin Path /\ NoPath \notin Path
  /\ Parent \in [Path -> Path \cup {Root}]
  /\ Above \in [Path -> SUBSET Path]
  /\ \A p \in Path : Above[p] = IF Parent[p] = Root THEN {}
                                ELSE {Parent[p]} \cup Above[Parent[p]]
  /\ \A p \in Path : \A q \in Above[p] : q # p /\ Above[q] \subseteq Above[p]
  /\ Rank \in [Path -> 1..Cardinality(Path)]
  /\ \A p, q \in Path : Rank[p] = Rank[q] => p = q
  /\ \A p \in Path : Parent[p] # Root => Rank[Parent[p]] < Rank[p]
  /\ Conflict \in [Path -> Path \cup {NoPath}]
  /\ \A p \in Path : Conflict[p] # NoPath =>
       Parent[Conflict[p]] = Parent[p] /\ Rank[p] < Rank[Conflict[p]]
  /\ Class \in [Path -> {"plain", "dot", "part", "bad"}]
  /\ KindsOf \in [Path -> SUBSET {"file", "dir"}]

ASSUME BoundAssumption ==
  /\ MaxEntries \in Nat /\ MaxEdits \in Nat /\ MaxFaults \in Nat
  /\ Settle \in Nat
  /\ PutTags \in BOOLEAN /\ Events \subseteq AllEvents
  /\ LocalWindow \subseteq PCs /\ RemoteWindow \subseteq PCs

VARIABLES
  loc,     \* the drawer on the Amiga
  part,    \* the paths whose <name>.nspart exists there
  st,      \* .nextsync.state
  rem,     \* the folder on the server
  pc,      \* where nssync_run is
  tab,     \* the paths that have an item in the table
  todo,    \* folders still to scan, or items still to handle
  sr, sl,  \* the r_ and l_ columns: what the scans saw
  ss,      \* the s_ column: the state, loaded and then updated
  rmd,     \* the rmdir column
  dl,      \* what the last GET left in <name>.nspart, the version on the
           \*   server it is a copy of, and the etag of that version
  clock,   \* the next unused version number
  edits, faults,  \* how much of MaxEdits and MaxFaults is used
  owed,    \* ghost: versions users made and did not overwrite or delete
  razed,   \* ghost: versions that went with a folder deleted on the server
  copied,  \* ghost: versions that have at some time lain in a conflict copy
  mangled, \* ghost: versions on the server, with what a GET that was not
           \*   whole has made of them
  calm     \* ghost: runs begun since the last edit or fault (capped)

disk   == <<loc, part, st>>
server == <<rem, razed>>
table  == <<tab, sr, sl, ss, rmd, dl>>
meters == <<edits, faults, owed, calm>>
vars   == <<disk, server, pc, todo, table, clock, meters, copied, mangled>>

(***************************************************************************)
(* The two file systems and the state file                                 *)
(***************************************************************************)
Absent  == [kind |-> "none", data |-> 0, stamp |-> 0]
Drawer  == [kind |-> "dir", data |-> 0, stamp |-> 0]
File(d, s) == [kind |-> "file", data |-> d, stamp |-> s]

Missing == [kind |-> "none", data |-> 0, etag |-> 0, mtime |-> 0]
Folder  == [kind |-> "dir", data |-> 0, etag |-> 0, mtime |-> 0]
Resource(d, e, m) == [kind |-> "file", data |-> d, etag |-> e, mtime |-> m]

NoEntry == [known |-> FALSE, etag |-> 0, stamp |-> 0]
Entry(e, s) == [known |-> TRUE, etag |-> e, stamp |-> s]

Body(d, v, e) == [data |-> d, of |-> v, etag |-> e]
NoBody == Body(0, 0, 0)

\* p and everything below it.
Under(p) == {q \in Path : q = p \/ p \in Above[q]}

Inside(side, d) == {q \in Path : Parent[q] = d /\ side[q].kind # "none"}
IsDir(side, d)  == d = Root \/ (d \in Path /\ side[d].kind = "dir")

\* Mutant: a drawer need not be empty.
DeletableFull(p) == loc[p].kind # "none"

\* DeleteFile(): takes a file or an empty drawer, nothing else.
Deletable(p) == loc[p].kind # "none" /\ Inside(loc, p) = {}
Deleted(p) == [loc EXCEPT ![p] = IF Deletable(p) THEN Absent ELSE @]

\* What the server does for DELETE: the resource and all below it go.
RemoteWithout(p) == [q \in Path |-> IF q \in Under(p) THEN Missing ELSE rem[q]]

\* ensure_local_dirtree(): CreateDir for each of the missing drawers D,
\* given from the top down; one that turns out to be a file ends it.
EnsureDrawers(D, p) ==
  IF \E q \in D \ {p} : loc[q].kind = "file" THEN loc
  ELSE [q \in Path |-> IF q \in D /\ loc[q].kind = "none" THEN Drawer
                       ELSE loc[q]]

\* A CreateDir fails: what the drawers above the one it was for leave.
EnsureDrawersFails(D) == {EnsureDrawers(Above[k], k) : k \in {q \in D : loc[q].kind = "none"}}

Versions(side, S) == {side[q].data : q \in {r \in S : side[r].kind = "file"}}

\* The conflict copies, and the versions that lie in them.
Copies == {Conflict[p] : p \in Path} \cap Path
CopiesHold(l, r) == Versions(l, Copies) \cup Versions(r, Copies)

Fault(k) == /\ k \in Events /\ faults < MaxFaults
            /\ faults' = faults + 1 /\ calm' = 0 /\ UNCHANGED <<edits, owed>>
NoFault == UNCHANGED meters

InitKind(p) == IF "file" \in KindsOf[p] THEN "file" ELSE "dir"
Folders == {S \in SUBSET {p \in Path : Class[p] = "plain" /\ KindsOf[p] # {}} :
              /\ Cardinality(S) <= MaxEntries
              /\ \A p \in S : \/ Parent[p] = Root
                              \/ Parent[p] \in S /\ InitKind(Parent[p]) = "dir"}

\* Both sides in step, as a first run over the paths S leaves them.
Init ==
  \E S \in Folders :
    LET Drawers == {p \in S : InitKind(p) = "dir"}
        Content == S \ Drawers
        Place(p, dir, file, none) ==
          IF p \in Drawers THEN dir ELSE IF p \in Content THEN file ELSE none
    IN
    /\ loc = [p \in Path |-> Place(p, Drawer, File(Rank[p], Rank[p]), Absent)]
    /\ rem = [p \in Path |-> Place(p, Folder, Resource(Rank[p], Rank[p], Rank[p]), Missing)]
    /\ st = [p \in Path |-> Place(p, Entry(0, 0), Entry(Rank[p], Rank[p]), NoEntry)]
    /\ owed = {Rank[p] : p \in Content}
    /\ part = {} /\ pc = "idle" /\ tab = {} /\ todo = {}
    /\ sr = [p \in Path |-> Missing] /\ sl = [p \in Path |-> Absent]
    /\ ss = [p \in Path |-> NoEntry] /\ rmd = [p \in Path |-> "no"]
    /\ dl = NoBody
    /\ clock = Cardinality(Path) + 1
    /\ edits = 0 /\ faults = 0 /\ calm = 0 /\ razed = {}
    /\ copied = CopiesHold(loc, rem) /\ mangled = {}

(***************************************************************************)
(* The users.  An edit of theirs settles which versions must survive: the  *)
(* new one, and no longer the one they replaced or deleted.                *)
(***************************************************************************)
Edit(gone, new) ==
  /\ edits < MaxEdits /\ edits' = edits + 1
  /\ owed' = (owed \ gone) \cup new /\ calm' = 0
  /\ UNCHANGED <<razed, faults, pc, todo, table, st>>

LocalWrite(p) ==
  /\ pc \in LocalWindow /\ "file" \in KindsOf[p] /\ Class[p] \in {"plain", "dot"}
  /\ IsDir(loc, Parent[p]) /\ loc[p].kind # "dir"
  /\ \E s \in {clock} \cup {t \in {loc[p].stamp} : "quick" \in Events /\ t # 0} :
       loc' = [loc EXCEPT ![p] = File(clock, s)]
  /\ Edit(Versions(loc, {p}), {clock})
  /\ clock' = clock + 1 /\ UNCHANGED <<part, rem>>

LocalMakeDrawer(p) ==
  /\ pc \in LocalWindow /\ "dir" \in KindsOf[p] /\ Class[p] \in {"plain", "dot"}
  /\ "file" \in KindsOf[p] => pc = "idle"
  /\ IsDir(loc, Parent[p]) /\ loc[p].kind = "none"
  /\ loc' = [loc EXCEPT ![p] = Drawer]
  /\ Edit({}, {}) /\ UNCHANGED <<part, rem, clock>>

LocalRemove(p) ==
  /\ pc \in LocalWindow /\ loc[p].kind # "none"
  /\ loc' = [q \in Path |-> IF q \in Under(p) THEN Absent ELSE loc[q]]
  /\ part' = part \ (Under(p) \ {p})
  /\ Edit(Versions(loc, Under(p)), {}) /\ UNCHANGED <<rem, clock>>

RemoteWrite(p) ==
  /\ pc \in RemoteWindow /\ "file" \in KindsOf[p]
  /\ IsDir(rem, Parent[p]) /\ rem[p].kind # "dir"
  /\ \E m \in {clock} \cup {t \in {0} : "undated" \in Events} :
       rem' = [rem EXCEPT ![p] = Resource(clock, clock, m)]
  /\ Edit(Versions(rem, {p}), {clock})
  /\ clock' = clock + 1 /\ UNCHANGED <<loc, part>>

RemoteMakeFolder(p) ==
  /\ pc \in RemoteWindow /\ "dir" \in KindsOf[p]
  /\ IsDir(rem, Parent[p]) /\ rem[p].kind = "none"
  /\ rem' = [rem EXCEPT ![p] = Folder]
  /\ Edit({}, {}) /\ UNCHANGED <<loc, part, clock>>

RemoteRemove(p) ==
  /\ pc \in RemoteWindow /\ rem[p].kind # "none"
  /\ rem' = RemoteWithout(p)
  /\ Edit(Versions(rem, Under(p)), {}) /\ UNCHANGED <<loc, part, clock>>

Users == \E p \in Path :
  \/ LocalWrite(p) \/ LocalMakeDrawer(p) \/ LocalRemove(p)
  \/ RemoteWrite(p) \/ RemoteMakeFolder(p) \/ RemoteRemove(p)

\* "Delete the state file to force a full re-comparison".
DropState ==
  /\ pc = "idle" /\ Fault("reset") /\ st' = [p \in Path |-> NoEntry]
  /\ UNCHANGED <<loc, part, server, pc, todo, table, clock>>

(***************************************************************************)
(* Scanning                                                                *)
(***************************************************************************)
\* tab_free(), or the memory going with the program.
FreeTable ==
  /\ pc' = "idle" /\ tab' = {} /\ todo' = {}
  /\ sr' = [p \in Path |-> Missing] /\ sl' = [p \in Path |-> Absent]
  /\ ss' = [p \in Path |-> NoEntry] /\ rmd' = [p \in Path |-> "no"]
  /\ dl' = NoBody

Start ==
  /\ pc = "idle" /\ pc' = "scanR" /\ todo' = {Root}
  /\ calm' = IF calm <= Settle THEN calm + 1 ELSE calm
  /\ UNCHANGED <<disk, server, table, clock, edits, faults, owed>>

\* tab_get() for each of the paths C: those that get an item, when only
\* MaxEntries fit.  The order in which they come is the lister's, with one
\* simplification: the code looks into a folder before it goes on with the
\* folder's siblings, so what is below it may take the last places from them.
Admitted(C) ==
  {A \in SUBSET C :
     /\ C \cap tab \subseteq A
     /\ Cardinality(tab \cup A) <= MaxEntries \/ A = C \cap tab
     /\ A # C => Cardinality(tab \cup A) >= MaxEntries}

\* One PROPFIND of scan_remote().
ScanRemote(d) ==
  /\ pc = "scanR" /\ d \in todo /\ IsDir(rem, d)
  /\ \E A \in Admitted(Inside(rem, d)) :
       /\ tab' = tab \cup A
       /\ sr' = [q \in Path |-> IF q \in A THEN [rem[q] EXCEPT !.data = 0]
                                ELSE sr[q]]
       /\ todo' = (todo \ {d}) \cup {q \in A : rem[q].kind = "dir"}
  /\ NoFault /\ UNCHANGED <<disk, server, pc, sl, ss, rmd, dl, clock>>

\* A folder cannot be listed: the run returns FALSE, the state file stays.
ScanRemoteFails(d) ==
  /\ pc = "scanR" /\ d \in todo
  /\ IF IsDir(rem, d) THEN Fault("net") ELSE NoFault
  /\ FreeTable /\ UNCHANGED <<disk, server, clock>>

\* "ok", though nothing of the listing has come: nsxml_parse() has no
\* objection to an empty document.
ScanRemoteEmpty(d) ==
  /\ pc = "scanR" /\ d \in todo /\ todo' = todo \ {d}
  /\ IsDir(rem, d) /\ Fault("listing")
  /\ UNCHANGED <<disk, server, pc, table, clock>>

ScanRemoteDone ==
  /\ pc = "scanR" /\ todo = {} /\ pc' = "scanL" /\ todo' = {Root}
  /\ NoFault /\ UNCHANGED <<disk, server, table, clock>>

\* scan_local_dir() on one drawer: dot names are passed over, .nspart
\* names are not the user's and are deleted after the walk, but for those of
\* dot files, which are passed over like all dot names.  It goes down
\* into a drawer for which there was no room in the table as well.
Listed(d) == {q \in Inside(loc, d) : Class[q] \notin {"dot", "part"}}
ScanLocal(d) ==
  /\ pc = "scanL" /\ d \in todo /\ IsDir(loc, d)
  /\ \E A \in Admitted(Listed(d)) :
       /\ tab' = tab \cup A
       /\ sl' = [q \in Path |-> IF q \in A THEN [loc[q] EXCEPT !.data = 0]
                                ELSE sl[q]]
  /\ todo' = (todo \ {d}) \cup {q \in Listed(d) : loc[q].kind = "dir"}
  /\ loc' = [q \in Path |->
               IF Parent[q] = d /\ Class[q] = "part" /\ Deletable(q) THEN Absent
               ELSE loc[q]]
  /\ part' = {q \in part : Parent[q] # d \/ Class[q] = "dot"}
  /\ NoFault /\ UNCHANGED <<st, server, pc, sr, ss, rmd, dl, clock>>

\* The drawer cannot be read: scan_local_dir() just returns.
ScanLocalFails(d) ==
  /\ pc = "scanL" /\ d \in todo /\ todo' = todo \ {d}
  /\ IF IsDir(loc, d) THEN Fault("scan") ELSE NoFault
  /\ UNCHANGED <<disk, server, pc, table, clock>>

\* load_state() and sort_items().  A state file that cannot be opened
\* leaves every item without a last sync.
LoadState ==
  /\ pc = "scanL" /\ todo = {} /\ pc' = "item"
  /\ \/ /\ NoFault
        /\ \E A \in Admitted({q \in Path : st[q].known}) :
             /\ tab' = tab \cup A /\ todo' = tab \cup A
             /\ ss' = [q \in Path |-> IF q \in A THEN st[q] ELSE NoEntry]
     \/ /\ Fault("state") /\ todo' = tab /\ UNCHANGED <<tab, ss>>
  /\ UNCHANGED <<disk, server, sr, sl, rmd, dl, clock>>

(***************************************************************************)
(* The main loop, one item after the other in strcmp order                 *)
(***************************************************************************)
First(p) == p \in todo /\ \A q \in todo : Rank[p] <= Rank[q]
Last(p)  == p \in todo /\ \A q \in todo : Rank[q] <= Rank[p]

OnServer(p) == sr[p].kind # "none"
OnAmiga(p)  == sl[p].kind # "none"
IsDirItem(p) == sr[p].kind = "dir" \/ sl[p].kind = "dir"
RChangedAlways(p) == OnServer(p)                  \* Mutant: state ignored
RChangedNoEtag(p) == OnServer(p) /\ ~ss[p].known  \* Mutant: etags not compared
LChangedNoStamp(p) == OnAmiga(p) /\ ~ss[p].known  \* Mutant: stamps not compared
RChanged(p) == OnServer(p) /\ (~ss[p].known \/ sr[p].etag # ss[p].etag)
LChanged(p) == OnAmiga(p) /\ (~ss[p].known \/ sl[p].stamp # ss[p].stamp)

At(place, p) == pc = place /\ First(p)
DirItem(p)   == At("item", p) /\ Class[p] # "bad" /\ IsDirItem(p)
FileItem(p)  == At("item", p) /\ Class[p] # "bad" /\ ~IsDirItem(p)

Advance(p) == pc' = "item" /\ todo' = todo \ {p}
Record(p, e) == ss' = [ss EXCEPT ![p] = e]
Known(p) == Record(p, [ss[p] EXCEPT !.known = TRUE])
KnownDir(p) == Record(p, Entry(0, ss[p].stamp))

SkipBadName(p) ==
  /\ At("item", p) /\ Class[p] = "bad" /\ Advance(p)
  /\ NoFault /\ UNCHANGED <<disk, server, table, clock>>

\* In step, both directories: the entry is refreshed.
KeepDir(p) ==
  /\ DirItem(p) /\ OnServer(p) /\ OnAmiga(p) /\ Known(p) /\ Advance(p)
  /\ NoFault /\ UNCHANGED <<disk, server, tab, sr, sl, rmd, dl, clock>>

\* Synced before and gone on one side: removed later, deepest first.
DeferRemoval(p) ==
  /\ DirItem(p) /\ ~(OnServer(p) /\ OnAmiga(p)) /\ ss[p].known
  /\ rmd' = [rmd EXCEPT ![p] = IF OnServer(p) THEN "remote" ELSE "local"]
  /\ Advance(p)
  /\ NoFault /\ UNCHANGED <<disk, server, tab, sr, sl, ss, dl, clock>>

\* A new folder on the server: ensure_local_dirtree(), p included.
MakeDrawer(p) ==
  /\ DirItem(p) /\ OnServer(p) /\ ~OnAmiga(p) /\ ~ss[p].known
  /\ \/ /\ NoFault /\ loc' = EnsureDrawers(Above[p] \cup {p}, p)
     \/ Fault("disk") /\ loc' \in EnsureDrawersFails(Above[p] \cup {p})
  /\ IF loc'[p].kind # "none" THEN KnownDir(p) ELSE UNCHANGED ss
  /\ Advance(p)
  /\ UNCHANGED <<part, st, server, tab, sr, sl, rmd, dl, clock>>

\* A new drawer on the Amiga: MKCOL, where 405 (it exists) will do.
MakeFolder(p) ==
  /\ DirItem(p) /\ ~OnServer(p) /\ OnAmiga(p) /\ ~ss[p].known
  /\ LET made == IF rem[p].kind = "none" /\ IsDir(rem, Parent[p])
                 THEN [rem EXCEPT ![p] = Folder] ELSE rem
     IN \/ /\ NoFault /\ rem' = made
           /\ IF made[p].kind # "none" THEN KnownDir(p) ELSE UNCHANGED ss
        \/ /\ Fault("net") /\ rem' \in {rem, made} /\ UNCHANGED ss
  /\ Advance(p) /\ UNCHANGED <<disk, razed, tab, sr, sl, rmd, dl, clock>>

\* file_cb() answers FALSE before a transfer or a deletion: the loop is
\* left and no directory is removed, but the state is saved.
Abort(p) ==
  /\ FileItem(p) /\ Fault("abort")
  /\ RChanged(p) # LChanged(p) \/ OnServer(p) # OnAmiga(p)
  /\ pc' = "save" /\ todo' = {}
  /\ UNCHANGED <<disk, server, table, clock>>

\* Unchanged on both sides: the entry is refreshed.
KeepFile(p) ==
  /\ FileItem(p) /\ OnServer(p) /\ OnAmiga(p)
  /\ ~RChanged(p) /\ ~LChanged(p) /\ Known(p) /\ Advance(p)
  /\ NoFault /\ UNCHANGED <<disk, server, tab, sr, sl, rmd, dl, clock>>

\* Gone on both sides.
Forget(p) ==
  /\ FileItem(p) /\ ~OnServer(p) /\ ~OnAmiga(p)
  /\ Record(p, NoEntry) /\ Advance(p)
  /\ NoFault /\ UNCHANGED <<disk, server, tab, sr, sl, rmd, dl, clock>>

\* nsdav_delete(): 204 and 404 are both a success.
RequestDelete(p) ==
  /\ \/ /\ NoFault /\ rem' = RemoteWithout(p) /\ Record(p, NoEntry)
     \/ /\ Fault("net") /\ rem' \in {rem, RemoteWithout(p)} /\ UNCHANGED ss
  /\ razed' = razed \cup Versions(rem, {q \in Under(p) \ {p} : rem'[q].kind = "none"})

\* Mutant: it need not be gone.
DeleteRemoteAnyway(p) ==
  /\ FileItem(p) /\ OnServer(p) /\ ~RChanged(p)
  /\ RequestDelete(p) /\ Advance(p)
  /\ UNCHANGED <<disk, tab, sr, sl, rmd, dl, clock>>

\* Unchanged on the server, gone on the Amiga.
DeleteRemote(p) ==
  /\ FileItem(p) /\ OnServer(p) /\ ~OnAmiga(p) /\ ~RChanged(p)
  /\ RequestDelete(p) /\ Advance(p)
  /\ UNCHANGED <<disk, tab, sr, sl, rmd, dl, clock>>

\* Unchanged on the Amiga, gone on the server.
DeleteLocal(p) ==
  /\ FileItem(p) /\ ~OnServer(p) /\ OnAmiga(p) /\ ~LChanged(p)
  /\ \/ /\ NoFault /\ loc' = Deleted(p)
        /\ IF Deletable(p) THEN Record(p, NoEntry) ELSE UNCHANGED ss
     \/ /\ Fault("disk") /\ UNCHANGED <<loc, ss>>
  /\ Advance(p) /\ UNCHANGED <<part, st, server, tab, sr, sl, rmd, dl, clock>>

(***************************************************************************)
(* Downloads: GET into <name>.nspart, DeleteFile, Rename, SetFileDate      *)
(***************************************************************************)
Download(p) ==
  /\ FileItem(p) /\ RChanged(p) /\ ~LChanged(p) /\ pc' = "get"
  /\ \/ NoFault /\ loc' = IF OnAmiga(p) THEN loc ELSE EnsureDrawers(Above[p], p)
     \/ ~OnAmiga(p) /\ Fault("disk") /\ loc' \in EnsureDrawersFails(Above[p])
  /\ UNCHANGED <<part, st, server, todo, table, clock>>

\* Changed on both sides.  The local copy is renamed, after an older
\* conflict copy has been deleted; neither result is looked at, and only
\* then is file_cb() asked.  Where Conflict is NoPath there is room for
\* <name>.nspart all the same: it is two letters shorter.
KeepConflictCopy(p) ==
  /\ FileItem(p) /\ RChanged(p) /\ LChanged(p)
  /\ LET c == Conflict[p]
         cleared == IF c = NoPath THEN loc ELSE Deleted(c)
         moved == IF c # NoPath /\ cleared[c].kind = "none" /\ loc[p].kind = "file"
                  THEN [cleared EXCEPT ![c] = loc[p], ![p] = Absent] ELSE cleared
     IN \/ /\ NoFault /\ loc' = moved /\ pc' = "get" /\ UNCHANGED todo
        \/ /\ Fault("rename") /\ loc' \in {loc, cleared} /\ pc' = "get" /\ UNCHANGED todo
        \/ /\ Fault("abort") /\ loc' = moved /\ pc' = "save" /\ todo' = {}
  /\ UNCHANGED <<part, st, server, table, clock>>

\* A body is on the disk and has been checked against its length.  It is the
\* server's unless the connection was lost in the middle of it: then it was
\* sent again, to be written behind what had come and counted alone, or, where
\* only the end of the connection ends a body, it is short.  Either way the
\* file is another, of another size, under the etag of the answer.
Get(p) ==
  /\ At("get", p) /\ rem[p].kind = "file" /\ IsDir(loc, Parent[p])
  /\ \/ /\ NoFault /\ UNCHANGED clock
        /\ dl' = Body(rem[p].data, rem[p].data, rem[p].etag)
     \/ /\ Fault("net") /\ clock' = clock + 1
        /\ dl' = Body(clock, rem[p].data, rem[p].etag)
  /\ part' = part \cup {p} /\ pc' = "swap"
  /\ UNCHANGED <<loc, st, server, todo, tab, sr, sl, ss, rmd>>

\* Mutant: recorded as synced before the result is looked at.
GetFailsRecorded(p) ==
  /\ At("get", p) /\ Fault("net")
  /\ Record(p, Entry(sr[p].etag, sl[p].stamp)) /\ Advance(p)
  /\ UNCHANGED <<disk, server, tab, sr, sl, rmd, dl, clock>>

\* No such resource, no drawer to put it in, or the transfer broke off.
GetFails(p) ==
  /\ At("get", p)
  /\ IF rem[p].kind = "file" /\ IsDir(loc, Parent[p])
     THEN Fault("net") \/ Fault("disk") ELSE NoFault
  /\ part' = part \ {p} /\ Advance(p)
  /\ UNCHANGED <<loc, st, server, table, clock>>

\* DeleteFile(localfile), "may not exist, fine".
Swap(p) ==
  /\ At("swap", p) /\ pc' = "install"
  /\ \/ NoFault /\ loc' = Deleted(p)
     \/ Fault("disk") /\ UNCHANGED loc
  /\ UNCHANGED <<part, st, server, todo, table, clock>>

\* Rename(tmp, localfile)
CanInstall(p) == p \in part /\ loc[p].kind = "none" /\ IsDir(loc, Parent[p])
Install(p) ==
  /\ At("install", p) /\ CanInstall(p)
  /\ loc' = [loc EXCEPT ![p] = File(dl.data, clock)]
  /\ part' = part \ {p} /\ clock' = clock + 1 /\ pc' = "stamp"
  /\ NoFault /\ UNCHANGED <<st, server, todo, table>>

InstallFails(p) ==
  /\ At("install", p) /\ IF CanInstall(p) THEN Fault("disk") ELSE NoFault
  /\ part' = part \ {p} /\ Advance(p)
  /\ UNCHANGED <<loc, st, server, table, clock>>

\* Mutant: the etag is asked for again instead of taken from the GET.
StampAsksAgain(p) ==
  /\ At("stamp", p)
  /\ loc' = IF loc[p].kind = "file" /\ sr[p].mtime # 0
            THEN [loc EXCEPT ![p].stamp = sr[p].mtime] ELSE loc
  /\ Record(p, Entry(rem[p].etag, loc'[p].stamp)) /\ Advance(p)
  /\ NoFault /\ UNCHANGED <<part, st, server, tab, sr, sl, rmd, dl, clock>>

\* set_local_mtime() with the time the scan saw, then get_local_mtime().  A
\* mangled file has a size, and so a stamp, of its own at any time.
Stamp(p) ==
  /\ At("stamp", p)
  /\ loc' = IF loc[p].kind = "file" /\ sr[p].mtime # 0 /\ dl.data = dl.of
            THEN [loc EXCEPT ![p].stamp = sr[p].mtime] ELSE loc
  /\ \/ NoFault /\ Record(p, Entry(dl.etag, loc'[p].stamp))
     \/ Fault("disk") /\ Record(p, Entry(dl.etag, 0))
  /\ Advance(p)
  /\ UNCHANGED <<part, st, server, tab, sr, sl, rmd, dl, clock>>

(***************************************************************************)
(* Uploads: PUT, and a PROPFIND when the answer has no etag.  The size and *)
(* time recorded are those of the scan.                                    *)
(***************************************************************************)
PutAccepted(p) == rem[p].kind # "dir" /\ IsDir(rem, Parent[p])
Stored(p) == [rem EXCEPT ![p] = Resource(loc[p].data, clock, sl[p].stamp)]

Upload(p) ==
  /\ FileItem(p) /\ LChanged(p) /\ ~RChanged(p)
  /\ loc[p].kind = "file" /\ PutAccepted(p)
  /\ rem' = Stored(p) /\ clock' = clock + 1
  /\ IF PutTags
     THEN Record(p, Entry(clock, sl[p].stamp)) /\ Advance(p)
     ELSE pc' = "tag" /\ UNCHANGED <<ss, todo>>
  /\ NoFault /\ UNCHANGED <<disk, razed, tab, sr, sl, rmd, dl>>

\* The file cannot be opened, the server refuses, or the connection is
\* lost before or after the server has stored the file.
UploadFails(p) ==
  /\ FileItem(p) /\ LChanged(p) /\ ~RChanged(p)
  /\ IF loc[p].kind = "file" /\ PutAccepted(p)
     THEN \/ Fault("disk") /\ UNCHANGED <<rem, clock>>
          \/ Fault("net") /\ UNCHANGED <<rem, clock>>
          \/ Fault("net") /\ rem' = Stored(p) /\ clock' = clock + 1
     ELSE NoFault /\ UNCHANGED <<rem, clock>>
  /\ Advance(p) /\ UNCHANGED <<disk, razed, table>>

\* nsdav_stat() for the etag; what it cannot tell stays empty.
Tag(p) ==
  /\ At("tag", p)
  /\ \/ NoFault /\ Record(p, Entry(rem[p].etag, sl[p].stamp))
     \/ Fault("net") /\ Record(p, Entry(0, sl[p].stamp))
  /\ Advance(p) /\ UNCHANGED <<disk, server, tab, sr, sl, rmd, dl, clock>>

(***************************************************************************)
(* Directory removals, deepest first, and the end of the run               *)
(***************************************************************************)
LeaveLoopNoRemovals ==  \* Mutant: deferred removals are forgotten
  /\ pc = "item" /\ todo = {} /\ pc' = "rmdir" /\ UNCHANGED todo
  /\ NoFault /\ UNCHANGED <<disk, server, table, clock>>

LeaveLoop ==
  /\ pc = "item" /\ todo = {} /\ pc' = "rmdir"
  /\ todo' = {p \in Path : rmd[p] # "no"}
  /\ NoFault /\ UNCHANGED <<disk, server, table, clock>>

RemoveFolder(p) ==
  /\ pc = "rmdir" /\ Last(p) /\ rmd[p] = "remote"
  /\ RequestDelete(p) /\ todo' = todo \ {p}
  /\ UNCHANGED <<disk, pc, tab, sr, sl, rmd, dl, clock>>

RemoveDrawerUntilGone(p) ==  \* Mutant: tried again until it is empty
  /\ pc = "rmdir" /\ Last(p) /\ rmd[p] = "local"
  /\ NoFault /\ loc' = Deleted(p)
  /\ IF Deletable(p) THEN Record(p, NoEntry) /\ todo' = todo \ {p}
     ELSE Known(p) /\ UNCHANGED todo
  /\ UNCHANGED <<part, st, server, pc, tab, sr, sl, rmd, dl, clock>>

RemoveDrawer(p) ==
  /\ pc = "rmdir" /\ Last(p) /\ rmd[p] = "local"
  /\ \/ /\ NoFault /\ loc' = Deleted(p)
        /\ IF Deletable(p) THEN Record(p, NoEntry) ELSE Known(p)
     \/ /\ Fault("disk") /\ UNCHANGED loc /\ Known(p)
  /\ todo' = todo \ {p}
  /\ UNCHANGED <<part, st, server, pc, tab, sr, sl, rmd, dl, clock>>

LeaveRemovals ==
  /\ pc = "rmdir" /\ todo = {} /\ pc' = "save"
  /\ NoFault /\ UNCHANGED <<disk, server, todo, table, clock>>

\* save_state(): the results of Open and Write go unnoticed.
Save ==
  /\ pc = "save"
  /\ \/ NoFault /\ st' = ss
     \/ Fault("state") /\ UNCHANGED st
     \/ /\ Fault("state")
        /\ \E S \in SUBSET tab : st' = [p \in Path |-> IF p \in S THEN ss[p] ELSE NoEntry]
  /\ FreeTable /\ UNCHANGED <<loc, part, server, clock>>

\* Power off, or a Guru: a half written download or state file stays.
Crash ==
  /\ pc # "idle" /\ Fault("crash") /\ FreeTable
  /\ part' \in {part} \cup {part \cup {p} :
                 p \in {q \in Path : At("get", q) /\ IsDir(loc, Parent[q])}}
  /\ \/ UNCHANGED st
     \/ /\ pc = "save"
        /\ \E S \in SUBSET tab : st' = [p \in Path |-> IF p \in S THEN ss[p] ELSE NoEntry]
  /\ UNCHANGED <<loc, server, clock>>

(***************************************************************************)
(* The specification                                                       *)
(***************************************************************************)
Scan == \/ ScanRemoteDone \/ LoadState
        \/ \E d \in Path \cup {Root} :
             \/ ScanRemote(d) \/ ScanRemoteFails(d) \/ ScanRemoteEmpty(d)
             \/ ScanLocal(d) \/ ScanLocalFails(d)
Directories == \E p \in Path : \/ KeepDir(p) \/ DeferRemoval(p)
                               \/ MakeDrawer(p) \/ MakeFolder(p)
Files == \E p \in Path : \/ SkipBadName(p) \/ Abort(p) \/ KeepFile(p) \/ Forget(p)
                         \/ DeleteRemote(p) \/ DeleteLocal(p)
Downloads == \E p \in Path : \/ Download(p) \/ KeepConflictCopy(p)
                             \/ Get(p) \/ GetFails(p) \/ Swap(p)
                             \/ Install(p) \/ InstallFails(p) \/ Stamp(p)
Uploads == \E p \in Path : Upload(p) \/ UploadFails(p) \/ Tag(p)
Finish == \/ LeaveLoop \/ LeaveRemovals \/ Save
          \/ \E p \in Path : RemoveFolder(p) \/ RemoveDrawer(p)

Engine == Scan \/ Directories \/ Files \/ Downloads \/ Uploads \/ Finish

\* Beside what a step does, it is noted what it leaves in conflict copies,
\* and what it fetches that is not what the server has.
Notes ==
  /\ copied' = copied \cup CopiesHold(loc', rem')
  /\ mangled' = mangled \cup ({<<dl'.of, dl'.data>>} \ {<<dl'.of, dl'.of>>})
Next == (Users \/ Start \/ Engine \/ Crash \/ DropState) /\ Notes

Spec == Init /\ [][Next]_vars

Fairness == WF_vars(Engine /\ Notes)
FairSpec == Spec /\ Fairness

(***************************************************************************)
(* Properties                                                              *)
(***************************************************************************)
Kinds == {"none", "file", "dir"}
LocalNode  == [kind : Kinds, data : Nat, stamp : Nat]
RemoteNode == [kind : Kinds, data : Nat, etag : Nat, mtime : Nat]
StateEntry == [known : BOOLEAN, etag : Nat, stamp : Nat]

Typed ==
  /\ loc \in [Path -> LocalNode] /\ rem \in [Path -> RemoteNode]
  /\ st \in [Path -> StateEntry] /\ part \subseteq Path
  /\ pc \in PCs /\ tab \subseteq Path /\ todo \subseteq Path \cup {Root}
  /\ sr \in [Path -> RemoteNode] /\ sl \in [Path -> LocalNode]
  /\ ss \in [Path -> StateEntry] /\ rmd \in [Path -> {"no", "local", "remote"}]
  /\ dl \in [data : Nat, of : Nat, etag : Nat]
  /\ clock \in Nat /\ edits \in Nat /\ faults \in Nat /\ calm \in Nat
  /\ owed \subseteq Nat /\ razed \subseteq Nat

\* The two sides are trees: whatever exists is in a directory that exists.
Tree(side) == \A p \in Path : side[p].kind # "none" => IsDir(side, Parent[p])

\* Type invariant: the shape of the two file systems (trees: no step, fault
\* or race leaves an orphan), of the state file and of the table.
TypeOK == /\ Typed /\ copied \subseteq Nat /\ mangled \subseteq Nat \X Nat
          /\ Tree(loc) /\ Tree(rem)

\* What the state file takes for "unchanged on both sides" is the same on
\* both sides, or what is here is what a broken GET has made of the server's.
\* Of anything else that is "recorded as a good copy" it is so that "nothing
\* would ever notice", as no later run looks at the file again.  It
\* is stated of every file but conflict copies: the Rename that makes one
\* keeps the datestamp, which a download may have taken from an older scan.
Original(p) == \A q \in Path : Conflict[q] # p
CopyOf(l, r) == l = r \/ <<r, l>> \in mangled
Agrees(e, p) ==
  e.known /\ rem[p].kind = "file" /\ rem[p].etag = e.etag
          /\ loc[p].kind = "file" /\ loc[p].stamp = e.stamp
StateSound == \A p \in Path :
  Original(p) /\ Agrees(st[p], p) => CopyOf(loc[p].data, rem[p].data)

\* Why it holds: every number in use is older than clock, so a write can
\* never bring back an etag or a stamp that an entry remembers ...
Fresh ==
  /\ clock # 0 /\ dl.etag < clock
  /\ \A p \in Path :
       /\ loc[p].stamp < clock /\ sl[p].stamp < clock
       /\ rem[p].etag < clock /\ rem[p].mtime < clock /\ sr[p].mtime < clock
       /\ rem[p].kind = "file" => rem[p].etag # 0
       /\ st[p].etag < clock /\ st[p].stamp < clock
       /\ ss[p].etag < clock /\ ss[p].stamp < clock

\* ... and what the table records is sound as well as what the file holds,
\* because during a download dl is what its etag says and newer than the
\* entry in the file, and during an upload the server holds what was sent.
SoundEntry(e, p) ==
  (rem[p].kind = "file" /\ rem[p].etag = e.etag
     /\ loc[p].kind = "file" /\ loc[p].stamp = e.stamp)
       => CopyOf(loc[p].data, rem[p].data)
Fetched(p) ==
  rem[p].kind = "file" =>
    /\ rem[p].etag = dl.etag => rem[p].data = dl.of
    /\ rem[p].etag = st[p].etag => dl.etag = st[p].etag
Sent(p) ==
  /\ rem[p].kind = "file"
  /\ (loc[p].kind = "file" /\ loc[p].stamp = sl[p].stamp) => loc[p].data = rem[p].data
Sound ==
  /\ CopyOf(dl.data, dl.of)
  /\ \A p \in Path : Original(p) => SoundEntry(st[p], p) /\ SoundEntry(ss[p], p)
  /\ \A p \in Path : First(p) =>
       /\ pc \in {"swap", "install", "stamp"} => Fetched(p)
       /\ pc = "stamp" => (loc[p].kind = "file" => loc[p].data = dl.data)
       /\ pc = "tag" => Sent(p)

\* The inductive invariant behind StateSound, under the conditions Orderly.
SoundInv == Fresh /\ Sound

\* No local edit between the Rename of a download and the reading back of its
\* datestamp, none on the server between a PUT without an etag and the
\* PROPFIND for it, and no edit that the 2 seconds' tolerance hides.
Orderly == /\ "stamp" \notin LocalWindow /\ "tag" \notin RemoteWindow
           /\ "quick" \notin Events

\* Every version a user made, and no user gave up, is still on one of the
\* two sides (or in the .nspart of the download under way): "Conflicts are
\* never resolved by losing data".
Reachable ==
  Versions(loc, Path) \cup Versions(rem, Path)
    \cup (IF pc \in {"swap", "install"} /\ part # {} THEN {dl.data} ELSE {})
NothingLost == owed \subseteq Reachable

\* Short of that, a run, a fault or a crash takes the last copy of such a
\* version in three ways only: it has lain in a conflict copy, which the next
\* conflict on the same file replaces; it was deleted on the server along
\* with the folder it was in, and then here as something deleted there; or
\* what a broken GET made of it passes for it here, so that a change or the
\* deletion of that counts as one of it.
Garbled == {m[1] : m \in mangled}
LossConfined ==
  [][edits' = edits =>
       owed \cap Reachable \subseteq Reachable' \cup razed' \cup copied \cup Garbled]_vars

\* Why it holds, and when: users edit between runs, no drawer is unreadable
\* and no listing empty that should not be, no edit hides in the 2 seconds'
\* tolerance, no name is passed over by one scan only, and every conflict copy
\* can be named, made and replaced.
Careful ==
  /\ LocalWindow \subseteq {"idle"} /\ RemoteWindow \subseteq {"idle"}
  /\ Events \cap {"quick", "rename", "scan", "listing"} = {}
  /\ \A p \in Path : Class[p] \notin {"dot", "part"}
  /\ \A p \in Path : Original(p) /\ Class[p] # "bad" /\ "file" \in KindsOf[p]
                      => Conflict[p] # NoPath
  /\ \A c \in Copies : "dir" \notin KindsOf[c] /\ \A p \in Path : c \notin Above[p]

\* The versions LossConfined is about.  Where an entry matches one of them on
\* one side the other side has it as well, so that taking that side's copy
\* for deleted, or overwriting it, leaves the other's.
Vital == owed \ (razed \cup copied \cup Garbled)
HeldHere(e, p) ==
  (rem[p].kind = "file" /\ rem[p].etag = e.etag /\ rem[p].data \in Vital)
     => (loc[p].kind = "file" /\ loc[p].data = rem[p].data)
HeldThere(e, p) ==
  (loc[p].kind = "file" /\ loc[p].stamp = e.stamp /\ loc[p].data \in Vital)
     => (rem[p].kind = "file" /\ rem[p].data = loc[p].data)
Mirrored == \A p \in Path : \A e \in {st[p], ss[p]} : HeldHere(e, p) /\ HeldThere(e, p)

\* Versions are older than the clock, and an entry that knows nothing, or a
\* time that is 0, matches nothing.
Dated == \A p \in Path :
  /\ loc[p].data < clock /\ rem[p].data < clock
  /\ loc[p].kind = "file" => loc[p].stamp # 0
  /\ ~st[p].known => st[p].etag = 0
  /\ ~ss[p].known => ss[p].etag = 0

\* What a broken GET makes is a version of its own, on which no user counts.
Nobodys ==
  /\ CopyOf(dl.data, dl.of)
  /\ \A m \in mangled : m[2] < clock /\ m[2] \notin owed
  /\ \A v \in owed : v < clock

\* Conflict copies are files, and files are where users make files.
CopiesKept ==
  /\ CopiesHold(loc, rem) \subseteq copied
  /\ \A c \in Copies : "dir" \notin {loc[c].kind, rem[c].kind, sl[c].kind, sr[c].kind}
KindsFit == \A p \in Path :
  Original(p) /\ "file" \in {loc[p].kind, rem[p].kind} => "file" \in KindsOf[p]

\* What is there has been seen, or lies below a folder still to be listed, or
\* there was no room for it in the table and there never will be.
SeenThere(p) ==
  rem[p].kind # "none" => sr[p].kind = rem[p].kind /\ sr[p].etag = rem[p].etag
SeenHere(p) ==
  loc[p].kind # "none" => sl[p].kind = loc[p].kind /\ sl[p].stamp = loc[p].stamp
Pending(p) == \E d \in todo : d = Root \/ d \in Above[p]
NoRoom(p)  == p \notin tab /\ Cardinality(tab) >= MaxEntries
Scanned ==
  /\ pc \in {"idle", "scanR", "scanL"} =>
       \A p \in Path : ss[p] = NoEntry /\ rmd[p] = "no"
  /\ pc = "idle" => tab = {}
  /\ pc = "scanR" => \A p \in Path :
       (SeenThere(p) \/ Pending(p) \/ NoRoom(p)) /\ (p \in tab => SeenThere(p))
  /\ pc = "scanL" => \A p \in Path :
       (SeenThere(p) \/ NoRoom(p)) /\ (SeenHere(p) \/ Pending(p) \/ NoRoom(p))

\* Of an item the loop has not come to, the table still tells the truth.
Looping == {"item", "get", "swap", "install", "stamp", "tag"}
Ahead(p) == p \in todo /\ (pc = "item" \/ ~First(p))
Awaited ==
  /\ pc \in Looping => todo \subseteq Path
  /\ pc \in Looping \ {"item"} => \E p \in Path : First(p)
  /\ pc \in Looping => \A p \in Path :
       /\ Ahead(p) => /\ SeenThere(p) /\ (Original(p) => SeenHere(p))
                      /\ ss[p] \in {st[p], NoEntry}
       /\ rmd[p] # "no" => p \notin todo
  /\ pc \in Looping \cup {"rmdir"} => \A p \in Path :
       /\ rmd[p] = "remote" => rem[p].kind # "file"
       /\ rmd[p] = "local" /\ Original(p) => loc[p].kind # "file"

\* A download replaces only what is as the entry says while the server's is
\* not, fetches what the server has, and an upload leaves both sides equal.
Transferred == \A p \in Path : First(p) =>
  /\ (pc \in {"get", "swap"} /\ Original(p) /\ loc[p].kind = "file") =>
       /\ ss[p] = st[p] /\ loc[p].stamp = st[p].stamp
       /\ rem[p].kind = "file" => rem[p].etag # st[p].etag
  /\ pc \in {"swap", "install", "stamp"} =>
       rem[p].kind = "file" /\ rem[p].data = dl.of /\ rem[p].etag = dl.etag
  /\ pc = "stamp" => loc[p].kind = "file" /\ loc[p].data = dl.data
  /\ pc = "tag" => /\ rem[p].kind = "file" /\ loc[p].kind = "file"
                   /\ loc[p].data = rem[p].data
                   /\ Original(p) => loc[p].stamp = sl[p].stamp

\* The inductive invariant behind LossConfined, under the conditions Careful:
\* of every version a user still counts on, what a run may take for deleted or
\* overwrite is on the other side as well.
LossInv == /\ Mirrored /\ Dated /\ Nobodys /\ CopiesKept /\ KindsFit
           /\ Scanned /\ Awaited /\ Transferred

\* A run deletes a file on the server only when the state file proves that
\* this very version of it was synced before: "A deletion is only propagated
\* for a file the state file proves was synced before".
ProvedSynced(p) == st[p].known /\ st[p].etag = rem[p].etag
DeletionProved ==
  [][Engine => \A p \in Path :
       (rem[p].kind = "file" /\ rem'[p].kind = "none") => ProvedSynced(p)]_vars

\* ... and only when the Amiga's user has deleted it: "in state but missing
\* on one side -> deleted on that side".  (A conflict copy may have been made
\* in the same run, after the scan.)
DeletedIsGone ==
  [][Engine => \A p \in Path :
       (Original(p) /\ rem[p].kind = "file" /\ rem'[p].kind = "none")
          => loc[p].kind = "none"]_vars

\* Both hold in any tree of what a run deletes by itself, while the folders
\* above it stay: what goes with a folder is a loss of LossConfined.
DeletedAlone(p) ==
  /\ rem[p].kind = "file" /\ rem'[p].kind = "none"
  /\ \A d \in Above[p] : rem'[d].kind # "none"
DeletionFounded ==
  [][Engine => \A p \in Path : DeletedAlone(p) =>
       ProvedSynced(p) /\ (Original(p) => loc[p].kind = "none")]_vars

\* Once runs are left alone they bring both sides, and the state file, into
\* step: after Settle runs in a row without an edit or a fault nothing that
\* can be synced differs, but for what a broken GET has left.  Of the
\* data of conflict copies it says nothing, as StateSound does: a copy replaced
\* between the scan and its upload is recorded with the stamp of the one
\* before it.
InStep(p) ==
  /\ loc[p].kind = rem[p].kind
  /\ loc[p].kind = "file" => /\ Agrees(st[p], p)
                             /\ Original(p) => CopyOf(loc[p].data, rem[p].data)
  /\ st[p].known = (loc[p].kind # "none")
Converged ==
  (calm >= Settle /\ pc = "idle") =>
     \A p \in Path : Class[p] = "plain" => InStep(p)

\* The same, short of one thing: a drawer that was synced, has gone on the
\* server and is not empty here stays as it is, run after run, with all that
\* is in it (RMDIR_LOCAL fails and keeps the entry that blocks the MKCOL).
Stuck(p) == \E d \in Above[p] \cup {p} :
              loc[d].kind = "dir" /\ rem[d].kind = "none" /\ st[d].known
ConvergedOrStuck ==
  (calm >= Settle /\ pc = "idle") =>
     \A p \in Path : Class[p] = "plain" => InStep(p) \/ Stuck(p)

\* "so a second run transfers nothing": a run that follows them writes
\* nothing on either side.
SecondRunQuiet ==
  [][(calm > Settle /\ calm' > Settle) => UNCHANGED <<loc, rem, st>>]_vars

\* Every run comes to its end, whatever fails in it.
RunEnds == (pc # "idle") ~> (pc = "idle")
=============================================================================
