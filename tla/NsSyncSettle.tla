---------------------------- MODULE NsSyncSettle ----------------------------
(***************************************************************************)
(* Converged, ConvergedOrStuck and SecondRunQuiet, for any folder and any  *)
(* bounds: left alone, the first run takes over what the server has, the   *)
(* second settles the rest, and the runs after it change nothing any more. *)
(* Each run has an invariant of its own, which begins with what the one    *)
(* before has left: FirstRun, NextRun and Still.  The conditions under     *)
(* which they hold are Settling.                                           *)
(***************************************************************************)
EXTENDS NsSyncLoss

\* The conditions: no edit slips into the gaps Orderly names, every path is a
\* file's or a directory's, the table has room for all, and what is in a
\* drawer the engine passes over by its name is passed over as well.
Settling ==
  /\ Orderly /\ 2 <= Settle /\ Cardinality(Path) <= MaxEntries
  /\ \A p \in Path : KindsOf[p] # {"file", "dir"}
  /\ \A c \in Copies : "dir" \notin KindsOf[c]
  /\ \A p \in Path : Class[p] = "plain" => \A q \in Above[p] : Class[q] = "plain"

Plain == {p \in Path : Class[p] = "plain"}

(***************************************************************************)
(* The invariants                                                          *)
(***************************************************************************)
\* A path is a file's or a directory's on both sides and in the table.
KindFits(k, p) ==
  /\ k = "dir" => "dir" \in KindsOf[p]
  /\ k = "file" => "dir" \notin KindsOf[p]
KindsHold ==
  /\ \A p \in Path :
       /\ KindFits(loc[p].kind, p) /\ KindFits(rem[p].kind, p)
       /\ KindFits(sl[p].kind, p) /\ KindFits(sr[p].kind, p)
       /\ rem[p].kind = "none" => rem[p] = Missing
       /\ sr[p].kind # "none" => \A q \in Above[p] : "dir" \in KindsOf[q]
       /\ (First(p) /\ pc \in {"swap", "install"}) => "dir" \notin KindsOf[p]

\* Names the scan passes over have no place in the l_ columns, an entry that
\* knows nothing is empty, and so is the table where it has not been filled.
TableClean ==
  /\ \A p \in Path : /\ sl[p].kind # "none" => Class[p] \notin {"dot", "part"}
                     /\ ~st[p].known => st[p] = NoEntry
                     /\ ~ss[p].known => ss[p] = NoEntry
  /\ pc = "idle" => \A p \in Path : sr[p].kind = "none"
  /\ pc \in {"idle", "scanR"} => \A p \in Path : sl[p].kind = "none"
  /\ pc \in {"idle", "scanR", "scanL"} => \A p \in Path : ss[p] = NoEntry /\ rmd[p] = "no"

\* In a run that neither an edit nor a fault disturbs the scans miss nothing.
TrueThere(p) ==
  sr[p].kind = rem[p].kind /\ (rem[p].kind = "file" => sr[p].etag = rem[p].etag)
TrueHere(p) ==
  sl[p].kind = loc[p].kind /\ (loc[p].kind = "file" => sl[p].stamp = loc[p].stamp)
ScansTrue ==
  /\ pc = "scanR" =>
       /\ \A d \in todo : IsDir(rem, d)
       /\ \A p \in Path : TrueThere(p) \/ (sr[p].kind = "none" /\ Pending(p))
  /\ pc = "scanL" =>
       /\ \A d \in todo : IsDir(loc, d) /\ (d # Root => Class[d] \notin {"dot", "part"})
       /\ \A p \in Path : TrueThere(p)
       /\ \A p \in Plain : TrueHere(p) \/ (sl[p].kind = "none" /\ Pending(p))
  /\ pc \in {"scanR", "scanL"} =>
       \A p \in Path : sr[p].kind # "none" \/ sl[p].kind # "none" => p \in tab

\* What the server has of p the Amiga has as well, and the entry e says so;
\* but a folder may be about to go.
Mirror(e, p, goes) ==
  /\ rem[p].kind = "dir" => e.known /\ (loc[p].kind = "dir" \/ goes)
  /\ rem[p].kind = "file" =>
       /\ e.known /\ e.etag = rem[p].etag
       /\ loc[p].kind = "file" /\ (Original(p) => e.stamp = loc[p].stamp)

\* The loop: which items it has been to, and what is true of the others.
LoopTable ==
  pc \in Looping =>
    /\ todo \subseteq tab
    /\ \A q \in todo : \A p \in tab \ todo : Rank[p] < Rank[q]
    /\ \A p \in Path : /\ p \notin tab => rem[p].kind = "none"
                       /\ p \in todo => rmd[p] = "no"
                       /\ Ahead(p) => TrueThere(p)

\* What the transfer under way can rely on.
Fetching(p) ==
  /\ pc \in {"get", "swap", "install"} => rem[p].kind = "file" /\ IsDir(loc, Parent[p])
  /\ pc \in {"swap", "install"} => p \in part /\ dl.etag = rem[p].etag
  /\ pc = "install" => loc[p].kind = "none"
  /\ pc = "stamp" => rem[p].kind = "file" /\ dl.etag = rem[p].etag /\ loc[p].kind = "file"
  /\ pc = "tag" => /\ rem[p].kind = "file" /\ loc[p].kind = "file"
                   /\ Original(p) => loc[p].stamp = sl[p].stamp
LoopTrue ==
  pc \in Looping => \A p \in Plain :
    /\ Ahead(p) => /\ Original(p) => TrueHere(p)
                   /\ sl[p].kind = "file" => loc[p].kind = "file"
    /\ First(p) => Fetching(p)
    /\ p \notin todo => Mirror(ss[p], p, rmd[p] = "remote")

\* The removals after it, in their order, and the end of the run.
EndTrue ==
  /\ pc \in Looping \cup {"rmdir"} =>
       \A p \in Path : rmd[p] = "local" => rem[p].kind = "none"
  /\ pc = "rmdir" =>
       /\ todo \subseteq Path
       /\ \A p \in Path : rmd[p] # "no" /\ p \notin todo => \A q \in todo : Rank[q] < Rank[p]
       /\ \A p \in Plain : Mirror(ss[p], p, p \in todo /\ rmd[p] = "remote")
  /\ pc = "save" => \A p \in Plain : Mirror(ss[p], p, FALSE)
  /\ pc = "idle" => \A p \in Plain : Mirror(st[p], p, FALSE)

\* So a quiet run leaves nothing on the server that is not here as well.
FirstRun == calm >= 1 => ScansTrue /\ LoopTable /\ LoopTrue /\ EndTrue

\* What the next one makes of p: both sides have the same, and the entry e
\* says so, or the Amiga alone has it ...
Alike(e, p) ==
  /\ rem[p].kind # "none" => e.known /\ loc[p].kind = rem[p].kind
  /\ rem[p].kind = "file" => e.etag = rem[p].etag /\ e.stamp = loc[p].stamp
  /\ (rem[p].kind = "none" /\ loc[p].kind = "none") => ~e.known
  /\ (rem[p].kind = "none" /\ loc[p].kind = "file") => ~(e.known /\ e.stamp = loc[p].stamp)
OnlyHere(p) == rem[p].kind = "none" /\ loc[p].kind # "none"
\* ... because of a drawer that has gone there and is kept here, with what
\* is in it.
Kept(e, d) == loc[d].kind = "dir" /\ rem[d].kind = "none" /\ e.known
HeldUp(p, done) == \E d \in (Above[p] \cup {p}) \cap done : Kept(ss[d], d)
Full(e, p) == Kept(e, p) => Inside(loc, p) # {}
Settled(p) == Alike(st[p], p) /\ (OnlyHere(p) => Stuck(p)) /\ Full(st[p], p)

LoopAlike ==
  pc \in Looping => \A p \in Plain :
    /\ p \in todo => /\ TrueHere(p)
                     /\ (pc = "tag" /\ First(p)) \/ Mirror(ss[p], p, FALSE)
    /\ First(p) => pc \in {"item", "tag"}
    /\ p \notin todo => /\ Alike(ss[p], p)
                        /\ OnlyHere(p) => HeldUp(p, Path \ todo)
                        /\ Kept(ss[p], p) <=> rmd[p] = "local"
    /\ p \notin tab => loc[p].kind = "none"
    /\ rmd[p] # "remote"
EndAlike ==
  /\ pc \in {"rmdir", "save"} => \A p \in Plain :
       Alike(ss[p], p) /\ (OnlyHere(p) => HeldUp(p, Path))
  /\ pc = "rmdir" => \A p \in Plain :
       /\ Kept(ss[p], p) => rmd[p] = "local" /\ (p \notin todo => Inside(loc, p) # {})
       /\ (rmd[p] = "local" /\ p \in todo) => Kept(ss[p], p)
       /\ rmd[p] # "remote"
  /\ pc = "save" => \A p \in Plain : Full(ss[p], p)
  /\ pc = "idle" => \A p \in Plain : Settled(p)
NextRun ==
  calm >= 2 =>
    /\ pc \in {"scanR", "scanL"} => \A p \in Plain : Mirror(st[p], p, FALSE)
    /\ LoopAlike /\ EndAlike

\* From then on nothing changes any more.
Bare == \A p \in Path : Class[p] \in {"plain", "bad"}
Unmoved ==
  pc \in Looping \cup {"rmdir", "save"} =>
    /\ ss = st /\ pc \in {"item", "rmdir", "save"}
    /\ \A p \in Path : rmd[p] # "remote" /\ (rmd[p] = "local" => p \in Plain /\ Kept(st[p], p))
Still == (calm > 2 /\ Bare) => (\A p \in Plain : Settled(p)) /\ Unmoved

(***************************************************************************)
(* Quiet steps                                                             *)
(***************************************************************************)
\* A step after which the count of quiet runs is not 0 is a step of a run in
\* which nothing fails.
LEMMA QuietStep ==
  ASSUME Typed, [Next]_vars, calm' # 0
  PROVE  \/ UNCHANGED vars
         \/ Start /\ calm' \in {calm, calm + 1} /\ (calm' = calm => calm > Settle)
         \/ Engine /\ calm' = calm
<1>1. ~Users
  BY DEF Users, LocalWrite, LocalMakeDrawer, LocalRemove, RemoteWrite,
         RemoteMakeFolder, RemoteRemove, Edit
<1>2. ~Crash /\ ~DropState
  BY DEF Crash, DropState, Fault
<1>3. Start => calm' \in {calm, calm + 1} /\ (calm' = calm => calm > Settle)
  BY BoundAssumption DEF Start, Typed
<1>4. CASE Engine
  <2>1. Scan => calm' = calm
    BY DEF Scan, ScanRemoteDone, LoadState, ScanRemote, ScanRemoteFails, ScanRemoteEmpty,
           ScanLocal, ScanLocalFails, Fault, NoFault, meters
  <2>2. Directories => calm' = calm
    BY DEF Directories, KeepDir, DeferRemoval, MakeDrawer, MakeFolder, Fault, NoFault, meters
  <2>3. Files => calm' = calm
    BY DEF Files, SkipBadName, Abort, KeepFile, Forget, DeleteRemote, DeleteLocal,
           RequestDelete, Fault, NoFault, meters
  <2>4. Downloads => calm' = calm
    BY DEF Downloads, Download, KeepConflictCopy, Get, GetFails, Swap, Install,
           InstallFails, Stamp, Fault, NoFault, meters
  <2>5. Uploads => calm' = calm
    BY DEF Uploads, Upload, UploadFails, Tag, Fault, NoFault, meters
  <2>6. Finish => calm' = calm
    BY DEF Finish, LeaveLoop, LeaveRemovals, Save, RemoveFolder, RemoveDrawer,
           RequestDelete, Fault, NoFault, meters
  <2> QED BY <1>4, <2>1, <2>2, <2>3, <2>4, <2>5, <2>6 DEF Engine
<1> QED BY <1>1, <1>2, <1>3, <1>4 DEF Next

(***************************************************************************)
(* Kinds                                                                   *)
(***************************************************************************)
\* Where users make files they make no directories.
LEMMA OneKind ==
  ASSUME Settling, NEW p \in Path, "file" \in KindsOf[p]
  PROVE  "dir" \notin KindsOf[p]
<1>1. KindsOf[p] \in SUBSET {"file", "dir"} /\ KindsOf[p] # {"file", "dir"}
  BY TreeAssumption DEF Settling
<1> QED BY <1>1

\* The drawers that are created are among those that were missing.
LEMMA DrawersMade ==
  ASSUME NEW D, NEW k, NEW q \in Path
  PROVE  \/ EnsureDrawers(D, k)[q] = loc[q]
         \/ loc[q].kind = "none" /\ EnsureDrawers(D, k)[q] = Drawer /\ q \in D
BY DEF EnsureDrawers

\* What a step of a run, whatever fails in it, makes of a path on the Amiga.
LEMMA LocalKinds ==
  ASSUME TypeOK, Run, NEW q \in Path
  PROVE  \/ loc'[q] \in {loc[q], Absent}
         \/ /\ loc'[q] = Drawer
            /\ \E p \in Path : /\ sr[p].kind # "none"
                               /\ q \in Above[p] \/ (q = p /\ sr[p].kind = "dir")
         \/ /\ loc'[q].kind = "file"
            /\ q \in Copies \/ At("install", q) \/ loc[q].kind = "file"
<1> DEFINE Made(p) == q \in Above[p] \/ (q = p /\ sr[p].kind = "dir")
           Goal == \/ loc'[q] \in {loc[q], Absent}
                   \/ loc'[q] = Drawer /\ \E p \in Path : sr[p].kind # "none" /\ Made(p)
                   \/ /\ loc'[q].kind = "file"
                      /\ q \in Copies \/ At("install", q) \/ loc[q].kind = "file"
<1>0. loc \in [Path -> LocalNode]
  BY DEF TypeOK, Typed
<1>1. CASE UNCHANGED loc
  BY <1>1
<1>2. ASSUME NEW p \in Path, loc' = Deleted(p) PROVE Goal
  BY <1>0, <1>2 DEF Deleted
<1>3. ASSUME NEW p \in Path, sr[p].kind # "none", NEW D,
             D = Above[p] \/ (D = Above[p] \cup {p} /\ sr[p].kind = "dir"),
             loc' \in EnsureDrawersFails(D) \/ \E k : loc' = EnsureDrawers(D, k)
      PROVE  Goal
  <2>1. ASSUME NEW F, NEW k, F \subseteq Above[p] \/ F = D, loc' = EnsureDrawers(F, k)
        PROVE  Goal
    BY <1>3, <2>1, DrawersMade
  <2>2. ASSUME NEW k \in D PROVE Above[k] \subseteq Above[p]
    BY <1>3, <2>2, TreeAssumption
  <2> QED BY <1>3, <2>1, <2>2 DEF EnsureDrawersFails
<1>4. ASSUME NEW d, ScanLocal(d) PROVE Goal
  BY <1>4 DEF ScanLocal
<1>5. ASSUME NEW p \in Path, MakeDrawer(p) PROVE Goal
  <2>1. sr[p].kind = "dir"
    BY <1>5 DEF MakeDrawer, DirItem, IsDirItem, OnServer, OnAmiga
  <2>2. \/ loc' \in EnsureDrawersFails(Above[p] \cup {p})
        \/ \E k : loc' = EnsureDrawers(Above[p] \cup {p}, k)
    BY <1>5 DEF MakeDrawer
  <2> QED BY <1>3, <2>1, <2>2
<1>6. ASSUME NEW p \in Path, Download(p) PROVE Goal
  <2>1. sr[p].kind # "none"
    BY <1>6 DEF Download, RChanged, OnServer
  <2>2. \/ UNCHANGED loc \/ loc' \in EnsureDrawersFails(Above[p])
        \/ \E k : loc' = EnsureDrawers(Above[p], k)
    BY <1>6 DEF Download
  <2> QED BY <1>1, <1>3, <2>1, <2>2
<1>7. ASSUME NEW p \in Path, DeleteLocal(p) \/ Swap(p) \/ RemoveDrawer(p) PROVE Goal
  <2>1. UNCHANGED loc \/ loc' = Deleted(p)
    BY <1>7 DEF DeleteLocal, Swap, RemoveDrawer
  <2> QED BY <1>1, <1>2, <2>1
<1>8. ASSUME NEW p \in Path, Install(p) PROVE Goal
  <2>1. loc'[q] = loc[q] \/ (p = q /\ loc'[q].kind = "file")
    BY <1>0, <1>8 DEF Install, File
  <2> QED BY <1>8, <2>1 DEF Install
<1>9. ASSUME NEW p \in Path, Stamp(p) PROVE Goal
  <2>1. loc' = loc \/ (loc[p].kind = "file" /\ loc' = [loc EXCEPT ![p].stamp = sr[p].mtime])
    BY <1>9 DEF Stamp
  <2>2. loc'[q].kind = loc[q].kind /\ (loc'[q] # loc[q] => loc[q].kind = "file")
    BY <1>0, <2>1 DEF LocalNode
  <2> QED BY <2>2
<1>10. ASSUME NEW p \in Path, KeepConflictCopy(p) PROVE Goal
  <2> DEFINE c == Conflict[p]
             cleared == IF c = NoPath THEN loc ELSE Deleted(c)
             moved == IF c # NoPath /\ cleared[c].kind = "none" /\ loc[p].kind = "file"
                      THEN [cleared EXCEPT ![c] = loc[p], ![p] = Absent] ELSE cleared
  <2>1. loc' \in {loc, cleared, moved}
    BY <1>10 DEF KeepConflictCopy
  <2>2. c \in Path \cup {NoPath}
    BY TreeAssumption
  <2>3. cleared[q] \in {loc[q], Absent} /\ cleared \in [Path -> {loc[r] : r \in Path} \cup {Absent}]
    BY <1>0, <2>2 DEF Deleted
  <2>4. \/ moved[q] \in {cleared[q], Absent}
        \/ q = c /\ moved[q] = loc[p] /\ loc[p].kind = "file"
    <3> HIDE DEF cleared, c
    <3> QED BY <2>3
  <2>5. q = c => q \in Copies
    BY DEF Copies
  <2> HIDE DEF cleared, moved, c
  <2> QED BY <2>1, <2>3, <2>4, <2>5
<1>11. Start \/ Crash \/ DropState => UNCHANGED loc
  BY DEF Start, Crash, DropState, disk
<1>12. CASE Engine
  BY <1>1, <1>4, <1>5, <1>6, <1>7, <1>8, <1>9, <1>10, <1>12, EngineLocalStep
<1> QED BY <1>11, <1>1, <1>12 DEF Run

\* What an edit makes of a path.
LEMMA UserKinds ==
  ASSUME Settling, TypeOK, Users, NEW q \in Path
  PROVE  /\ loc'[q] \in {loc[q], Absent} \/ KindFits(loc'[q].kind, q)
         /\ rem'[q] \in {rem[q], Missing}
              \/ (KindFits(rem'[q].kind, q) /\ rem'[q].kind # "none")
<1>0. loc \in [Path -> LocalNode] /\ rem \in [Path -> RemoteNode]
  BY DEF TypeOK, Typed
<1>1. ASSUME NEW p \in Path, LocalWrite(p)
      PROVE  rem' = rem /\ (loc'[q] = loc[q] \/ KindFits(loc'[q].kind, q))
  <2>1. /\ rem' = rem /\ "file" \in KindsOf[p]
        /\ \E s : loc' = [loc EXCEPT ![p] = File(clock, s)]
    BY <1>1 DEF LocalWrite
  <2>2. loc'[q] = loc[q] \/ (p = q /\ loc'[q].kind = "file")
    BY <1>0, <2>1, Shapes
  <2> QED BY <2>1, <2>2, OneKind DEF KindFits
<1>2. ASSUME NEW p \in Path, RemoteWrite(p)
      PROVE  /\ loc' = loc
             /\ rem'[q] = rem[q] \/ (KindFits(rem'[q].kind, q) /\ rem'[q].kind # "none")
  <2>1. /\ loc' = loc /\ "file" \in KindsOf[p]
        /\ \E m : rem' = [rem EXCEPT ![p] = Resource(clock, clock, m)]
    BY <1>2 DEF RemoteWrite
  <2>2. rem'[q] = rem[q] \/ (p = q /\ rem'[q].kind = "file")
    BY <1>0, <2>1, Shapes
  <2> QED BY <2>1, <2>2, OneKind DEF KindFits
<1>3. ASSUME NEW p \in Path, LocalMakeDrawer(p) \/ RemoteMakeFolder(p)
      PROVE  /\ loc'[q] = loc[q] \/ KindFits(loc'[q].kind, q)
             /\ rem'[q] = rem[q] \/ (KindFits(rem'[q].kind, q) /\ rem'[q].kind # "none")
  BY <1>0, <1>3, Shapes DEF LocalMakeDrawer, RemoteMakeFolder, KindFits
<1>4. ASSUME NEW p \in Path, LocalRemove(p) \/ RemoteRemove(p)
      PROVE  loc'[q] \in {loc[q], Absent} /\ rem'[q] \in {rem[q], Missing}
  BY <1>4 DEF LocalRemove, RemoteRemove, RemoteWithout
<1> QED BY <1>1, <1>2, <1>3, <1>4 DEF Users

\* The engine makes at a path what users make there.
LEMMA KindsHoldStep ==
  ASSUME Settling, TypeOK, KindsHold, [Next]_vars
  PROVE  KindsHold'
<1>0. Typed /\ Tree(rem) /\ loc \in [Path -> LocalNode] /\ rem \in [Path -> RemoteNode]
  BY DEF TypeOK, Typed
<1>1. ASSUME NEW q \in Path PROVE KindFits(loc'[q].kind, q)
  <2>1. KindFits(Absent.kind, q) /\ KindFits(loc[q].kind, q)
    BY Shapes DEF KindFits, KindsHold
  <2>2. CASE Users
    BY <2>1, <2>2, UserKinds
  <2>3. CASE UNCHANGED vars
    BY <2>1, <2>3 DEF vars, disk
  <2>4. CASE Run
    <3>1. ASSUME NEW p \in Path, sr[p].kind # "none",
                 q \in Above[p] \/ (q = p /\ sr[p].kind = "dir")
          PROVE  "dir" \in KindsOf[q]
      BY <3>1 DEF KindsHold, KindFits
    <3>2. q \in Copies \/ At("install", q) \/ loc[q].kind = "file" => "dir" \notin KindsOf[q]
      BY DEF KindsHold, KindFits, At, Settling
    <3> QED BY <2>1, <2>4, <3>1, <3>2, LocalKinds, Shapes DEF KindFits
  <2> QED BY <2>2, <2>3, <2>4, StepKinds
<1>2. ASSUME NEW q \in Path
      PROVE  KindFits(rem'[q].kind, q) /\ (rem'[q].kind = "none" => rem'[q] = Missing)
  <2>1. /\ KindFits(Missing.kind, q) /\ KindFits(rem[q].kind, q)
        /\ rem[q].kind = "none" => rem[q] = Missing
    BY Shapes DEF KindFits, KindsHold
  <2>2. CASE Users
    BY <2>1, <2>2, UserKinds
  <2>3. CASE UNCHANGED vars
    BY <2>1, <2>3 DEF vars, server
  <2>4. CASE Run
    <3>1. MakeFolder(q) => "dir" \in KindsOf[q]
      BY DEF MakeFolder, DirItem, IsDirItem, OnServer, KindsHold, KindFits
    <3>2. loc[q].kind = "file" => "dir" \notin KindsOf[q]
      BY DEF KindsHold, KindFits
    <3> QED BY <2>1, <2>4, <3>1, <3>2, RemoteFate, Shapes DEF KindFits
  <2> QED BY <2>2, <2>3, <2>4, StepKinds
<1>3. ASSUME NEW q \in Path
      PROVE  /\ KindFits(sl'[q].kind, q) /\ KindFits(sr'[q].kind, q)
             /\ sr'[q].kind # "none" => \A d \in Above[q] : "dir" \in KindsOf[d]
  <2>1. /\ KindFits("none", q) /\ KindFits(loc[q].kind, q) /\ KindFits(rem[q].kind, q)
        /\ KindFits(sl[q].kind, q) /\ KindFits(sr[q].kind, q)
        /\ sr[q].kind # "none" => \A d \in Above[q] : "dir" \in KindsOf[d]
    BY DEF KindFits, KindsHold
  <2>2. rem[q].kind # "none" => \A d \in Above[q] : "dir" \in KindsOf[d]
    BY <1>0, AboveAreDirs, Places DEF KindsHold, KindFits
  <2>3. /\ [loc[q] EXCEPT !.data = 0].kind = loc[q].kind
        /\ [rem[q] EXCEPT !.data = 0].kind = rem[q].kind
    BY <1>0 DEF LocalNode, RemoteNode
  <2> QED BY <1>0, <2>1, <2>2, <2>3, SeenStep, Shapes
<1>4. ASSUME NEW q \in Path, First(q)', pc' \in {"swap", "install"}
      PROVE  "dir" \notin KindsOf[q]
  <2>1. ASSUME NEW p \in Path, Get(p) PROVE "dir" \notin KindsOf[q]
    <3>1. First(p) /\ First(q) /\ rem[p].kind = "file"
      BY <1>4, <2>1 DEF Get, At, First
    <3> QED BY <3>1, FirstUnique DEF KindsHold, KindFits
  <2>2. CASE UNCHANGED todo /\ pc \in {"swap", "install"}
    BY <1>4, <2>2 DEF First, KindsHold
  <2>3. ASSUME NEW p \in Path, Swap(p) \/ Install(p) PROVE pc \in {"swap", "install"}
    BY <2>3 DEF Swap, Install, At
  <2> QED BY <1>0, <1>4, <2>1, <2>2, <2>3, WindowStep
<1> QED BY <1>1, <1>2, <1>3, <1>4 DEF KindsHold

\* The first state has directories and files where users make them.
LEMMA InitKinds ==
  ASSUME Settling, Init
  PROVE  KindsHold
<1>1. PICK S \in Folders :
        LET Drawers == {p \in S : InitKind(p) = "dir"}
            Content == S \ Drawers
            Place(p, dir, file, none) ==
              IF p \in Drawers THEN dir ELSE IF p \in Content THEN file ELSE none
        IN
        /\ loc = [p \in Path |-> Place(p, Drawer, File(Rank[p], Rank[p]), Absent)]
        /\ rem = [p \in Path |-> Place(p, Folder, Resource(Rank[p], Rank[p], Rank[p]), Missing)]
  BY DEF Init
<1>2. /\ sr = [p \in Path |-> Missing] /\ sl = [p \in Path |-> Absent] /\ pc = "idle"
  BY DEF Init
<1>3. ASSUME NEW p \in Path
      PROVE  /\ KindFits(loc[p].kind, p) /\ KindFits(rem[p].kind, p)
             /\ rem[p].kind = "none" => rem[p] = Missing
  <2>1. p \in S => KindsOf[p] # {} /\ KindsOf[p] \subseteq {"file", "dir"}
    BY TreeAssumption DEF Folders
  <2>2. /\ p \in S /\ InitKind(p) = "dir" => "dir" \in KindsOf[p]
        /\ p \in S /\ InitKind(p) # "dir" => "dir" \notin KindsOf[p]
    BY <2>1, OneKind DEF InitKind
  <2> QED BY <1>1, <2>2, Shapes DEF KindFits
<1> QED BY <1>2, <1>3, Shapes DEF KindsHold, KindFits

(***************************************************************************)
(* The table between runs                                                  *)
(***************************************************************************)
\* Only the scan of the drawer fills the l_ columns.
LEMMA HereColumnStep ==
  ASSUME [Next]_vars
  PROVE  sl' = sl \/ FreeTable \/ \E d \in Path \cup {Root} : ScanLocal(d)
<1>1. Users => sl' = sl
  BY DEF Users, LocalWrite, LocalMakeDrawer, LocalRemove, RemoteWrite,
         RemoteMakeFolder, RemoteRemove, Edit, table
<1>2. Scan => sl' = sl \/ FreeTable \/ \E d \in Path \cup {Root} : ScanLocal(d)
  BY DEF Scan, ScanRemoteDone, LoadState, ScanRemote, ScanRemoteFails, ScanRemoteEmpty,
         ScanLocalFails, table
<1>3. Directories => sl' = sl
  BY DEF Directories, KeepDir, DeferRemoval, MakeDrawer, MakeFolder
<1>4. Files => sl' = sl
  BY DEF Files, SkipBadName, Abort, KeepFile, Forget, DeleteRemote, DeleteLocal, table
<1>5. Downloads => sl' = sl
  BY DEF Downloads, Download, KeepConflictCopy, Get, GetFails, Swap, Install,
         InstallFails, Stamp, table
<1>6. Uploads => sl' = sl
  BY DEF Uploads, Upload, UploadFails, Tag, table
<1>7. Finish => sl' = sl \/ FreeTable
  BY DEF Finish, LeaveLoop, LeaveRemovals, Save, RemoveFolder, RemoveDrawer, table
<1>8. Start \/ Crash \/ DropState \/ UNCHANGED vars => sl' = sl \/ FreeTable
  BY DEF Start, Crash, DropState, vars, table
<1> QED BY <1>1, <1>2, <1>3, <1>4, <1>5, <1>6, <1>7, <1>8 DEF Next, Engine

\* The table is empty where nothing has filled it yet.
LEMMA TableCleanStep ==
  ASSUME TypeOK, TableClean, [Next]_vars
  PROVE  TableClean'
<1>0. Typed
  BY DEF TypeOK
<1>1. ASSUME NEW q \in Path, sl'[q].kind # "none" PROVE Class[q] \notin {"dot", "part"}
  <2>1. CASE sl' = sl
    BY <1>1, <2>1 DEF TableClean
  <2>2. CASE FreeTable
    BY <1>1, <2>2, Shapes DEF FreeTable
  <2>3. ASSUME NEW d, ScanLocal(d) PROVE Class[q] \notin {"dot", "part"}
    <3>1. PICK A \in Admitted(Listed(d)) :
            sl' = [r \in Path |-> IF r \in A THEN [loc[r] EXCEPT !.data = 0] ELSE sl[r]]
      BY <2>3 DEF ScanLocal
    <3>2. CASE q \in A
      BY <3>2 DEF Admitted, Listed
    <3>3. CASE q \notin A
      BY <1>1, <3>1, <3>3 DEF TableClean
    <3> QED BY <3>2, <3>3
  <2> QED BY <2>1, <2>2, <2>3, HereColumnStep
<1>2. ASSUME NEW q \in Path
      PROVE  /\ ~st'[q].known => st'[q] = NoEntry
             /\ ~ss'[q].known => ss'[q] = NoEntry
  <2>1. /\ ~st[q].known => st[q] = NoEntry
        /\ ~ss[q].known => ss[q] = NoEntry
    BY DEF TableClean
  <2>2. st'[q] \in {st[q], ss[q], NoEntry}
    BY <1>0, StateStep
  <2>3. ss'[q].known \/ ss'[q] \in {ss[q], st[q], NoEntry}
    BY <1>0, KnownStep
  <2> QED BY <2>1, <2>2, <2>3
<1> DEFINE Clean == /\ pc = "idle" => \A p \in Path : sr[p].kind = "none"
                    /\ pc \in {"idle", "scanR"} => \A p \in Path : sl[p].kind = "none"
                    /\ pc \in {"idle", "scanR", "scanL"} =>
                         \A p \in Path : ss[p] = NoEntry /\ rmd[p] = "no"
<1>3. Clean'
  <2>1. Clean
    BY DEF TableClean
  <2>2. CASE Users
    <3>1. pc' = pc /\ UNCHANGED <<sr, sl, ss, rmd>>
      BY <2>2 DEF Users, LocalWrite, LocalMakeDrawer, LocalRemove, RemoteWrite,
             RemoteMakeFolder, RemoteRemove, Edit, table
    <3> QED BY <2>1, <3>1
  <2>3. CASE UNCHANGED vars
    BY <2>1, <2>3 DEF vars, table
  <2>4. CASE FreeTable
    BY <2>4, Shapes DEF FreeTable
  <2>5. CASE Start \/ DropState \/ ScanRemoteDone
    BY <2>1, <2>5 DEF Start, DropState, ScanRemoteDone, table
  <2>6. ASSUME NEW d, \/ ScanRemote(d) \/ ScanRemoteEmpty(d)
                      \/ ScanLocal(d) \/ ScanLocalFails(d)
        PROVE  Clean'
    BY <2>1, <2>6 DEF ScanRemote, ScanRemoteEmpty, ScanLocal, ScanLocalFails, table
  <2>7. CASE Run /\ pc' \notin Looping \cup {"rmdir", "save"}
    BY <2>4, <2>5, <2>6, <2>7, PhaseStep
  <2>8. CASE pc' \in Looping \cup {"rmdir", "save"}
    BY <2>8 DEF Looping
  <2> QED BY <2>2, <2>3, <2>7, <2>8, StepKinds
<1> QED BY <1>1, <1>2, <1>3 DEF TableClean

\* The first state has an empty table.
LEMMA InitClean ==
  ASSUME Init
  PROVE  TableClean
<1>1. PICK S \in Folders :
        LET Drawers == {p \in S : InitKind(p) = "dir"}
            Content == S \ Drawers
            Place(p, dir, file, none) ==
              IF p \in Drawers THEN dir ELSE IF p \in Content THEN file ELSE none
        IN st = [p \in Path |-> Place(p, Entry(0, 0), Entry(Rank[p], Rank[p]), NoEntry)]
  BY DEF Init
<1>2. /\ sr = [p \in Path |-> Missing] /\ sl = [p \in Path |-> Absent]
      /\ ss = [p \in Path |-> NoEntry] /\ rmd = [p \in Path |-> "no"]
  BY DEF Init
<1>3. ASSUME NEW p \in Path PROVE ~st[p].known => st[p] = NoEntry
  BY <1>1, Shapes
<1> QED BY <1>2, <1>3, Shapes DEF TableClean

(***************************************************************************)
(* The scans                                                               *)
(***************************************************************************)
\* There is room in the table for everything.
LEMMA AllAdmitted ==
  ASSUME Settling, tab \subseteq Path, NEW C \in SUBSET Path, NEW A \in Admitted(C)
  PROVE  A = C
<1>1. A \subseteq C /\ C \cap tab \subseteq A
  BY DEF Admitted
<1>2. SUFFICES ASSUME A # C PROVE FALSE
  OBVIOUS
<1>3. Cardinality(tab \cup A) >= MaxEntries /\ MaxEntries >= Cardinality(Path)
  BY <1>2, BoundAssumption, Ranks DEF Admitted, Settling
<1>4. IsFiniteSet(Path) /\ tab \cup A \in SUBSET Path
  BY <1>1, TreeAssumption
<1>5. /\ Cardinality(tab \cup A) \in Nat /\ Cardinality(tab \cup A) <= Cardinality(Path)
      /\ Cardinality(tab \cup A) = Cardinality(Path) => tab \cup A = Path
  BY <1>4, FS_Subset, FS_CardinalityType
<1>6. tab \cup A = Path
  BY <1>3, <1>5, Ranks, BoundAssumption
<1> QED BY <1>1, <1>2, <1>6

\* A run begins with nothing seen and everything still to be scanned.
LEMMA StartTrue ==
  ASSUME TableClean, Start
  PROVE  ScansTrue'
<1>1. /\ pc' = "scanR" /\ todo' = {Root}
      /\ \A p \in Path : sr'[p].kind = "none" /\ sl'[p].kind = "none"
  BY DEF Start, TableClean, table
<1>2. IsDir(rem, Root)'
  BY DEF IsDir
<1> QED BY <1>1, <1>2 DEF ScansTrue, Pending

\* One folder listed on the server.
LEMMA ScanRemoteTrue ==
  ASSUME Settling, TypeOK, TableClean, ScansTrue, NEW d \in Path \cup {Root}, ScanRemote(d)
  PROVE  ScansTrue'
<1>0. /\ pc = "scanR" /\ pc' = "scanR" /\ d \in todo
      /\ UNCHANGED <<rem, loc, sl>> /\ Tree(rem) /\ rem \in [Path -> RemoteNode]
  BY DEF ScanRemote, server, disk, TypeOK, Typed
<1>1. Inside(rem, d) \in SUBSET Path /\ tab \subseteq Path
  BY DEF Inside, TypeOK, Typed
<1>2. /\ tab' = tab \cup Inside(rem, d)
      /\ sr' = [q \in Path |-> IF q \in Inside(rem, d) THEN [rem[q] EXCEPT !.data = 0] ELSE sr[q]]
      /\ todo' = (todo \ {d}) \cup {q \in Inside(rem, d) : rem[q].kind = "dir"}
  BY <1>1, AllAdmitted DEF ScanRemote
<1>3. \A e \in todo' : IsDir(rem', e)
  BY <1>0, <1>1, <1>2 DEF ScansTrue, IsDir
<1>4. ASSUME NEW p \in Path
      PROVE  TrueThere(p)' \/ (sr'[p].kind = "none" /\ Pending(p)')
  <2>1. CASE p \in Inside(rem, d)
    <3>1. sr'[p] = [rem[p] EXCEPT !.data = 0] /\ rem[p] \in RemoteNode
      BY <1>0, <1>2, <2>1
    <3>2. sr'[p].kind = rem[p].kind /\ sr'[p].etag = rem[p].etag
      BY <3>1 DEF RemoteNode
    <3> QED BY <1>0, <3>2 DEF TrueThere
  <2>2. CASE p \notin Inside(rem, d) /\ TrueThere(p)
    BY <1>0, <1>2, <2>2 DEF TrueThere
  <2>3. CASE p \notin Inside(rem, d) /\ ~TrueThere(p)
    <3>1. sr'[p].kind = "none" /\ sr[p].kind = "none" /\ Pending(p)
      BY <1>0, <1>2, <2>3 DEF ScansTrue
    <3>2. rem[p].kind # "none"
      BY <2>3, <3>1 DEF TrueThere
    <3>3. PICK e \in todo : e = Root \/ e \in Above[p]
      BY <3>1 DEF Pending
    <3>4. CASE e # d
      BY <1>2, <3>1, <3>3, <3>4 DEF Pending
    <3>5. CASE e = d
      <4>1. \E k \in Inside(rem, d) : k \in Above[p] /\ rem[k].kind = "dir"
        BY <1>0, <2>3, <3>2, <3>3, <3>5, OnTheWay
      <4> QED BY <1>2, <3>1, <4>1 DEF Pending
    <3> QED BY <3>4, <3>5
  <2> QED BY <2>1, <2>2, <2>3
<1>5. \A p \in Path : sr'[p].kind # "none" \/ sl'[p].kind # "none" => p \in tab'
  BY <1>0, <1>2 DEF ScansTrue
<1> QED BY <1>0, <1>3, <1>4, <1>5 DEF ScansTrue

\* One drawer listed on the Amiga.
LEMMA ScanLocalTrue ==
  ASSUME Settling, TypeOK, TableClean, ScansTrue, NEW d \in Path \cup {Root}, ScanLocal(d)
  PROVE  ScansTrue'
<1>0. /\ pc = "scanL" /\ pc' = "scanL" /\ d \in todo
      /\ UNCHANGED <<rem, sr>> /\ Tree(loc) /\ loc \in [Path -> LocalNode]
  BY DEF ScanLocal, server, TypeOK, Typed
<1>1. Listed(d) \in SUBSET Path /\ tab \subseteq Path
  BY DEF Listed, Inside, TypeOK, Typed
<1>2. /\ tab' = tab \cup Listed(d)
      /\ sl' = [q \in Path |-> IF q \in Listed(d) THEN [loc[q] EXCEPT !.data = 0] ELSE sl[q]]
      /\ todo' = (todo \ {d}) \cup {q \in Listed(d) : loc[q].kind = "dir"}
  BY <1>1, AllAdmitted DEF ScanLocal
<1>3. ASSUME NEW q \in Path, Class[q] # "part" PROVE loc'[q] = loc[q]
  BY <1>0, <1>3 DEF ScanLocal
<1>4. ASSUME NEW e \in todo'
      PROVE  IsDir(loc', e) /\ (e # Root => Class[e] \notin {"dot", "part"})
  <2>1. e # Root => e \in Path /\ loc[e].kind = "dir" /\ Class[e] \notin {"dot", "part"}
    BY <1>0, <1>2, <1>4 DEF ScansTrue, IsDir, Listed, Inside
  <2> QED BY <1>3, <2>1 DEF IsDir
<1>5. ASSUME NEW p \in Plain
      PROVE  TrueHere(p)' \/ (sl'[p].kind = "none" /\ Pending(p)')
  <2>0. /\ p \in Path /\ loc'[p] = loc[p]
        /\ p \in Inside(loc, d) <=> p \in Listed(d)
    BY <1>3 DEF Plain, Listed, Inside
  <2>1. CASE p \in Listed(d)
    <3>1. sl'[p] = [loc[p] EXCEPT !.data = 0] /\ loc[p] \in LocalNode
      BY <1>0, <1>2, <2>0, <2>1
    <3>2. sl'[p].kind = loc[p].kind /\ sl'[p].stamp = loc[p].stamp
      BY <3>1 DEF LocalNode
    <3> QED BY <2>0, <3>2 DEF TrueHere
  <2>2. CASE p \notin Listed(d) /\ TrueHere(p)
    BY <1>2, <2>0, <2>2 DEF TrueHere
  <2>3. CASE p \notin Listed(d) /\ ~TrueHere(p)
    <3>1. sl'[p].kind = "none" /\ sl[p].kind = "none" /\ Pending(p)
      BY <1>0, <1>2, <2>0, <2>3 DEF ScansTrue
    <3>2. loc[p].kind # "none"
      BY <2>3, <3>1 DEF TrueHere
    <3>3. PICK e \in todo : e = Root \/ e \in Above[p]
      BY <3>1 DEF Pending
    <3>4. CASE e # d
      BY <1>2, <3>1, <3>3, <3>4 DEF Pending
    <3>5. CASE e = d
      <4>1. \E k \in Inside(loc, d) : k \in Above[p] /\ loc[k].kind = "dir"
        BY <1>0, <2>0, <2>3, <3>2, <3>3, <3>5, OnTheWay
      <4>2. \A k \in Above[p] : Class[k] = "plain"
        BY DEF Plain, Settling
      <4>3. \E k \in Listed(d) : k \in Above[p] /\ loc[k].kind = "dir"
        BY <4>1, <4>2 DEF Listed
      <4> QED BY <1>2, <3>1, <4>3 DEF Pending
    <3> QED BY <3>4, <3>5
  <2> QED BY <2>1, <2>2, <2>3
<1>6. \A p \in Path : TrueThere(p)'
  BY <1>0 DEF ScansTrue, TrueThere
<1>7. \A p \in Path : sr'[p].kind # "none" \/ sl'[p].kind # "none" => p \in tab'
  BY <1>0, <1>2 DEF ScansTrue
<1> QED BY <1>0, <1>4, <1>5, <1>6, <1>7 DEF ScansTrue, Plain

\* In a quiet run no folder fails to be listed.
LEMMA NoScanFails ==
  ASSUME ScansTrue, calm' # 0, NEW d \in Path \cup {Root}
  PROVE  ~ScanRemoteFails(d) /\ ~ScanRemoteEmpty(d) /\ ~ScanLocalFails(d)
BY DEF ScansTrue, ScanRemoteFails, ScanRemoteEmpty, ScanLocalFails, Fault

\* So the scans of a quiet run miss nothing.
LEMMA ScansTrueStep ==
  ASSUME Settling, TypeOK, TableClean, Start \/ (ScansTrue /\ Engine), calm' # 0
  PROVE  ScansTrue'
<1>1. CASE Start
  BY <1>1, StartTrue
<1>2. CASE ScanRemoteDone /\ ScansTrue
  <2>1. /\ pc = "scanR" /\ todo = {} /\ pc' = "scanL" /\ todo' = {Root}
        /\ UNCHANGED <<rem, sr, sl, tab>>
    BY <1>2 DEF ScanRemoteDone, server, table
  <2>2. \A p \in Path : TrueThere(p)' /\ sl'[p].kind = "none"
    BY <1>2, <2>1 DEF ScansTrue, TrueThere, Pending, TableClean
  <2>3. \A p \in Path : sr'[p].kind # "none" \/ sl'[p].kind # "none" => p \in tab'
    BY <1>2, <2>1 DEF ScansTrue
  <2>4. Plain \subseteq Path
    BY DEF Plain
  <2> QED BY <2>1, <2>2, <2>3, <2>4 DEF ScansTrue, Pending, IsDir, Plain
<1>3. CASE pc' \notin {"scanR", "scanL"}
  BY <1>3 DEF ScansTrue
<1>4. CASE ScansTrue /\ Engine /\ pc' \in {"scanR", "scanL"}
  <2>1. FreeTable => pc' = "idle"
    BY DEF FreeTable
  <2>2. ~DropState
    BY DEF DropState, Fault
  <2> QED BY <1>1, <1>2, <1>4, <2>1, <2>2, NoScanFails, PhaseStep, ScanRemoteTrue, ScanLocalTrue
      DEF Run, Looping
<1> QED BY <1>1, <1>3, <1>4

(***************************************************************************)
(* The loop: what a step leaves alone                                      *)
(***************************************************************************)
\* The steps that are about one item.
OneItem(p) ==
  \/ SkipBadName(p) \/ KeepDir(p) \/ DeferRemoval(p) \/ MakeDrawer(p) \/ MakeFolder(p)
  \/ Abort(p) \/ KeepFile(p) \/ Forget(p) \/ DeleteRemote(p) \/ DeleteLocal(p)
  \/ Download(p) \/ KeepConflictCopy(p) \/ Get(p) \/ GetFails(p) \/ Swap(p)
  \/ Install(p) \/ InstallFails(p) \/ Stamp(p)
  \/ Upload(p) \/ UploadFails(p) \/ Tag(p)

\* The loop does nothing else, but come to its end.
LEMMA LoopCases ==
  ASSUME Engine, pc \in Looping
  PROVE  LeaveLoop \/ \E p \in Path : OneItem(p)
<1>1. ~Scan
  BY DEF Scan, ScanRemoteDone, LoadState, ScanRemote, ScanRemoteFails, ScanRemoteEmpty,
         ScanLocal, ScanLocalFails, Looping
<1>2. Finish => LeaveLoop
  BY DEF Finish, LeaveRemovals, Save, RemoveFolder, RemoveDrawer, Looping
<1> QED BY <1>1, <1>2 DEF Engine, Directories, Files, Downloads, Uploads, OneItem

\* It leaves the other rows of the table alone.
LEMMA ItemFrame ==
  ASSUME Typed, NEW p \in Path, OneItem(p), calm' # 0
  PROVE  /\ First(p) /\ pc \in Looping /\ pc' \in Looping /\ UNCHANGED <<st, sr, sl, tab>>
         /\ \A q \in Path \ {p} : ss'[q] = ss[q] /\ rmd'[q] = rmd[q]
         /\ Advance(p) \/ (todo' = todo /\ pc' # "item" /\ UNCHANGED <<ss, rmd>>)
<1> DEFINE Only == \A q \in Path \ {p} : ss'[q] = ss[q]
<1>0. ss \in [Path -> StateEntry] /\ rmd \in [Path -> {"no", "local", "remote"}]
  BY DEF Typed
<1>1. (\E e : Record(p, e)) \/ Known(p) \/ KnownDir(p) \/ UNCHANGED ss => Only
  BY <1>0 DEF Record, Known, KnownDir
<1>2. RequestDelete(p) => Only
  BY <1>1 DEF RequestDelete
<1> HIDE DEF Only
<1>3. CASE KeepDir(p) \/ DeferRemoval(p) \/ MakeDrawer(p) \/ MakeFolder(p)
  <2>1. /\ First(p) /\ pc = "item" /\ Advance(p) /\ Only
        /\ UNCHANGED <<st, sr, sl, tab>>
    BY <1>1, <1>3 DEF KeepDir, DeferRemoval, MakeDrawer, MakeFolder, DirItem, At, disk
  <2>2. \A q \in Path \ {p} : rmd'[q] = rmd[q]
    BY <1>0, <1>3 DEF KeepDir, DeferRemoval, MakeDrawer, MakeFolder
  <2> QED BY <2>1, <2>2 DEF Only, Looping, Advance
<1>4. ~Abort(p)
  BY DEF Abort, Fault
<1>5. CASE \/ SkipBadName(p) \/ KeepFile(p) \/ Forget(p)
           \/ DeleteRemote(p) \/ DeleteLocal(p)
  <2>1. /\ First(p) /\ pc = "item" /\ Advance(p) /\ Only
        /\ UNCHANGED <<st, sr, sl, tab, rmd>>
    BY <1>1, <1>2, <1>5 DEF SkipBadName, KeepFile, Forget, DeleteRemote, DeleteLocal,
       FileItem, At, disk, table
  <2> QED BY <2>1 DEF Only, Looping, Advance
<1>6. CASE Download(p) \/ KeepConflictCopy(p)
  <2>1. /\ First(p) /\ pc = "item" /\ pc' = "get" /\ todo' = todo
        /\ UNCHANGED <<st, sr, sl, tab, ss, rmd>>
    BY <1>6 DEF Download, KeepConflictCopy, FileItem, At, table, Fault
  <2> QED BY <2>1 DEF Looping
<1>7. CASE Get(p) \/ Swap(p) \/ Install(p)
  <2>1. /\ First(p) /\ pc \in {"get", "swap", "install"}
        /\ pc' \in {"swap", "install", "stamp"} /\ todo' = todo
        /\ UNCHANGED <<st, sr, sl, tab, ss, rmd>>
    BY <1>7 DEF Get, Swap, Install, At, table
  <2> QED BY <2>1 DEF Looping
<1>8. CASE GetFails(p) \/ InstallFails(p) \/ Stamp(p)
  <2>1. /\ First(p) /\ pc \in {"get", "install", "stamp"} /\ Advance(p) /\ Only
        /\ UNCHANGED <<st, sr, sl, tab, rmd>>
    BY <1>1, <1>8 DEF GetFails, InstallFails, Stamp, At, table
  <2> QED BY <2>1 DEF Only, Looping, Advance
<1>9. CASE Upload(p) \/ UploadFails(p) \/ Tag(p)
  <2>1. /\ First(p) /\ pc \in {"item", "tag"} /\ UNCHANGED <<st, sr, sl, tab, rmd>>
        /\ \/ Advance(p) /\ Only
           \/ todo' = todo /\ pc' = "tag" /\ ss' = ss
    BY <1>1, <1>9 DEF Upload, UploadFails, Tag, FileItem, At, disk, table
  <2> QED BY <2>1 DEF Only, Looping, Advance
<1> QED BY <1>3, <1>4, <1>5, <1>6, <1>7, <1>8, <1>9 DEF OneItem

\* The item the loop is at is as the scans saw it.
LEMMA ItemTrue ==
  ASSUME LoopTable, LoopTrue, NEW p \in Path, At("item", p)
  PROVE  /\ TrueThere(p) /\ rmd[p] = "no" /\ p \in todo /\ p \in tab
         /\ p \in Plain => /\ Original(p) => TrueHere(p)
                           /\ sl[p].kind = "file" => loc[p].kind = "file"
BY DEF LoopTable, LoopTrue, At, First, Ahead, Looping

\* A file can be deleted: there is nothing in it.
LEMMA FileDeletable ==
  ASSUME Tree(loc), NEW p \in Path, loc[p].kind = "file"
  PROVE  Deletable(p)
<1>1. p # Root
  BY TreeAssumption
<1>2. Inside(loc, p) = {}
  BY <1>1 DEF Inside, Tree, IsDir
<1> QED BY <1>2 DEF Deletable

\* A conflict: both sides have the file, and the one here is renamed, unless
\* the copy cannot be named.
LEMMA CopyKept ==
  ASSUME Settling, TypeOK, KindsHold, TableClean, LoopTable, LoopTrue,
         NEW p \in Path, KeepConflictCopy(p), calm' # 0
  PROVE  /\ p \in Plain /\ loc[p].kind = "file" /\ rem[p].kind = "file"
         /\ OnServer(p) /\ OnAmiga(p) /\ RChanged(p) /\ LChanged(p)
         /\ pc' = "get" /\ todo' = todo /\ UNCHANGED <<part, rem>>
         /\ \/ loc' = loc
            \/ /\ Conflict[p] \in Path /\ Conflict[p] # p
               /\ loc' = [loc EXCEPT ![Conflict[p]] = loc[p], ![p] = Absent]
<1> DEFINE c == Conflict[p]
           cleared == IF c = NoPath THEN loc ELSE Deleted(c)
           moved == IF c # NoPath /\ cleared[c].kind = "none" /\ loc[p].kind = "file"
                    THEN [cleared EXCEPT ![c] = loc[p], ![p] = Absent] ELSE cleared
<1>0. /\ loc \in [Path -> LocalNode] /\ Tree(loc) /\ sl[p].kind \in Kinds /\ sr[p].kind \in Kinds
  BY DEF TypeOK, Typed, LocalNode, RemoteNode
<1>1. /\ At("item", p) /\ Class[p] # "bad" /\ ~IsDirItem(p) /\ RChanged(p) /\ LChanged(p)
      /\ OnServer(p) /\ OnAmiga(p)
  BY DEF KeepConflictCopy, FileItem, RChanged, LChanged
<1>2. sl[p].kind = "file" /\ sr[p].kind = "file"
  BY <1>0, <1>1 DEF OnServer, OnAmiga, IsDirItem, Kinds
<1>3. p \in Plain
  BY <1>2, TreeAssumption, <1>1 DEF TableClean, Plain
<1>4. loc[p].kind = "file" /\ rem[p].kind = "file"
  BY <1>1, <1>2, <1>3, ItemTrue DEF TrueThere
<1>5. loc' = moved /\ pc' = "get" /\ todo' = todo /\ UNCHANGED <<part, rem>>
  BY DEF KeepConflictCopy, Fault, server
<1>6. CASE c = NoPath
  BY <1>1, <1>3, <1>4, <1>5, <1>6
<1>7. CASE c # NoPath
  <2>1. c \in Path /\ c \in Copies /\ c # p
    BY <1>7, TreeAssumption, Ranks DEF Copies
  <2>2. loc[c].kind # "dir"
    BY <2>1 DEF KindsHold, KindFits, Settling
  <2>3. loc[c].kind = "none" \/ Deletable(c)
    BY <1>0, <2>1, <2>2, FileDeletable DEF LocalNode, Kinds
  <2>4. cleared = IF loc[c].kind = "none" THEN loc ELSE [loc EXCEPT ![c] = Absent]
    BY <1>0, <1>7, <2>1, <2>3 DEF Deleted, Deletable
  <2>5. cleared[c].kind = "none"
    BY <1>0, <2>1, <2>4, Shapes
  <2>6. moved = [cleared EXCEPT ![c] = loc[p], ![p] = Absent]
    BY <1>4, <1>7, <2>5
  <2>7. moved = [loc EXCEPT ![c] = loc[p], ![p] = Absent]
    <3> HIDE DEF c
    <3>1. CASE loc[c].kind = "none"
      BY <2>4, <2>6, <3>1
    <3>2. CASE loc[c].kind # "none"
      BY <1>0, <2>1, <2>4, <2>6, <3>2
    <3> QED BY <3>1, <3>2
  <2> QED BY <1>1, <1>3, <1>4, <1>5, <2>1, <2>7
<1> QED BY <1>6, <1>7

\* It leaves the rest of the server alone ...
LEMMA OthersThere ==
  ASSUME TypeOK, KindsHold, LoopTable, LoopTrue,
         NEW p \in Path, OneItem(p), NEW q \in Path \ {p}
  PROVE  rem'[q] = rem[q]
<1>0. rem \in [Path -> RemoteNode] /\ Tree(rem) /\ sr[p].kind \in Kinds
  BY DEF TypeOK, Typed, RemoteNode
<1>1. CASE UNCHANGED rem
  BY <1>1
<1>2. CASE MakeFolder(p)
  BY <1>0, <1>2 DEF MakeFolder
<1>3. CASE Upload(p) \/ UploadFails(p)
  <2>1. rem' = rem \/ rem' = Stored(p)
    BY <1>3 DEF Upload, UploadFails
  <2> QED BY <1>0, <2>1 DEF Stored
<1>4. CASE DeleteRemote(p)
  <2>1. At("item", p) /\ OnServer(p) /\ ~IsDirItem(p)
        /\ rem' \in {rem, RemoteWithout(p)}
    BY <1>4 DEF DeleteRemote, FileItem, RequestDelete
  <2>2. rem[p].kind = "file"
    BY <1>0, <2>1, ItemTrue DEF OnServer, IsDirItem, TrueThere, Kinds
  <2>3. CASE p \in Above[q]
    <3>1. rem[q].kind = "none"
      BY <1>0, <2>2, <2>3, AboveAreDirs
    <3> QED BY <2>1, <3>1 DEF KindsHold, RemoteWithout
  <2>4. CASE p \notin Above[q]
    BY <2>1, <2>4 DEF RemoteWithout, Under
  <2> QED BY <2>3, <2>4
<1>5. \/ UNCHANGED rem \/ MakeFolder(p) \/ DeleteRemote(p) \/ Upload(p) \/ UploadFails(p)
  BY DEF OneItem, SkipBadName, KeepDir, DeferRemoval, MakeDrawer, Abort, KeepFile, Forget,
     DeleteLocal, Download, KeepConflictCopy, Get, GetFails, Swap, Install, InstallFails,
     Stamp, Tag, server
<1> QED BY <1>1, <1>2, <1>3, <1>4, <1>5

\* ... and of the drawer, but for the drawers above the item, where the
\* server has folders, and its conflict copy.
LEMMA OthersHere ==
  ASSUME Settling, TypeOK, KindsHold, TableClean, LoopTable, LoopTrue,
         NEW p \in Path, OneItem(p), calm' # 0, NEW q \in Path \ {p}
  PROVE  \/ loc'[q] = loc[q]
         \/ /\ q \in Above[p] /\ rem[q].kind = "dir"
            /\ loc[q].kind = "none" /\ loc'[q].kind = "dir"
         \/ q = Conflict[p] /\ KeepConflictCopy(p) /\ loc'[q].kind = "file"
<1>0. loc \in [Path -> LocalNode] /\ Tree(rem)
  BY DEF TypeOK, Typed
<1>1. CASE UNCHANGED loc
  BY <1>1
<1>2. CASE MakeDrawer(p) \/ Download(p)
  <2>1. /\ At("item", p) /\ OnServer(p)
        /\ loc' = loc \/ \E D : D \subseteq Above[p] \cup {p} /\ loc' = EnsureDrawers(D, p)
    BY <1>2 DEF MakeDrawer, Download, DirItem, FileItem, RChanged, Fault
  <2>2. rem[p].kind # "none"
    BY <2>1, ItemTrue DEF OnServer, TrueThere
  <2>3. q \in Above[p] => rem[q].kind = "dir"
    BY <1>0, <2>2, AboveAreDirs
  <2> QED BY <2>1, <2>3, DrawersMade, Shapes
<1>3. CASE DeleteLocal(p) \/ Swap(p)
  <2>1. loc' = loc \/ loc' = Deleted(p)
    BY <1>3 DEF DeleteLocal, Swap
  <2> QED BY <1>0, <2>1 DEF Deleted
<1>4. CASE Install(p) \/ Stamp(p)
  BY <1>0, <1>4 DEF Install, Stamp
<1>5. CASE KeepConflictCopy(p)
  <2>1. /\ loc[p].kind = "file"
        /\ \/ loc' = loc
           \/ /\ Conflict[p] \in Path /\ Conflict[p] # p
              /\ loc' = [loc EXCEPT ![Conflict[p]] = loc[p], ![p] = Absent]
    BY <1>5, CopyKept
  <2> QED BY <1>0, <1>5, <2>1
<1>6. \/ UNCHANGED loc \/ MakeDrawer(p) \/ Download(p) \/ DeleteLocal(p) \/ Swap(p)
      \/ Install(p) \/ Stamp(p) \/ KeepConflictCopy(p)
  BY DEF OneItem, SkipBadName, KeepDir, DeferRemoval, MakeFolder, Abort, KeepFile, Forget,
     DeleteRemote, Get, GetFails, InstallFails, Upload, UploadFails, Tag, disk
<1> QED BY <1>1, <1>2, <1>3, <1>4, <1>5, <1>6

(***************************************************************************)
(* The first run                                                           *)
(***************************************************************************)
\* What it makes of a directory.
LEMMA FirstRunDirs ==
  ASSUME Settling, TypeOK, KindsHold, TableClean, LoopTable, LoopTrue, calm' # 0,
         NEW p \in Plain, KeepDir(p) \/ DeferRemoval(p) \/ MakeDrawer(p) \/ MakeFolder(p)
  PROVE  Mirror(ss[p], p, rmd[p] = "remote")'
<1>0. /\ p \in Path /\ loc \in [Path -> LocalNode] /\ rem \in [Path -> RemoteNode]
      /\ ss \in [Path -> StateEntry] /\ rmd \in [Path -> {"no", "local", "remote"}]
      /\ sl[p].kind \in Kinds /\ sr[p].kind \in Kinds
  BY DEF TypeOK, Typed, Plain, LocalNode, RemoteNode
<1>1. At("item", p) /\ IsDirItem(p)
  BY DEF KeepDir, DeferRemoval, MakeDrawer, MakeFolder, DirItem
<1>2. /\ "dir" \in KindsOf[p] /\ p \notin Copies
      /\ loc[p].kind # "file" /\ rem[p].kind # "file"
      /\ sl[p].kind # "file" /\ sr[p].kind # "file"
  BY <1>0, <1>1 DEF IsDirItem, KindsHold, KindFits, Settling
<1>3. Original(p)
  BY <1>0, <1>2 DEF Original, Copies
<1>4. TrueThere(p) /\ TrueHere(p)
  BY <1>0, <1>1, <1>3, ItemTrue
<1>5. /\ OnServer(p) <=> rem[p].kind = "dir"
      /\ OnAmiga(p) <=> loc[p].kind = "dir"
  BY <1>0, <1>2, <1>4 DEF OnServer, OnAmiga, TrueThere, TrueHere, Kinds
<1>6. Known(p) \/ KnownDir(p) => ss'[p].known
  BY <1>0, Shapes DEF Known, KnownDir, Record, StateEntry
<1>7. CASE KeepDir(p)
  <2>1. rem' = rem /\ loc' = loc
    BY <1>7 DEF KeepDir, disk, server
  <2> QED BY <1>2, <1>5, <1>6, <1>7, <2>1 DEF KeepDir, Mirror
<1>8. CASE DeferRemoval(p)
  <2>1. rem' = rem /\ loc' = loc /\ ss' = ss /\ ss[p].known
        /\ rmd'[p] = IF OnServer(p) THEN "remote" ELSE "local"
    BY <1>0, <1>8 DEF DeferRemoval, disk, server
  <2> QED BY <1>2, <1>5, <2>1 DEF Mirror
<1>9. CASE MakeDrawer(p)
  <2>1. loc' = EnsureDrawers(Above[p] \cup {p}, p) /\ rem' = rem /\ sr[p].kind # "none"
    BY <1>9 DEF MakeDrawer, server, Fault, OnServer
  <2>2. \A q \in Above[p] : loc[q].kind # "file"
    BY <1>0, <2>1, Places DEF KindsHold, KindFits
  <2>3. loc'[p].kind = "dir"
    BY <1>0, <1>2, <2>1, <2>2, Shapes DEF EnsureDrawers, LocalNode, Kinds
  <2>4. ss'[p].known
    BY <1>6, <1>9, <2>3 DEF MakeDrawer
  <2> QED BY <1>2, <2>1, <2>3, <2>4 DEF Mirror
<1>10. CASE MakeFolder(p)
  <2>1. loc' = loc /\ loc[p].kind = "dir"
    BY <1>5, <1>10 DEF MakeFolder, disk
  <2>2. rem'[p].kind # "file" /\ (rem'[p].kind = "none" \/ ss'[p].known)
    BY <1>0, <1>2, <1>6, <1>10, Shapes DEF MakeFolder, Fault
  <2> QED BY <2>1, <2>2 DEF Mirror
<1> QED BY <1>7, <1>8, <1>9, <1>10

\* A file the server has has a folder there, so a PUT over it is accepted.
LEMMA PutRefused ==
  ASSUME TypeOK, LoopTable, LoopTrue, NEW p \in Plain,
         UploadFails(p), calm' # 0
  PROVE  /\ ~OnServer(p) /\ rem[p].kind = "none" /\ ~IsDir(rem, Parent[p])
         /\ OnAmiga(p) /\ LChanged(p) /\ Advance(p) /\ UNCHANGED <<loc, rem, ss>>
<1>0. p \in Path /\ Tree(rem) /\ sl[p].kind \in Kinds /\ sr[p].kind \in Kinds
  BY DEF TypeOK, Typed, Plain, LocalNode, RemoteNode
<1>1. /\ At("item", p) /\ ~IsDirItem(p) /\ OnAmiga(p) /\ LChanged(p)
      /\ ~(loc[p].kind = "file" /\ PutAccepted(p))
      /\ Advance(p) /\ UNCHANGED <<loc, rem, ss>>
  BY DEF UploadFails, FileItem, LChanged, Fault, NoFault, disk, table
<1>2. loc[p].kind = "file" /\ TrueThere(p)
  BY <1>0, <1>1, ItemTrue DEF OnAmiga, IsDirItem, Kinds
<1>3. rem[p].kind # "dir"
  BY <1>0, <1>1, <1>2 DEF IsDirItem, TrueThere
<1>4. ~IsDir(rem, Parent[p])
  BY <1>1, <1>2, <1>3 DEF PutAccepted
<1>5. rem[p].kind = "none"
  BY <1>0, <1>4 DEF Tree
<1> QED BY <1>1, <1>2, <1>4, <1>5 DEF TrueThere, OnServer

\* What the first run makes of a file it does not transfer, or sends.
LEMMA FirstRunFiles ==
  ASSUME Settling, TypeOK, KindsHold, TableClean, LoopTable, LoopTrue, calm' # 0,
         NEW p \in Plain,
         \/ KeepFile(p) \/ Forget(p) \/ DeleteRemote(p) \/ DeleteLocal(p)
         \/ Upload(p) \/ UploadFails(p)
  PROVE  /\ Advance(p) => Mirror(ss[p], p, rmd[p] = "remote")'
         /\ ~Advance(p) => /\ pc' = "tag" /\ rem'[p].kind = "file" /\ loc'[p].kind = "file"
                           /\ Original(p) => loc'[p].stamp = sl'[p].stamp
<1>0. /\ p \in Path /\ loc \in [Path -> LocalNode] /\ rem \in [Path -> RemoteNode]
      /\ ss \in [Path -> StateEntry] /\ sl[p].kind \in Kinds /\ sr[p].kind \in Kinds
  BY DEF TypeOK, Typed, Plain, LocalNode, RemoteNode
<1>1. At("item", p) /\ ~IsDirItem(p)
  BY DEF KeepFile, Forget, DeleteRemote, DeleteLocal, Upload, UploadFails, FileItem
<1>2. /\ TrueThere(p) /\ (Original(p) => TrueHere(p))
      /\ sl[p].kind = "file" => loc[p].kind = "file"
  BY <1>0, <1>1, ItemTrue
<1>3. /\ OnServer(p) <=> rem[p].kind = "file"
      /\ ~OnServer(p) <=> rem[p].kind = "none"
      /\ OnAmiga(p) => sl[p].kind = "file" /\ loc[p].kind = "file"
  BY <1>0, <1>1, <1>2 DEF IsDirItem, OnServer, OnAmiga, TrueThere, Kinds
<1>4. CASE KeepFile(p)
  <2>1. rem' = rem /\ loc' = loc
    BY <1>4 DEF KeepFile, disk, server
  <2>2. ss'[p].known /\ ss'[p].etag = ss[p].etag /\ ss'[p].stamp = ss[p].stamp
    BY <1>0, <1>4 DEF KeepFile, Known, Record, StateEntry
  <2>3. /\ OnServer(p) /\ OnAmiga(p) /\ Advance(p)
        /\ sr[p].etag = ss[p].etag /\ sl[p].stamp = ss[p].stamp
    BY <1>4 DEF KeepFile, RChanged, LChanged
  <2>4. /\ rem[p].kind = "file" /\ loc[p].kind = "file" /\ rem[p].etag = sr[p].etag
        /\ Original(p) => loc[p].stamp = sl[p].stamp
    BY <1>2, <1>3, <2>3 DEF TrueThere, TrueHere
  <2> QED BY <2>1, <2>2, <2>3, <2>4 DEF Mirror, Original
<1>5. CASE Forget(p) \/ DeleteLocal(p)
  <2>1. rem' = rem /\ ~OnServer(p) /\ Advance(p)
    BY <1>5 DEF Forget, DeleteLocal, server
  <2> QED BY <1>3, <2>1 DEF Mirror
<1>6. CASE DeleteRemote(p)
  <2>1. rem' = RemoteWithout(p) /\ Advance(p)
    BY <1>6 DEF DeleteRemote, RequestDelete, Fault
  <2>2. rem'[p].kind = "none"
    BY <1>0, <2>1, Shapes DEF RemoteWithout, Under
  <2> QED BY <2>1, <2>2 DEF Mirror
<1>7. CASE Upload(p)
  <2>1. /\ rem' = Stored(p) /\ loc' = loc /\ sl' = sl /\ loc[p].kind = "file" /\ OnAmiga(p)
        /\ \/ Record(p, Entry(clock, sl[p].stamp)) /\ Advance(p)
           \/ pc' = "tag"
    BY <1>7 DEF Upload, disk, LChanged
  <2>2. rem'[p].kind = "file" /\ rem'[p].etag = clock
    BY <1>0, <2>1, Shapes DEF Stored
  <2>3. Original(p) => loc[p].stamp = sl[p].stamp
    BY <1>2, <2>1 DEF TrueHere
  <2>4. CASE Record(p, Entry(clock, sl[p].stamp)) /\ Advance(p)
    <3>1. ss'[p].known /\ ss'[p].etag = clock /\ ss'[p].stamp = sl[p].stamp
      BY <1>0, <2>4, Shapes DEF Record
    <3> QED BY <2>1, <2>2, <2>3, <2>4, <3>1 DEF Mirror, Original
  <2>5. CASE pc' = "tag"
    BY <2>1, <2>2, <2>3, <2>5 DEF Advance
  <2> QED BY <2>1, <2>4, <2>5
<1>8. CASE UploadFails(p)
  <2>1. rem[p].kind = "none" /\ Advance(p) /\ UNCHANGED <<loc, rem, ss>>
    BY <1>8, PutRefused
  <2> QED BY <2>1 DEF Mirror
<1> QED BY <1>4, <1>5, <1>6, <1>7, <1>8

\* A download of the first run: each step leaves what the next relies on.
LEMMA FirstRunFetch ==
  ASSUME Settling, TypeOK, KindsHold, TableClean, LoopTable, LoopTrue, calm' # 0,
         NEW p \in Plain,
         \/ Download(p) \/ KeepConflictCopy(p) \/ Get(p) \/ GetFails(p) \/ Swap(p)
         \/ Install(p) \/ InstallFails(p)
  PROVE  /\ pc' \in {"get", "swap", "install", "stamp"} /\ ~Advance(p) /\ rem' = rem
         /\ rem[p].kind = "file"
         /\ pc' # "stamp" => IsDir(loc', Parent[p])
         /\ pc' \in {"swap", "install"} => p \in part'
         /\ pc' # "get" => dl'.etag = rem[p].etag
         /\ pc' = "install" => loc'[p].kind = "none"
         /\ pc' = "stamp" => loc'[p].kind = "file"
<1>0. /\ p \in Path /\ loc \in [Path -> LocalNode] /\ Tree(loc) /\ rem \in [Path -> RemoteNode]
      /\ sl[p].kind \in Kinds /\ sr[p].kind \in Kinds /\ Parent[p] # p
  <2>1. p \in Path
    BY DEF Plain
  <2>2. Parent[p] # p
    BY <2>1, Places, TreeAssumption
  <2> QED BY <2>1, <2>2 DEF TypeOK, Typed, Plain, LocalNode, RemoteNode
<1>1. First(p) /\ pc \in Looping => Fetching(p)
  BY DEF LoopTrue
<1>2. CASE Download(p)
  <2>1. At("item", p) /\ ~IsDirItem(p) /\ OnServer(p) /\ pc' = "get" /\ rem' = rem
        /\ loc' = IF OnAmiga(p) THEN loc ELSE EnsureDrawers(Above[p], p)
    BY <1>2 DEF Download, FileItem, RChanged, server, Fault
  <2>2. sr[p].kind = "file" /\ rem[p].kind = "file"
    BY <1>0, <2>1, ItemTrue DEF OnServer, IsDirItem, TrueThere, Kinds
  <2>3. OnAmiga(p) => loc[p].kind = "file"
    BY <1>0, <2>1, ItemTrue DEF OnAmiga, IsDirItem, Kinds
  <2>4. CASE OnAmiga(p)
    <3>1. IsDir(loc, Parent[p])
      BY <1>0, <2>3, <2>4 DEF Tree
    <3> QED BY <2>1, <2>2, <2>4, <3>1 DEF Advance
  <2>5. CASE ~OnAmiga(p)
    <3>1. loc' = EnsureDrawers(Above[p], p) /\ Above[p] \subseteq Path
      BY <2>1, <2>5, <1>0, Places
    <3>2. \A q \in Above[p] : loc[q].kind # "file"
      BY <1>0, <2>2, <3>1 DEF KindsHold, KindFits
    <3>3. \A q \in Above[p] : loc'[q].kind = "dir"
      BY <1>0, <3>1, <3>2, Shapes DEF EnsureDrawers, LocalNode, Kinds
    <3>4. IsDir(loc', Parent[p])
      BY <1>0, <3>3, Places DEF IsDir
    <3> QED BY <2>1, <2>2, <3>4 DEF Advance
  <2> QED BY <2>4, <2>5
<1>3. CASE KeepConflictCopy(p)
  <2>1. /\ loc[p].kind = "file" /\ rem[p].kind = "file" /\ pc' = "get" /\ rem' = rem
        /\ \/ loc' = loc
           \/ /\ Conflict[p] \in Path
              /\ loc' = [loc EXCEPT ![Conflict[p]] = loc[p], ![p] = Absent]
    BY <1>0, <1>3, CopyKept
  <2>2. IsDir(loc, Parent[p])
    BY <1>0, <2>1 DEF Tree
  <2>3. Conflict[p] \in Path => Conflict[p] # Parent[p]
    <3>1. Conflict[p] \in Path => Conflict[p] \in Copies
      BY <1>0 DEF Copies
    <3>2. Conflict[p] \in Path => loc[Conflict[p]].kind # "dir"
      BY <3>1 DEF KindsHold, KindFits, Settling
    <3> QED BY <2>2, <3>2, TreeAssumption DEF IsDir
  <2>4. IsDir(loc', Parent[p])
    BY <1>0, <2>1, <2>2, <2>3 DEF IsDir
  <2> QED BY <2>1, <2>4 DEF Advance
<1>4. CASE Get(p)
  <2>1. /\ First(p) /\ pc = "get" /\ rem[p].kind = "file" /\ IsDir(loc, Parent[p])
        /\ dl'.etag = rem[p].etag /\ p \in part' /\ pc' = "swap" /\ UNCHANGED <<loc, rem>>
    BY <1>4 DEF Get, Body, At, server
  <2>2. IsDir(loc', Parent[p])
    BY <2>1
  <2> QED BY <2>1, <2>2 DEF Advance
<1>5. ~GetFails(p)
  BY <1>1 DEF GetFails, At, Fault, Fetching, Looping
<1>6. CASE Swap(p)
  <2>1. /\ First(p) /\ pc = "swap" /\ pc' = "install" /\ loc' = Deleted(p)
        /\ UNCHANGED <<part, rem, dl>>
    BY <1>6 DEF Swap, At, server, table, Fault
  <2>2. rem[p].kind = "file" /\ IsDir(loc, Parent[p]) /\ p \in part /\ dl.etag = rem[p].etag
    BY <1>1, <2>1 DEF Fetching, Looping
  <2>3. loc[p].kind # "dir"
    BY <1>0, <2>1 DEF KindsHold, KindFits
  <2>4. loc[p].kind = "none" \/ Deletable(p)
    BY <1>0, <2>3, FileDeletable DEF LocalNode, Kinds
  <2>5. loc'[p].kind = "none" /\ \A q \in Path \ {p} : loc'[q] = loc[q]
    BY <1>0, <2>1, <2>4, Shapes DEF Deleted
  <2>6. IsDir(loc', Parent[p])
    BY <1>0, <2>2, <2>5 DEF IsDir
  <2> QED BY <2>1, <2>2, <2>5, <2>6 DEF Advance
<1>7. CASE Install(p)
  <2>1. /\ First(p) /\ pc = "install" /\ pc' = "stamp" /\ UNCHANGED <<rem, dl>>
        /\ loc' = [loc EXCEPT ![p] = File(dl.data, clock)]
    BY <1>7 DEF Install, At, server, table
  <2>2. rem[p].kind = "file" /\ dl.etag = rem[p].etag
    BY <1>1, <2>1 DEF Fetching, Looping
  <2> QED BY <1>0, <2>1, <2>2, Shapes DEF Advance
<1>8. ~InstallFails(p)
  BY <1>1 DEF InstallFails, CanInstall, At, Fault, Fetching, Looping
<1> QED BY <1>2, <1>3, <1>4, <1>5, <1>6, <1>7, <1>8

\* What is recorded at the end of a transfer is what both sides then have.
LEMMA FirstRunEnds ==
  ASSUME TypeOK, LoopTrue, calm' # 0, NEW p \in Plain, Stamp(p) \/ Tag(p)
  PROVE  Advance(p) /\ Mirror(ss[p], p, rmd[p] = "remote")'
<1>0. /\ p \in Path /\ loc \in [Path -> LocalNode] /\ ss \in [Path -> StateEntry]
  BY DEF TypeOK, Typed, Plain
<1>1. First(p) /\ pc \in Looping => Fetching(p)
  BY DEF LoopTrue
<1>2. CASE Stamp(p)
  <2>1. /\ First(p) /\ pc = "stamp" /\ Advance(p) /\ rem' = rem
        /\ Record(p, Entry(dl.etag, loc'[p].stamp))
        /\ loc' = loc \/ loc' = [loc EXCEPT ![p].stamp = sr[p].mtime]
    BY <1>2 DEF Stamp, At, server, Fault
  <2>2. rem[p].kind = "file" /\ dl.etag = rem[p].etag /\ loc[p].kind = "file"
    BY <1>1, <2>1 DEF Fetching, Looping
  <2>3. loc'[p].kind = "file"
    BY <1>0, <2>1, <2>2 DEF LocalNode
  <2>4. ss'[p].known /\ ss'[p].etag = dl.etag /\ ss'[p].stamp = loc'[p].stamp
    BY <1>0, <2>1, Shapes DEF Record
  <2> QED BY <2>1, <2>2, <2>3, <2>4 DEF Mirror
<1>3. CASE Tag(p)
  <2>1. /\ First(p) /\ pc = "tag" /\ Advance(p) /\ UNCHANGED <<loc, rem>>
        /\ Record(p, Entry(rem[p].etag, sl[p].stamp))
    BY <1>3 DEF Tag, At, server, disk, Fault
  <2>2. /\ rem[p].kind = "file" /\ loc[p].kind = "file"
        /\ Original(p) => loc[p].stamp = sl[p].stamp
    BY <1>1, <2>1 DEF Fetching, Looping
  <2>3. ss'[p].known /\ ss'[p].etag = rem[p].etag /\ ss'[p].stamp = sl[p].stamp
    BY <1>0, <2>1, Shapes DEF Record
  <2> QED BY <2>1, <2>2, <2>3 DEF Mirror, Original
<1> QED BY <1>2, <1>3

\* One step of the loop in the first run.
LEMMA FirstRunItem ==
  ASSUME Settling, TypeOK, KindsHold, TableClean, LoopTable, LoopTrue, EndTrue,
         NEW p \in Path, OneItem(p), calm' # 0
  PROVE  LoopTable' /\ LoopTrue' /\ EndTrue'
<1>0. Typed
  BY DEF TypeOK
<1>1. /\ First(p) /\ pc \in Looping /\ pc' \in Looping /\ UNCHANGED <<st, sr, sl, tab>>
      /\ \A q \in Path \ {p} : ss'[q] = ss[q] /\ rmd'[q] = rmd[q]
      /\ Advance(p) \/ (todo' = todo /\ pc' # "item" /\ UNCHANGED <<ss, rmd>>)
  BY <1>0, ItemFrame
<1>2. /\ todo \subseteq tab /\ tab \subseteq Path /\ todo' \subseteq todo /\ p \in todo
      /\ \A q \in Path \ {p} : q \in todo' <=> q \in todo
      /\ \A q \in todo : \A r \in tab \ todo : Rank[r] < Rank[q]
  BY <1>0, <1>1 DEF LoopTable, Advance, First, Typed
<1>3. \A q \in Path \ {p} : rem'[q] = rem[q]
  BY OthersThere
<1>4. \A q \in Path : First(q) => q = p
  BY <1>1, FirstUnique
<1>5. ASSUME NEW q \in Path, Ahead(q)' PROVE Ahead(q) /\ q # p
  <2>1. CASE Advance(p)
    BY <1>2, <1>4, <1>5, <2>1 DEF Advance, Ahead
  <2>2. CASE todo' = todo /\ pc' # "item"
    BY <1>1, <1>4, <1>5, <2>2 DEF Ahead, First
  <2> QED BY <1>1, <2>1, <2>2
<1>6. ASSUME NEW q \in todo' PROVE \A r \in tab' \ todo' : Rank[r] < Rank[q]
  <2>1. Rank[p] <= Rank[q] /\ q \in Path
    BY <1>1, <1>2 DEF First
  <2>2. q # p => Rank[p] < Rank[q]
    BY <2>1, Ranks, TreeAssumption
  <2>3. \A r \in tab' \ todo' : r \in tab \ todo \/ (r = p /\ q # p)
    BY <1>1, <1>2
  <2> QED BY <1>2, <2>2, <2>3
<1>7. LoopTable'
  <2>1. todo' \subseteq tab'
    BY <1>1, <1>2
  <2>2. ASSUME NEW q \in Path, q \notin tab' PROVE rem'[q].kind = "none"
    BY <1>1, <1>2, <1>3, <2>2 DEF LoopTable
  <2>3. ASSUME NEW q \in Path, q \in todo' PROVE rmd'[q] = "no"
    <3>1. q # p \/ rmd' = rmd
      BY <1>1, <2>3 DEF Advance
    <3> QED BY <1>1, <1>2, <2>3, <3>1 DEF LoopTable
  <2>4. ASSUME NEW q \in Path, Ahead(q)' PROVE TrueThere(q)'
    BY <1>1, <1>3, <1>5, <2>4 DEF LoopTable, TrueThere
  <2> QED BY <1>6, <2>1, <2>2, <2>3, <2>4 DEF LoopTable
<1>8. ASSUME NEW q \in Plain, q # p
      PROVE  /\ Ahead(q)' => /\ Original(q) => TrueHere(q)'
                             /\ sl'[q].kind = "file" => loc'[q].kind = "file"
             /\ q \notin todo' => Mirror(ss[q], q, rmd[q] = "remote")'
  <2>0. q \in Path
    BY DEF Plain
  <2>1. \/ loc'[q] = loc[q]
        \/ /\ q \in Above[p] /\ rem[q].kind = "dir"
           /\ loc[q].kind = "none" /\ loc'[q].kind = "dir"
        \/ q = Conflict[p] /\ KeepConflictCopy(p) /\ loc'[q].kind = "file"
    BY <1>8, <2>0, OthersHere
  <2>2. q \in Above[p] => q \notin todo
    BY <1>1, <2>0, AboveRank, Ranks DEF First
  <2>3. ASSUME Ahead(q)'
        PROVE  /\ Original(q) => TrueHere(q)'
               /\ sl'[q].kind = "file" => loc'[q].kind = "file"
    <3>1. /\ Ahead(q) /\ q \in todo /\ (Original(q) => TrueHere(q))
          /\ sl[q].kind = "file" => loc[q].kind = "file"
      BY <1>1, <1>5, <2>0, <2>3 DEF LoopTrue, Ahead
    <3> QED BY <1>1, <1>2, <1>8, <2>0, <2>1, <2>2, <2>3, <3>1 DEF TrueHere, Original, Ahead
  <2>4. ASSUME q \notin todo' PROVE Mirror(ss[q], q, rmd[q] = "remote")'
    <3>1. q \notin todo /\ Mirror(ss[q], q, rmd[q] = "remote")
      BY <1>1, <1>2, <1>8, <2>0, <2>4 DEF LoopTrue
    <3>2. q = Conflict[p] => rem[q].kind = "none"
      <4>1. q = Conflict[p] => Rank[p] < Rank[q]
        BY <2>0, TreeAssumption
      <4>2. q = Conflict[p] => ~(Rank[q] < Rank[p])
        BY <2>0, <4>1, Ranks
      <4>3. q \in tab => Rank[q] < Rank[p]
        BY <1>2, <3>1
      <4> QED BY <1>1, <2>0, <4>2, <4>3 DEF LoopTable
    <3>3. /\ rem'[q] = rem[q] /\ ss'[q] = ss[q] /\ rmd'[q] = rmd[q]
      BY <1>1, <1>3, <1>8, <2>0
    <3>4. loc'[q] = loc[q] \/ rem[q].kind = "none" \/ (rem[q].kind = "dir" /\ loc'[q].kind = "dir")
      BY <2>1, <3>2
    <3> QED BY <2>4, <3>1, <3>3, <3>4 DEF Mirror, Original
  <2> QED BY <2>3, <2>4
<1>9. ASSUME p \in Plain
      PROVE  /\ First(p)' => Fetching(p)'
             /\ p \notin todo' => Mirror(ss[p], p, rmd[p] = "remote")'
  <2>1. Advance(p) => pc' = "item" /\ p \notin todo'
    BY DEF Advance
  <2>2. pc' = "item" => Fetching(p)'
    BY DEF Fetching
  <2>3. p \notin todo' => Advance(p)
    BY <1>1, <1>2
  <2>4. ~SkipBadName(p) /\ ~Abort(p)
    BY <1>9 DEF SkipBadName, Abort, Fault, Plain
  <2>5. CASE KeepDir(p) \/ DeferRemoval(p) \/ MakeDrawer(p) \/ MakeFolder(p)
    <3>1. Advance(p)
      BY <2>5 DEF KeepDir, DeferRemoval, MakeDrawer, MakeFolder
    <3> QED BY <1>9, <2>1, <2>2, <2>5, <3>1, FirstRunDirs
  <2>6. CASE \/ KeepFile(p) \/ Forget(p) \/ DeleteRemote(p) \/ DeleteLocal(p)
             \/ Upload(p) \/ UploadFails(p)
    <3>1. /\ Advance(p) => Mirror(ss[p], p, rmd[p] = "remote")'
          /\ ~Advance(p) => /\ pc' = "tag" /\ rem'[p].kind = "file" /\ loc'[p].kind = "file"
                            /\ Original(p) => loc'[p].stamp = sl'[p].stamp
      BY <1>9, <2>6, FirstRunFiles
    <3>2. ~Advance(p) => Fetching(p)'
      BY <3>1 DEF Fetching, Original
    <3> QED BY <2>1, <2>2, <2>3, <3>1, <3>2
  <2>7. CASE \/ Download(p) \/ KeepConflictCopy(p) \/ Get(p) \/ GetFails(p) \/ Swap(p)
             \/ Install(p) \/ InstallFails(p)
    <3>1. /\ pc' \in {"get", "swap", "install", "stamp"} /\ ~Advance(p) /\ rem' = rem
          /\ rem[p].kind = "file"
          /\ pc' # "stamp" => IsDir(loc', Parent[p])
          /\ pc' \in {"swap", "install"} => p \in part'
          /\ pc' # "get" => dl'.etag = rem[p].etag
          /\ pc' = "install" => loc'[p].kind = "none"
          /\ pc' = "stamp" => loc'[p].kind = "file"
      BY <1>9, <2>7, FirstRunFetch
    <3>2. Fetching(p)'
      BY <3>1 DEF Fetching, IsDir
    <3> QED BY <2>3, <3>1, <3>2
  <2>8. CASE Stamp(p) \/ Tag(p)
    BY <1>9, <2>1, <2>2, <2>8, FirstRunEnds
  <2> QED BY <2>4, <2>5, <2>6, <2>7, <2>8 DEF OneItem
<1>10. LoopTrue'
  <2>1. ASSUME NEW q \in Plain, q # p, First(q)' PROVE Fetching(q)'
    <3>1. pc' # "item" => First(q)
      BY <1>1, <2>1 DEF Advance, First
    <3>2. pc' = "item"
      BY <1>4, <2>1, <3>1 DEF Plain
    <3> QED BY <3>2 DEF Fetching
  <2>2. ~Ahead(p)'
    BY <1>5
  <2> QED BY <1>8, <1>9, <2>1, <2>2 DEF LoopTrue, Plain, Original
<1>11. EndTrue'
  <2>1. ASSUME NEW q \in Path, rmd'[q] = "local" PROVE rem'[q].kind = "none"
    <3>1. CASE rmd'[q] = rmd[q]
      <4>1. q # p
        BY <1>1, <1>2, <2>1, <3>1 DEF LoopTable
      <4> QED BY <1>1, <1>3, <2>1, <3>1, <4>1 DEF EndTrue
    <3>2. CASE rmd'[q] # rmd[q]
      <4>1. q = p /\ rmd' # rmd
        BY <1>1, <3>2
      <4>2. DeferRemoval(p)
        BY <1>1, <4>1 DEF OneItem, SkipBadName, KeepDir, MakeDrawer, MakeFolder, Abort, KeepFile,
           Forget, DeleteRemote, DeleteLocal, Download, KeepConflictCopy, Get, GetFails, Swap,
           Install, InstallFails, Stamp, Upload, UploadFails, Tag, table
      <4>3. At("item", p) /\ rem' = rem /\ ~OnServer(p)
        BY <1>0, <2>1, <4>1, <4>2 DEF DeferRemoval, DirItem, server, Typed
      <4> QED BY <4>1, <4>3, ItemTrue DEF OnServer, TrueThere
    <3> QED BY <3>1, <3>2
  <2> QED BY <1>1, <2>1 DEF EndTrue, Looping
<1> QED BY <1>7, <1>10, <1>11

\* The steps of the engine, by the part of the run they belong to.
LEMMA EngineCases ==
  ASSUME Engine
  PROVE  \/ /\ pc \in {"scanR", "scanL"}
            /\ \/ LoadState \/ ScanRemoteDone
               \/ \E d \in Path \cup {Root} : \/ ScanRemote(d) \/ ScanRemoteFails(d)
                                              \/ ScanRemoteEmpty(d)
                                              \/ ScanLocal(d) \/ ScanLocalFails(d)
         \/ LeaveLoop \/ \E p \in Path : OneItem(p)
         \/ LeaveRemovals \/ Save \/ \E p \in Path : RemoveFolder(p) \/ RemoveDrawer(p)
<1>1. Scan => pc \in {"scanR", "scanL"}
  BY DEF Scan, LoadState, ScanRemoteDone, ScanRemote, ScanRemoteFails, ScanRemoteEmpty,
         ScanLocal, ScanLocalFails
<1> QED BY <1>1 DEF Engine, Scan, Directories, Files, Downloads, Uploads, Finish, OneItem

\* The loop of a quiet run begins with all there is in the table, as it is.
LEMMA LoadedTrue ==
  ASSUME Settling, TypeOK, TableClean, ScansTrue, LoadState, calm' # 0
  PROVE  /\ pc' = "item" /\ ss' = st /\ st' = st /\ todo' = tab' /\ tab' \subseteq Path
         /\ UNCHANGED <<loc, rem>>
         /\ \A p \in Path : /\ rmd'[p] = "no" /\ TrueThere(p)'
                            /\ p \notin tab' => rem'[p].kind = "none" /\ ~st[p].known
         /\ \A p \in Plain : /\ TrueHere(p)'
                             /\ p \notin tab' => loc'[p].kind = "none"
<1>0. /\ pc = "scanL" /\ todo = {} /\ pc' = "item" /\ UNCHANGED <<loc, rem, st, sr, sl, rmd>>
      /\ tab \subseteq Path /\ st \in [Path -> StateEntry] /\ Plain \subseteq Path
  BY DEF LoadState, disk, server, TypeOK, Typed, Plain
<1> DEFINE K == {q \in Path : st[q].known}
<1>1. /\ tab' = tab \cup K /\ todo' = tab'
      /\ ss' = [q \in Path |-> IF q \in K THEN st[q] ELSE NoEntry]
  <2>1. PICK A \in Admitted(K) :
          /\ tab' = tab \cup A /\ todo' = tab \cup A
          /\ ss' = [q \in Path |-> IF q \in A THEN st[q] ELSE NoEntry]
    BY DEF LoadState, Fault
  <2>2. K \in SUBSET Path
    OBVIOUS
  <2> HIDE DEF K
  <2>3. A = K
    BY <1>0, <2>2, AllAdmitted
  <2> QED BY <2>1, <2>3
<1>2. ss' = st
  <2>1. \A q \in Path : ss'[q] = st[q]
    BY <1>1 DEF TableClean
  <2> QED BY <1>0, <1>1, <2>1
<1>3. ASSUME NEW p \in Path
      PROVE  rmd'[p] = "no" /\ TrueThere(p)' /\ (p \in Plain => TrueHere(p)')
  BY <1>0 DEF ScansTrue, Pending, TableClean, TrueThere, TrueHere
<1>4. ASSUME NEW p \in Path, p \notin tab'
      PROVE  sr'[p].kind = "none" /\ sl'[p].kind = "none" /\ ~st[p].known
  BY <1>0, <1>1, <1>4 DEF ScansTrue
<1>5. tab' \subseteq Path
  BY <1>0, <1>1
<1> QED BY <1>0, <1>1, <1>2, <1>3, <1>4, <1>5 DEF TrueThere, TrueHere

\* The loop of the first run begins ...
LEMMA FirstRunBegins ==
  ASSUME Settling, TypeOK, TableClean, ScansTrue, LoadState, calm' # 0
  PROVE  LoopTable' /\ LoopTrue' /\ EndTrue'
<1>1. /\ pc' = "item" /\ todo' = tab' /\ tab' \subseteq Path
      /\ \A p \in Path : /\ rmd'[p] = "no" /\ TrueThere(p)'
                         /\ p \notin tab' => rem'[p].kind = "none"
      /\ \A p \in Plain : TrueHere(p)'
  BY LoadedTrue
<1>2. LoopTable'
  BY <1>1 DEF LoopTable
<1>3. LoopTrue'
  <2>1. ASSUME NEW p \in Plain
        PROVE  /\ TrueHere(p)' /\ (sl'[p].kind = "file" => loc'[p].kind = "file")
               /\ Fetching(p)' /\ (p \notin todo' => Mirror(ss[p], p, rmd[p] = "remote")')
    BY <1>1 DEF TrueHere, Fetching, Mirror, Plain
  <2> QED BY <2>1 DEF LoopTrue, Plain, Original
<1>4. EndTrue'
  BY <1>1 DEF EndTrue
<1> QED BY <1>2, <1>3, <1>4

\* ... and what follows it takes away nothing that the server still has.
LEMMA FirstRunCloses ==
  ASSUME TypeOK, KindsHold, LoopTable, LoopTrue, EndTrue, calm' # 0,
         \/ LeaveLoop \/ LeaveRemovals \/ Save
         \/ \E p \in Path : RemoveFolder(p) \/ RemoveDrawer(p)
  PROVE  EndTrue' /\ pc' \in {"rmdir", "save", "idle"}
<1>0. /\ loc \in [Path -> LocalNode] /\ rem \in [Path -> RemoteNode]
      /\ ss \in [Path -> StateEntry] /\ Plain \subseteq Path
  BY DEF TypeOK, Typed, Plain
<1>1. CASE LeaveLoop
  <2>1. /\ pc = "item" /\ todo = {} /\ pc' = "rmdir" /\ todo' = {p \in Path : rmd[p] # "no"}
        /\ UNCHANGED <<loc, rem, ss, rmd>>
    BY <1>1 DEF LeaveLoop, disk, server, table
  <2>2. \A p \in Plain : Mirror(ss[p], p, rmd[p] = "remote")'
    BY <2>1 DEF LoopTrue, Looping, Mirror, Original
  <2>3. \A p \in Plain : Mirror(ss[p], p, p \in todo /\ rmd[p] = "remote")'
    BY <1>0, <2>1, <2>2 DEF Mirror, Original
  <2>4. \A p \in Path : rmd'[p] = "local" => rem'[p].kind = "none"
    BY <2>1 DEF EndTrue, Looping
  <2> QED BY <2>1, <2>3, <2>4 DEF EndTrue, Plain
<1>2. CASE LeaveRemovals
  <2>1. pc = "rmdir" /\ todo = {} /\ pc' = "save" /\ UNCHANGED <<loc, rem, ss>>
    BY <1>2 DEF LeaveRemovals, disk, server, table
  <2>2. \A p \in Plain : Mirror(ss[p], p, FALSE)'
    BY <2>1 DEF EndTrue, Mirror, Original
  <2> QED BY <2>1, <2>2 DEF EndTrue, Plain, Looping
<1>3. CASE Save
  <2>1. pc = "save" /\ pc' = "idle" /\ UNCHANGED <<loc, rem>> /\ st' = ss
    BY <1>3 DEF Save, server, FreeTable, Fault
  <2>2. \A p \in Plain : Mirror(st[p], p, FALSE)'
    BY <2>1 DEF EndTrue, Mirror, Original
  <2> QED BY <2>1, <2>2 DEF EndTrue, Plain, Looping
<1>4. ASSUME NEW p \in Path, RemoveFolder(p) \/ RemoveDrawer(p)
      PROVE  EndTrue' /\ pc' = "rmdir"
  <2>1. /\ pc = "rmdir" /\ pc' = "rmdir" /\ Last(p) /\ todo' = todo \ {p} /\ rmd' = rmd
        /\ rmd[p] # "no"
    BY <1>4 DEF RemoveFolder, RemoveDrawer
  <2>2. \A q \in Path \ {p} : ss'[q] = ss[q]
    BY <1>0, <1>4 DEF RemoveFolder, RemoveDrawer, RequestDelete, Known, Record
  <2>3. ASSUME NEW q \in Path
        PROVE  /\ rem'[q] = rem[q] \/ rem'[q].kind = "none"
               /\ q # p => loc'[q] = loc[q]
               /\ rem'[p].kind = "none"
    <3>1. CASE RemoveFolder(p)
      BY <3>1, Shapes DEF RemoveFolder, RequestDelete, RemoteWithout, Under, disk, Fault
    <3>2. CASE RemoveDrawer(p)
      <4>1. rem' = rem /\ (loc' = loc \/ loc' = Deleted(p))
        BY <3>2 DEF RemoveDrawer, server
      <4>2. rem[p].kind = "none"
        BY <2>1, <3>2 DEF RemoveDrawer, EndTrue
      <4> QED BY <1>0, <4>1, <4>2 DEF Deleted
    <3> QED BY <1>4, <3>1, <3>2
  <2>4. \A q \in Path : rmd'[q] = "local" => rem'[q].kind = "none"
    BY <2>1, <2>3 DEF EndTrue
  <2>5. ASSUME NEW q \in Path, rmd'[q] # "no", q \notin todo', NEW r \in todo'
        PROVE  Rank[r] < Rank[q]
    <3>1. todo \subseteq Path /\ r \in todo /\ r # p
      BY <2>1, <2>5 DEF EndTrue
    <3>2. CASE q = p
      <4>1. Rank[r] <= Rank[p] /\ Rank[r] # Rank[p]
        BY <2>1, <3>1, TreeAssumption DEF Last
      <4> QED BY <3>1, <3>2, <4>1, Ranks
    <3>3. CASE q # p
      BY <2>1, <2>5, <3>1, <3>3 DEF EndTrue
    <3> QED BY <3>2, <3>3
  <2>6. ASSUME NEW q \in Plain
        PROVE  Mirror(ss[q], q, q \in todo /\ rmd[q] = "remote")'
    <3>1. CASE q = p
      BY <1>0, <2>3, <3>1 DEF Mirror
    <3>2. CASE q # p
      <4>1. /\ ss'[q] = ss[q] /\ loc'[q] = loc[q]
            /\ rem'[q] = rem[q] \/ rem'[q].kind = "none"
            /\ q \in todo' <=> q \in todo
            /\ rmd'[q] = rmd[q]
        BY <1>0, <2>1, <2>2, <2>3, <3>2
      <4>2. Mirror(ss[q], q, q \in todo /\ rmd[q] = "remote")
        BY <2>1, <2>6 DEF EndTrue
      <4> QED BY <4>1, <4>2 DEF Mirror, Original
    <3> QED BY <3>1, <3>2
  <2>7. todo' \subseteq Path
    BY <2>1 DEF EndTrue
  <2> QED BY <2>1, <2>4, <2>5, <2>6, <2>7 DEF EndTrue, Plain
<1> QED BY <1>1, <1>2, <1>3, <1>4 DEF LeaveLoop, LeaveRemovals, Save, FreeTable

\* The invariant of the first run is kept.
LEMMA FirstRunStep ==
  ASSUME Settling, TypeOK, KindsHold, TableClean, FirstRun, [Next]_vars
  PROVE  FirstRun'
<1>0. Typed /\ calm \in Nat
  BY DEF TypeOK, Typed
<1> DEFINE Four == ScansTrue /\ LoopTable /\ LoopTrue /\ EndTrue
<1>1. SUFFICES ASSUME calm' >= 1 PROVE Four'
  BY DEF FirstRun
<1>2. calm' # 0
  BY <1>1
<1>3. CASE Start
  <2>1. pc' = "scanR"
    BY <1>3 DEF Start
  <2>2. ScansTrue'
    BY <1>2, <1>3, ScansTrueStep
  <2> QED BY <2>1, <2>2 DEF LoopTable, LoopTrue, EndTrue, Looping
<1>4. CASE UNCHANGED vars
  <2>1. Four
    BY <1>1, <1>4 DEF FirstRun, vars, meters
  <2> QED BY <1>4, <2>1 DEF vars, disk, server, table, ScansTrue, LoopTable, LoopTrue, EndTrue,
       TrueThere, TrueHere, Pending, IsDir, Ahead, First, Fetching, Mirror
<1>5. CASE Engine /\ calm' = calm
  <2>0. ScansTrue /\ LoopTable /\ LoopTrue /\ EndTrue
    BY <1>1, <1>5 DEF FirstRun
  <2>1. ScansTrue'
    BY <1>2, <1>5, <2>0, ScansTrueStep
  <2>2. CASE LoadState
    BY <1>2, <2>0, <2>1, <2>2, FirstRunBegins
  <2>3. CASE \/ ScanRemoteDone
             \/ \E d \in Path \cup {Root} : ScanRemote(d) \/ ScanLocal(d)
    <3>1. pc' \in {"scanR", "scanL"}
      BY <2>3 DEF ScanRemoteDone, ScanRemote, ScanLocal
    <3> QED BY <2>1, <3>1 DEF LoopTable, LoopTrue, EndTrue, Looping
  <2>4. ASSUME NEW d \in Path \cup {Root}
        PROVE  ~ScanRemoteFails(d) /\ ~ScanRemoteEmpty(d) /\ ~ScanLocalFails(d)
    BY <1>2, <2>0, NoScanFails
  <2>5. CASE \E p \in Path : OneItem(p)
    BY <1>2, <2>0, <2>1, <2>5, FirstRunItem
  <2>6. CASE \/ LeaveLoop \/ LeaveRemovals \/ Save
             \/ \E p \in Path : RemoveFolder(p) \/ RemoveDrawer(p)
    <3>1. EndTrue' /\ pc' \in {"rmdir", "save", "idle"}
      BY <1>2, <2>0, <2>6, FirstRunCloses
    <3> QED BY <2>1, <3>1 DEF LoopTable, LoopTrue, Looping
  <2> QED BY <1>5, <2>2, <2>3, <2>4, <2>5, <2>6, EngineCases
<1> QED BY <1>0, <1>2, <1>3, <1>4, <1>5, QuietStep

(***************************************************************************)
(* The next run                                                            *)
(***************************************************************************)
\* It finds what the server has here as well, and knows it.
LEMMA NextItem ==
  ASSUME TypeOK, LoopTable, LoopAlike, NEW p \in Plain, At("item", p)
  PROVE  /\ p \in Path /\ TrueThere(p) /\ TrueHere(p) /\ rmd[p] = "no" /\ p \in todo
         /\ rem[p].kind # "none" => ss[p].known /\ loc[p].kind = rem[p].kind
         /\ rem[p].kind = "file" => /\ ss[p].etag = rem[p].etag
                                    /\ Original(p) => ss[p].stamp = loc[p].stamp
         /\ OnServer(p) <=> rem[p].kind # "none"
         /\ OnAmiga(p) <=> loc[p].kind # "none"
         /\ ~IsDirItem(p) => ~RChanged(p)
<1>0. p \in Path /\ rem[p].kind \in Kinds
  BY DEF TypeOK, Typed, Plain, RemoteNode
<1>1. /\ TrueThere(p) /\ rmd[p] = "no" /\ p \in todo /\ pc = "item"
  BY <1>0 DEF LoopTable, At, First, Ahead, Looping
<1>2. TrueHere(p) /\ Mirror(ss[p], p, FALSE)
  BY <1>1 DEF LoopAlike, Looping
<1>3. /\ rem[p].kind # "none" => ss[p].known /\ loc[p].kind = rem[p].kind
      /\ rem[p].kind = "file" => /\ ss[p].etag = rem[p].etag
                                 /\ Original(p) => ss[p].stamp = loc[p].stamp
  BY <1>0, <1>2 DEF Mirror, Kinds
<1>4. /\ OnServer(p) <=> rem[p].kind # "none"
      /\ OnAmiga(p) <=> loc[p].kind # "none"
  BY <1>1, <1>2 DEF OnServer, OnAmiga, TrueThere, TrueHere
<1>5. ~IsDirItem(p) => ~RChanged(p)
  BY <1>0, <1>1, <1>3, <1>4 DEF IsDirItem, RChanged, TrueThere, Kinds
<1> QED BY <1>0, <1>1, <1>2, <1>3, <1>4, <1>5

\* It leaves everything but the item alone, on both sides.
LEMMA NextFrame ==
  ASSUME Settling, TypeOK, KindsHold, TableClean, LoopTable, LoopTrue, LoopAlike,
         NEW p \in Path, OneItem(p), calm' # 0, NEW q \in Plain \ {p}
  PROVE  loc'[q] = loc[q] /\ rem'[q] = rem[q] /\ ss'[q] = ss[q] /\ rmd'[q] = rmd[q]
<1>0. q \in Path \ {p} /\ Typed
  BY DEF Plain, TypeOK
<1>1. First(p) /\ pc \in Looping /\ ss'[q] = ss[q] /\ rmd'[q] = rmd[q]
  BY <1>0, ItemFrame
<1>2. rem'[q] = rem[q]
  BY <1>0, OthersThere
<1>3. ~KeepConflictCopy(p)
  <2>1. KeepConflictCopy(p) => p \in Plain /\ RChanged(p)
    BY CopyKept
  <2>2. KeepConflictCopy(p) => At("item", p) /\ ~IsDirItem(p)
    BY DEF KeepConflictCopy, FileItem
  <2> QED BY <2>1, <2>2, NextItem
<1>4. q \in Above[p] => q \notin todo
  BY <1>0, <1>1, AboveRank, Ranks DEF First
<1>5. ~(q \in Above[p] /\ rem[q].kind = "dir" /\ loc[q].kind = "none")
  BY <1>1, <1>4 DEF LoopAlike, Alike
<1> QED BY <1>0, <1>1, <1>2, <1>3, <1>5, OthersHere

\* So does the drawer that holds a path up.
LEMMA HeldUpStays ==
  ASSUME Settling, NEW p \in Path, p \in todo, todo' \subseteq todo,
         \A r \in Plain \ {p} : loc'[r] = loc[r] /\ rem'[r] = rem[r] /\ ss'[r] = ss[r],
         NEW q \in Plain, HeldUp(q, Path \ todo)
  PROVE  HeldUp(q, Path \ todo)'
<1>1. PICK d \in (Above[q] \cup {q}) \cap (Path \ todo) : Kept(ss[d], d)
  BY DEF HeldUp
<1>2. d \in Plain \ {p} /\ d \in (Above[q] \cup {q}) \cap (Path \ todo')
  BY <1>1 DEF Plain, Settling
<1>3. Kept(ss[d], d)'
  BY <1>1, <1>2 DEF Kept
<1> QED BY <1>2, <1>3 DEF HeldUp

\* What cannot be sent is held up by a drawer above it.
LEMMA NotSent ==
  ASSUME Settling, TypeOK, KindsHold, LoopTable, LoopAlike, pc \in Looping,
         NEW p \in Plain, First(p), loc[p].kind # "none", ~IsDir(rem, Parent[p])
  PROVE  HeldUp(p, Path \ todo)
<1>0. /\ p \in Path /\ Tree(loc) /\ rem \in [Path -> RemoteNode]
  BY DEF Plain, TypeOK, Typed
<1> DEFINE d == Parent[p]
<1>1. d # Root /\ d \in Path /\ d \in Above[p] /\ d \in Plain /\ Above[d] \subseteq Above[p]
  BY <1>0, Places, TreeAssumption DEF IsDir, Plain, Settling
<1>2. loc[d].kind = "dir" /\ rem[d].kind # "dir"
  BY <1>0, <1>1 DEF Tree, IsDir
<1>3. rem[d].kind = "none"
  <2>1. rem[d].kind # "file" /\ rem[d].kind \in Kinds
    BY <1>0, <1>1, <1>2 DEF KindsHold, KindFits, RemoteNode
  <2> QED BY <1>2, <2>1 DEF Kinds
<1>4. d \notin todo
  BY <1>0, <1>1, AboveRank, Ranks DEF First
<1>5. OnlyHere(d)
  BY <1>2, <1>3 DEF OnlyHere
<1> HIDE DEF d
<1>6. HeldUp(d, Path \ todo)
  BY <1>1, <1>4, <1>5 DEF LoopAlike
<1> QED BY <1>1, <1>6 DEF HeldUp

\* What it makes of an item.
Handled(p) ==
  /\ Alike(ss[p], p) /\ (OnlyHere(p) => HeldUp(p, Path \ todo))
  /\ Kept(ss[p], p) <=> rmd[p] = "local"
  /\ rmd[p] # "remote"

\* A directory is in step, or deferred, or made there, or held up.
LEMMA NextRunDirs ==
  ASSUME Settling, TypeOK, KindsHold, TableClean, LoopTable, LoopTrue, LoopAlike, calm' # 0,
         NEW p \in Plain, KeepDir(p) \/ DeferRemoval(p) \/ MakeDrawer(p) \/ MakeFolder(p)
  PROVE  Handled(p)'
<1>0. /\ loc \in [Path -> LocalNode] /\ rem \in [Path -> RemoteNode]
      /\ ss \in [Path -> StateEntry] /\ rmd \in [Path -> {"no", "local", "remote"}]
      /\ loc[p].kind \in Kinds /\ rem[p].kind \in Kinds /\ p \in Path
  BY DEF TypeOK, Typed, Plain, LocalNode, RemoteNode
<1>1. At("item", p) /\ IsDirItem(p) /\ Advance(p) /\ First(p) /\ pc \in Looping
  BY DEF KeepDir, DeferRemoval, MakeDrawer, MakeFolder, DirItem, At, Looping
<1>2. /\ TrueThere(p) /\ TrueHere(p) /\ rmd[p] = "no" /\ p \in todo
      /\ rem[p].kind # "none" => ss[p].known /\ loc[p].kind = rem[p].kind
      /\ OnServer(p) <=> rem[p].kind # "none"
      /\ OnAmiga(p) <=> loc[p].kind # "none"
  BY <1>1, NextItem
<1>3. loc[p].kind # "file" /\ rem[p].kind # "file"
  BY <1>0, <1>1, <1>2 DEF IsDirItem, TrueThere, TrueHere, KindsHold, KindFits
<1>4. p \notin todo' /\ todo' \subseteq todo
  BY <1>1 DEF Advance
<1>5. ASSUME NEW r \in Plain \ {p} PROVE loc'[r] = loc[r] /\ rem'[r] = rem[r] /\ ss'[r] = ss[r]
  BY NextFrame, <1>0 DEF OneItem
<1>6. CASE KeepDir(p)
  <2>1. rem' = rem /\ loc' = loc /\ rmd' = rmd /\ ss'[p].known
    BY <1>0, <1>6 DEF KeepDir, disk, server, Known, Record, StateEntry
  <2>2. rem[p].kind = "dir" /\ loc[p].kind = "dir"
    BY <1>0, <1>2, <1>3, <1>6 DEF KeepDir, Kinds
  <2> QED BY <1>2, <2>1, <2>2 DEF Handled, Alike, OnlyHere, Kept
<1>7. CASE DeferRemoval(p)
  <2>1. /\ rem' = rem /\ loc' = loc /\ ss' = ss /\ ss[p].known
        /\ ~(OnServer(p) /\ OnAmiga(p))
        /\ rmd'[p] = IF OnServer(p) THEN "remote" ELSE "local"
    BY <1>0, <1>7 DEF DeferRemoval, disk, server
  <2>2. rem[p].kind = "none" /\ loc[p].kind = "dir" /\ rmd'[p] = "local"
    BY <1>0, <1>1, <1>2, <1>3, <2>1 DEF IsDirItem, TrueThere, TrueHere, Kinds
  <2>3. Kept(ss[p], p)'
    BY <2>1, <2>2 DEF Kept
  <2>4. HeldUp(p, Path \ todo)'
    BY <1>0, <1>4, <2>3 DEF HeldUp
  <2> QED BY <2>1, <2>2, <2>3, <2>4 DEF Handled, Alike
<1>8. ~MakeDrawer(p)
  BY <1>2 DEF MakeDrawer
<1>9. CASE MakeFolder(p)
  <2>1. /\ loc' = loc /\ rmd' = rmd /\ ~ss[p].known /\ rem[p].kind = "none" /\ loc[p].kind = "dir"
    BY <1>0, <1>2, <1>3, <1>9 DEF MakeFolder, disk, Kinds
  <2>2. CASE IsDir(rem, Parent[p])
    <3>1. rem' = [rem EXCEPT ![p] = Folder] /\ KnownDir(p)
      BY <1>0, <1>9, <2>1, <2>2, Shapes DEF MakeFolder, Fault
    <3>2. rem'[p].kind = "dir" /\ ss'[p].known
      BY <1>0, <3>1, Shapes DEF KnownDir, Record
    <3> QED BY <1>2, <2>1, <3>2 DEF Handled, Alike, OnlyHere, Kept
  <2>3. CASE ~IsDir(rem, Parent[p])
    <3>1. rem' = rem /\ ss' = ss
      BY <1>9, <2>1, <2>3 DEF MakeFolder, Fault
    <3>2. HeldUp(p, Path \ todo)
      BY <1>1, <2>1, <2>3, NotSent
    <3>3. HeldUp(p, Path \ todo)'
      BY <1>0, <1>2, <1>4, <1>5, <3>2, HeldUpStays
    <3> QED BY <1>2, <2>1, <3>1, <3>3 DEF Handled, Alike, Kept
  <2> QED BY <2>2, <2>3
<1> QED BY <1>6, <1>7, <1>8, <1>9

\* A file is in step, or forgotten, or deleted here, or sent, or held up.
LEMMA NextRunFiles ==
  ASSUME Settling, TypeOK, KindsHold, TableClean, LoopTable, LoopTrue, LoopAlike, calm' # 0,
         NEW p \in Plain,
         \/ KeepFile(p) \/ Forget(p) \/ DeleteRemote(p) \/ DeleteLocal(p)
         \/ Download(p) \/ KeepConflictCopy(p) \/ Upload(p) \/ UploadFails(p)
  PROVE  \/ Advance(p) /\ Handled(p)'
         \/ pc' = "tag" /\ todo' = todo /\ TrueHere(p)'
<1>0. /\ loc \in [Path -> LocalNode] /\ rem \in [Path -> RemoteNode] /\ Tree(loc)
      /\ ss \in [Path -> StateEntry] /\ rmd \in [Path -> {"no", "local", "remote"}]
      /\ loc[p].kind \in Kinds /\ rem[p].kind \in Kinds /\ p \in Path
  BY DEF TypeOK, Typed, Plain, LocalNode, RemoteNode
<1>1. At("item", p) /\ ~IsDirItem(p) /\ First(p) /\ pc \in Looping /\ OneItem(p)
  BY DEF KeepFile, Forget, DeleteRemote, DeleteLocal, Download, KeepConflictCopy,
     Upload, UploadFails, FileItem, At, Looping, OneItem
<1>2. /\ TrueThere(p) /\ TrueHere(p) /\ rmd[p] = "no" /\ p \in todo
      /\ rem[p].kind # "none" => ss[p].known /\ loc[p].kind = rem[p].kind
      /\ rem[p].kind = "file" => ss[p].etag = rem[p].etag
      /\ OnServer(p) <=> rem[p].kind # "none"
      /\ OnAmiga(p) <=> loc[p].kind # "none"
      /\ ~RChanged(p)
  BY <1>1, NextItem
<1>3. loc[p].kind # "dir" /\ rem[p].kind # "dir"
  BY <1>1, <1>2 DEF IsDirItem, TrueThere, TrueHere
<1>4. ~DeleteRemote(p) /\ ~Download(p) /\ ~KeepConflictCopy(p)
  BY <1>2 DEF DeleteRemote, Download, KeepConflictCopy
<1>5. CASE KeepFile(p)
  <2>1. /\ rem' = rem /\ loc' = loc /\ rmd' = rmd /\ Advance(p) /\ OnServer(p)
        /\ sl[p].stamp = ss[p].stamp
    BY <1>5 DEF KeepFile, disk, server, LChanged
  <2>2. ss'[p].known /\ ss'[p].etag = ss[p].etag /\ ss'[p].stamp = ss[p].stamp
    BY <1>0, <1>5 DEF KeepFile, Known, Record, StateEntry
  <2>3. rem[p].kind = "file" /\ loc[p].kind = "file" /\ loc[p].stamp = sl[p].stamp
    BY <1>0, <1>2, <1>3, <2>1 DEF Kinds, TrueHere
  <2> QED BY <1>2, <2>1, <2>2, <2>3 DEF Handled, Alike, OnlyHere, Kept
<1>6. CASE Forget(p)
  <2>1. rem' = rem /\ loc' = loc /\ rmd' = rmd /\ Advance(p) /\ ~OnServer(p) /\ ~OnAmiga(p)
    BY <1>6 DEF Forget, disk, server
  <2>2. ~ss'[p].known
    BY <1>0, <1>6, Shapes DEF Forget, Record
  <2> QED BY <1>2, <2>1, <2>2 DEF Handled, Alike, OnlyHere, Kept
<1>7. CASE DeleteLocal(p)
  <2>1. /\ rem' = rem /\ rmd' = rmd /\ Advance(p) /\ ~OnServer(p) /\ OnAmiga(p)
        /\ loc' = Deleted(p) /\ (Deletable(p) => Record(p, NoEntry))
    BY <1>7 DEF DeleteLocal, server, Fault
  <2>2. Deletable(p)
    BY <1>0, <1>2, <1>3, <2>1, FileDeletable DEF Kinds
  <2>3. loc'[p].kind = "none" /\ ~ss'[p].known
    BY <1>0, <2>1, <2>2, Shapes DEF Deleted, Record
  <2> QED BY <1>2, <2>1, <2>3 DEF Handled, Alike, OnlyHere, Kept
<1>8. CASE Upload(p)
  <2>1. /\ rem' = Stored(p) /\ loc' = loc /\ UNCHANGED <<sl, rmd>> /\ loc[p].kind = "file"
        /\ \/ Record(p, Entry(clock, sl[p].stamp)) /\ Advance(p)
           \/ pc' = "tag" /\ todo' = todo
    BY <1>8 DEF Upload, disk
  <2>2. rem'[p].kind = "file" /\ rem'[p].etag = clock
    BY <1>0, <2>1, Shapes DEF Stored
  <2>3. CASE Record(p, Entry(clock, sl[p].stamp)) /\ Advance(p)
    <3>1. ss'[p].known /\ ss'[p].etag = clock /\ ss'[p].stamp = sl[p].stamp
      BY <1>0, <2>3, Shapes DEF Record
    <3>2. loc[p].stamp = sl[p].stamp
      BY <1>2, <2>1 DEF TrueHere
    <3> QED BY <1>2, <2>1, <2>2, <2>3, <3>1, <3>2 DEF Handled, Alike, OnlyHere, Kept
  <2>4. CASE pc' = "tag" /\ todo' = todo
    BY <1>2, <2>1, <2>4 DEF TrueHere
  <2> QED BY <2>1, <2>3, <2>4
<1>9. CASE UploadFails(p)
  <2>1. /\ rem[p].kind = "none" /\ ~IsDir(rem, Parent[p]) /\ OnAmiga(p) /\ LChanged(p)
        /\ Advance(p) /\ UNCHANGED <<loc, rem, ss>> /\ rmd' = rmd
    BY <1>9, PutRefused DEF UploadFails, table
  <2>2. loc[p].kind = "file" /\ loc[p].stamp = sl[p].stamp
    BY <1>0, <1>2, <1>3, <2>1 DEF Kinds, TrueHere
  <2>3. ~(ss[p].known /\ ss[p].stamp = loc[p].stamp)
    BY <2>1, <2>2 DEF LChanged
  <2>4. HeldUp(p, Path \ todo)
    BY <1>1, <2>1, <2>2, NotSent
  <2>5. HeldUp(p, Path \ todo)'
    <3>1. \A r \in Plain \ {p} : loc'[r] = loc[r] /\ rem'[r] = rem[r] /\ ss'[r] = ss[r]
      BY <2>1
    <3>2. todo' \subseteq todo
      BY <2>1 DEF Advance
    <3> QED BY <1>0, <1>2, <2>4, <3>1, <3>2, HeldUpStays
  <2> QED BY <1>2, <2>1, <2>2, <2>3, <2>5 DEF Handled, Alike, Kept
<1> QED BY <1>4, <1>5, <1>6, <1>7, <1>8, <1>9

\* An upload is recorded with the etag asked for after it.
LEMMA NextRunTag ==
  ASSUME TypeOK, LoopTable, LoopTrue, LoopAlike, calm' # 0, NEW p \in Plain, Tag(p)
  PROVE  Advance(p) /\ Handled(p)'
<1>0. /\ ss \in [Path -> StateEntry] /\ p \in Path
  BY DEF TypeOK, Typed, Plain
<1>1. /\ First(p) /\ p \in todo /\ pc = "tag" /\ Advance(p) /\ UNCHANGED <<loc, rem, rmd>>
      /\ Record(p, Entry(rem[p].etag, sl[p].stamp))
  BY DEF Tag, At, First, server, disk, Fault
<1>2. rem[p].kind = "file" /\ loc[p].kind = "file" /\ rmd[p] = "no"
  BY <1>0, <1>1 DEF LoopTable, LoopTrue, Fetching, Looping
<1>3. loc[p].stamp = sl[p].stamp
  BY <1>1, <1>2 DEF LoopAlike, TrueHere, Looping
<1>4. ss'[p].known /\ ss'[p].etag = rem[p].etag /\ ss'[p].stamp = sl[p].stamp
  BY <1>0, <1>1, Shapes DEF Record
<1> QED BY <1>1, <1>2, <1>3, <1>4 DEF Handled, Alike, OnlyHere, Kept

\* One step of the loop in the next run.
LEMMA NextRunItem ==
  ASSUME Settling, TypeOK, KindsHold, TableClean, LoopTable, LoopTrue, LoopAlike,
         NEW p \in Path, OneItem(p), calm' # 0
  PROVE  LoopAlike'
<1>1. /\ First(p) /\ pc \in Looping /\ pc' \in Looping /\ UNCHANGED <<st, sr, sl, tab>>
      /\ Advance(p) \/ (todo' = todo /\ pc' # "item" /\ UNCHANGED <<ss, rmd>>)
  BY ItemFrame DEF TypeOK
<1>2. /\ p \in todo /\ todo' \subseteq todo /\ todo \subseteq tab
      /\ \A q \in Path \ {p} : q \in todo' <=> q \in todo
  BY <1>1 DEF LoopTable, Advance, First
<1>3. ASSUME NEW q \in Plain \ {p}
      PROVE  loc'[q] = loc[q] /\ rem'[q] = rem[q] /\ ss'[q] = ss[q] /\ rmd'[q] = rmd[q]
  BY NextFrame
<1>4. \A q \in Path : First(q) => q = p
  BY <1>1, FirstUnique
<1> DEFINE Good(q) ==
      /\ q \in todo => /\ TrueHere(q)
                       /\ (pc = "tag" /\ First(q)) \/ Mirror(ss[q], q, FALSE)
      /\ First(q) => pc \in {"item", "tag"}
      /\ q \notin todo => Handled(q)
      /\ q \notin tab => loc[q].kind = "none"
      /\ rmd[q] # "remote"
<1>5. ASSUME NEW q \in Plain PROVE Good(q)
  BY <1>1, <1>5 DEF LoopAlike, Handled
<1>6. ASSUME NEW q \in Plain, q # p PROVE Good(q)'
  <2>0. q \in Path /\ q \in Plain \ {p}
    BY <1>6 DEF Plain
  <2>1. loc'[q] = loc[q] /\ rem'[q] = rem[q] /\ ss'[q] = ss[q] /\ rmd'[q] = rmd[q]
    BY <1>3, <2>0
  <2>2. q \in todo => TrueHere(q)' /\ Mirror(ss[q], q, FALSE)'
    <3>1. ~First(q)
      BY <1>4, <1>6, <2>0
    <3> QED BY <1>1, <1>5, <1>6, <2>1, <3>1 DEF TrueHere, Mirror, Original
  <2>3. First(q)' => pc' = "item"
    <3>1. CASE Advance(p)
      BY <3>1 DEF Advance
    <3>2. CASE todo' = todo
      BY <1>4, <1>6, <2>0, <3>2 DEF First
    <3> QED BY <1>1, <3>1, <3>2
  <2>4. q \notin todo => Handled(q)'
    <3>1. SUFFICES ASSUME q \notin todo PROVE Handled(q)'
      OBVIOUS
    <3>2. Handled(q)
      BY <1>5, <1>6, <3>1
    <3>3. HeldUp(q, Path \ todo) => HeldUp(q, Path \ todo)'
      BY <1>2, <1>3, <1>6, HeldUpStays
    <3> QED BY <2>1, <3>2, <3>3 DEF Handled, Alike, OnlyHere, Kept
  <2>5. q \in todo' <=> q \in todo
    BY <1>2, <2>0
  <2>6. q \notin tab' => loc'[q].kind = "none"
    BY <1>1, <1>5, <1>6, <2>1
  <2>7. rmd'[q] # "remote"
    BY <1>5, <1>6, <2>1
  <2> QED BY <2>2, <2>3, <2>4, <2>5, <2>6, <2>7
<1>7. ASSUME p \in Plain PROVE Good(p)'
  <2>1. Good(p)
    BY <1>5, <1>7
  <2>2. pc \in {"item", "tag"}
    BY <1>1, <2>1
  <2>3. \/ Advance(p) /\ Handled(p)'
        \/ pc' = "tag" /\ todo' = todo /\ TrueHere(p)'
    <3>1. ~SkipBadName(p) /\ ~Abort(p)
      BY <1>7 DEF SkipBadName, Abort, Fault, Plain
    <3>2. ~Get(p) /\ ~GetFails(p) /\ ~Swap(p) /\ ~Install(p) /\ ~InstallFails(p) /\ ~Stamp(p)
      BY <2>2 DEF Get, GetFails, Swap, Install, InstallFails, Stamp, At
    <3>3. CASE KeepDir(p) \/ DeferRemoval(p) \/ MakeDrawer(p) \/ MakeFolder(p)
      <4>1. Advance(p)
        BY <3>3 DEF KeepDir, DeferRemoval, MakeDrawer, MakeFolder
      <4> QED BY <1>7, <3>3, <4>1, NextRunDirs
    <3>4. CASE \/ KeepFile(p) \/ Forget(p) \/ DeleteRemote(p) \/ DeleteLocal(p)
               \/ Download(p) \/ KeepConflictCopy(p) \/ Upload(p) \/ UploadFails(p)
      BY <1>7, <3>4, NextRunFiles
    <3>5. CASE Tag(p)
      BY <1>7, <3>5, NextRunTag
    <3> QED BY <3>1, <3>2, <3>3, <3>4, <3>5 DEF OneItem
  <2>4. CASE Advance(p) /\ Handled(p)'
    <3>1. p \notin todo' /\ p \in tab'
      BY <1>1, <1>2, <2>4 DEF Advance
    <3> QED BY <2>4, <3>1 DEF Handled, First
  <2>5. CASE pc' = "tag" /\ todo' = todo /\ TrueHere(p)'
    <3>1. First(p)' /\ p \in todo' /\ p \in tab' /\ rmd'[p] = rmd[p]
      BY <1>1, <1>2, <2>5 DEF First, Advance
    <3> QED BY <2>1, <2>5, <3>1
  <2> QED BY <2>3, <2>4, <2>5
<1>8. \A q \in Plain : Good(q)'
  BY <1>6, <1>7
<1> QED BY <1>8 DEF LoopAlike, Handled, Plain

\* Its loop begins with what the first run has left.
LEMMA NextRunBegins ==
  ASSUME Settling, TypeOK, TableClean, ScansTrue, LoadState, calm' # 0,
         \A p \in Plain : Mirror(st[p], p, FALSE)
  PROVE  LoopAlike' /\ EndAlike'
<1>1. /\ pc' = "item" /\ ss' = st /\ todo' = tab' /\ UNCHANGED <<loc, rem>>
      /\ \A p \in Path : /\ rmd'[p] = "no"
                         /\ p \notin tab' => rem'[p].kind = "none" /\ ~st[p].known
      /\ \A p \in Plain : TrueHere(p)' /\ (p \notin tab' => loc'[p].kind = "none")
  BY LoadedTrue
<1>2. ASSUME NEW p \in Plain
      PROVE  /\ TrueHere(p)' /\ Mirror(ss[p], p, FALSE)' /\ rmd'[p] = "no"
             /\ p \notin tab' => Handled(p)' /\ loc'[p].kind = "none"
  <2>1. p \in Path /\ Mirror(ss[p], p, FALSE)'
    BY <1>1, <1>2 DEF Plain, Mirror, Original
  <2> QED BY <1>1, <1>2, <2>1 DEF Handled, Alike, OnlyHere, Kept
<1>3. LoopAlike'
  BY <1>1, <1>2 DEF LoopAlike, Handled, Plain
<1>4. EndAlike'
  BY <1>1 DEF EndAlike
<1> QED BY <1>3, <1>4

\* A drawer is removed only when nothing is left in it: it holds nothing up.
LEMMA RemovedAlone ==
  ASSUME Settling, TypeOK, KindsHold, EndTrue, EndAlike, NEW p \in Path,
         RemoveDrawer(p), calm' # 0
  PROVE  EndAlike'
<1>0. /\ loc \in [Path -> LocalNode] /\ ss \in [Path -> StateEntry] /\ Tree(loc)
      /\ rmd \in [Path -> {"no", "local", "remote"}] /\ Plain \subseteq Path
  BY DEF TypeOK, Typed, Plain
<1>1. /\ pc = "rmdir" /\ pc' = "rmdir" /\ p \in todo /\ todo' = todo \ {p}
      /\ UNCHANGED <<rem, rmd>> /\ rmd[p] = "local" /\ loc' = Deleted(p)
      /\ IF Deletable(p) THEN Record(p, NoEntry) ELSE Known(p)
  BY DEF RemoveDrawer, Last, server, Fault
<1>2. ASSUME NEW q \in Path \ {p} PROVE loc'[q] = loc[q] /\ ss'[q] = ss[q]
  BY <1>0, <1>1 DEF Deleted, Known, Record
<1>3. CASE Deletable(p)
  <2>1. loc'[p].kind = "none" /\ ~ss'[p].known /\ Inside(loc, p) = {}
    BY <1>0, <1>1, <1>3, Shapes DEF Deleted, Record, Deletable
  <2>2. rem[p].kind = "none"
    BY <1>1 DEF EndTrue
  <2>3. ASSUME NEW q \in Plain
        PROVE  Alike(ss[q], q)' /\ (OnlyHere(q) => HeldUp(q, Path))'
    <3>1. CASE q = p
      BY <1>1, <2>1, <2>2, <3>1 DEF Alike, OnlyHere
    <3>2. CASE q # p
      <4>1. Alike(ss[q], q) /\ (OnlyHere(q) => HeldUp(q, Path)) /\ q \in Path
        BY <1>0, <1>1 DEF EndAlike
      <4>2. Alike(ss[q], q)' /\ (OnlyHere(q)' => OnlyHere(q))
        BY <1>1, <1>2, <3>2, <4>1 DEF Alike, OnlyHere
      <4>3. ASSUME OnlyHere(q) PROVE HeldUp(q, Path)'
        <5>1. PICK d \in (Above[q] \cup {q}) \cap Path : Kept(ss[d], d)
          BY <4>1, <4>3 DEF HeldUp
        <5>2. d # p
          <6>1. p \notin Above[q]
            BY <1>0, <2>1, <4>1, <4>3, OnTheWay DEF OnlyHere
          <6> QED BY <3>2, <5>1, <6>1
        <5>3. Kept(ss[d], d)'
          BY <1>1, <1>2, <5>1, <5>2 DEF Kept
        <5> QED BY <5>1, <5>3 DEF HeldUp
      <4> QED BY <4>2, <4>3
    <3> QED BY <3>1, <3>2
  <2>4. ASSUME NEW q \in Plain
        PROVE  /\ Kept(ss[q], q)' => rmd'[q] = "local" /\ (q \notin todo' => Inside(loc, q)' # {})
               /\ (rmd'[q] = "local" /\ q \in todo') => Kept(ss[q], q)'
               /\ rmd'[q] # "remote"
    <3>1. /\ Kept(ss[q], q) => rmd[q] = "local" /\ (q \notin todo => Inside(loc, q) # {})
          /\ (rmd[q] = "local" /\ q \in todo) => Kept(ss[q], q)
          /\ rmd[q] # "remote" /\ q \in Path
      BY <1>0, <1>1, <2>4 DEF EndAlike
    <3>2. CASE q = p
      BY <1>1, <2>1, <3>1, <3>2 DEF Kept
    <3>3. CASE q # p
      <4>1. Kept(ss[q], q)' <=> Kept(ss[q], q)
        BY <1>1, <1>2, <3>1, <3>3 DEF Kept
      <4>2. q \in todo' <=> q \in todo
        BY <1>1, <3>3
      <4>3. ASSUME rmd[q] = "local", q \notin todo, Inside(loc, q) # {}
            PROVE  Inside(loc, q)' # {}
        <5>1. PICK r \in Path : Parent[r] = q /\ loc[r].kind # "none"
          BY <4>3 DEF Inside
        <5>2. Rank[p] < Rank[q]
          BY <1>1, <3>1, <4>3 DEF EndTrue
        <5>3. r # p
          <6>1. Rank[q] < Rank[r]
            BY <3>1, <5>1, TreeAssumption
          <6> QED BY <3>1, <5>2, <6>1, Ranks
        <5>4. loc'[r] = loc[r]
          BY <1>2, <5>3
        <5> QED BY <5>1, <5>4 DEF Inside
      <4> QED BY <1>1, <3>1, <4>1, <4>2, <4>3
    <3> QED BY <3>2, <3>3
  <2> QED BY <1>1, <2>3, <2>4 DEF EndAlike, Plain
<1>4. CASE ~Deletable(p)
  <2>1. loc' = loc
    <3>1. \A q \in Path : loc'[q] = loc[q]
      BY <1>0, <1>1, <1>4 DEF Deleted
    <3>2. loc' = [loc EXCEPT ![p] = loc[p]]
      BY <1>1, <1>4 DEF Deleted
    <3> QED BY <1>0, <3>2
  <2>2. ss'[p] = [ss[p] EXCEPT !.known = TRUE]
    BY <1>0, <1>1, <1>4 DEF Known, Record
  <2>3. p \in Plain => ss' = ss /\ Inside(loc, p) # {}
    <3>1. SUFFICES ASSUME p \in Plain PROVE ss' = ss /\ Inside(loc, p) # {}
      OBVIOUS
    <3>2. Kept(ss[p], p)
      BY <1>1, <3>1 DEF EndAlike
    <3>3. ss[p].known /\ loc[p].kind # "none"
      BY <3>2 DEF Kept
    <3>4. [ss[p] EXCEPT !.known = TRUE] = ss[p]
      BY <1>0, <3>3 DEF StateEntry
    <3>5. ss' = [ss EXCEPT ![p] = ss[p]]
      BY <1>1, <1>4, <3>4 DEF Known, Record
    <3>6. ss' = ss
      BY <1>0, <3>5
    <3> QED BY <1>4, <3>3, <3>6 DEF Deletable
  <2>4. \A q \in Plain : ss'[q] = ss[q]
    BY <1>0, <1>2, <2>3
  <2>5. ASSUME NEW q \in Plain
        PROVE  Alike(ss[q], q)' /\ (OnlyHere(q) => HeldUp(q, Path))'
    <3>1. Alike(ss[q], q) /\ (OnlyHere(q) => HeldUp(q, Path))
      BY <1>1 DEF EndAlike
    <3>2. \A d \in (Above[q] \cup {q}) \cap Path : d \in Plain
      BY <1>0 DEF Plain, Settling
    <3>3. HeldUp(q, Path) => HeldUp(q, Path)'
      BY <1>1, <2>1, <2>4, <3>2 DEF HeldUp, Kept
    <3>4. Alike(ss[q], q)' /\ (OnlyHere(q)' => OnlyHere(q))
      BY <1>1, <2>1, <2>4, <3>1 DEF Alike, OnlyHere
    <3> QED BY <3>1, <3>3, <3>4
  <2>6. ASSUME NEW q \in Plain
        PROVE  /\ Kept(ss[q], q)' => rmd'[q] = "local" /\ (q \notin todo' => Inside(loc, q)' # {})
               /\ (rmd'[q] = "local" /\ q \in todo') => Kept(ss[q], q)'
               /\ rmd'[q] # "remote"
    <3>1. /\ Kept(ss[q], q) => rmd[q] = "local" /\ (q \notin todo => Inside(loc, q) # {})
          /\ (rmd[q] = "local" /\ q \in todo) => Kept(ss[q], q)
          /\ rmd[q] # "remote"
      BY <1>1, <2>6 DEF EndAlike
    <3>2. Kept(ss[q], q)' <=> Kept(ss[q], q)
      BY <1>1, <2>1, <2>4 DEF Kept
    <3>3. Inside(loc, q)' = Inside(loc, q)
      BY <2>1
    <3>4. q = p => Inside(loc, q) # {}
      BY <2>3
    <3> QED BY <1>1, <3>1, <3>2, <3>3, <3>4
  <2> QED BY <1>1, <2>5, <2>6 DEF EndAlike, Plain
<1> QED BY <1>3, <1>4

\* What follows the loop keeps what it has brought into step.
LEMMA NextRunCloses ==
  ASSUME Settling, TypeOK, KindsHold, LoopTable, EndTrue, LoopAlike, EndAlike, calm' # 0,
         \/ LeaveLoop \/ LeaveRemovals \/ Save
         \/ \E p \in Path : RemoveFolder(p) \/ RemoveDrawer(p)
  PROVE  EndAlike'
<1>0. Plain \subseteq Path /\ rmd \in [Path -> {"no", "local", "remote"}]
  BY DEF Plain, TypeOK, Typed
<1>1. CASE LeaveLoop
  <2>1. /\ pc = "item" /\ todo = {} /\ pc' = "rmdir" /\ todo' = {p \in Path : rmd[p] # "no"}
        /\ UNCHANGED <<loc, rem, ss, rmd>>
    BY <1>1 DEF LeaveLoop, disk, server, table
  <2>2. Path \ todo = Path
    BY <2>1
  <2>3. ASSUME NEW p \in Plain
        PROVE  /\ Alike(ss[p], p) /\ (OnlyHere(p) => HeldUp(p, Path))
               /\ Kept(ss[p], p) <=> rmd[p] = "local"
               /\ rmd[p] # "remote"
    BY <2>1, <2>2 DEF LoopAlike, Looping
  <2>4. ASSUME NEW p \in Plain
        PROVE  /\ Alike(ss[p], p)' /\ (OnlyHere(p)' => HeldUp(p, Path)')
               /\ Kept(ss[p], p)' <=> rmd'[p] = "local"
               /\ rmd'[p] # "remote"
    BY <2>1, <2>3 DEF Alike, OnlyHere, HeldUp, Kept
  <2>5. \A p \in Path : rmd'[p] = "local" => p \in todo'
    BY <2>1
  <2> QED BY <1>0, <2>1, <2>4, <2>5 DEF EndAlike, Plain
<1>2. CASE LeaveRemovals
  <2>1. pc = "rmdir" /\ todo = {} /\ pc' = "save" /\ UNCHANGED <<loc, rem, ss>>
    BY <1>2 DEF LeaveRemovals, disk, server, table
  <2>2. ASSUME NEW p \in Plain
        PROVE  Alike(ss[p], p) /\ (OnlyHere(p) => HeldUp(p, Path)) /\ Full(ss[p], p)
    BY <2>1 DEF EndAlike, Full
  <2>3. ASSUME NEW p \in Plain
        PROVE  Alike(ss[p], p)' /\ (OnlyHere(p)' => HeldUp(p, Path)') /\ Full(ss[p], p)'
    BY <2>1, <2>2 DEF Alike, OnlyHere, HeldUp, Kept, Full, Inside
  <2> QED BY <2>1, <2>3 DEF EndAlike, Plain
<1>3. CASE Save
  <2>1. pc = "save" /\ pc' = "idle" /\ UNCHANGED <<loc, rem>> /\ st' = ss
    BY <1>3 DEF Save, server, FreeTable, Fault
  <2>2. ASSUME NEW p \in Plain
        PROVE  Alike(ss[p], p) /\ (OnlyHere(p) => HeldUp(p, Path)) /\ Full(ss[p], p)
    BY <2>1 DEF EndAlike
  <2>3. ASSUME NEW p \in Plain
        PROVE  Alike(st[p], p)' /\ (OnlyHere(p)' => Stuck(p)') /\ Full(st[p], p)'
    BY <2>1, <2>2 DEF Alike, OnlyHere, HeldUp, Kept, Full, Inside, Stuck
  <2> QED BY <2>1, <2>3 DEF EndAlike, Settled, Plain
<1>4. ASSUME NEW p \in Path, RemoveFolder(p) PROVE EndAlike'
  <2>1. /\ pc = "rmdir" /\ pc' = "rmdir" /\ rmd[p] = "remote" /\ todo' = todo \ {p}
        /\ UNCHANGED <<loc, rmd>> /\ rem' = RemoteWithout(p) /\ Record(p, NoEntry)
    BY <1>4 DEF RemoveFolder, RequestDelete, disk, Fault
  <2>2. p \notin Plain
    BY <2>1 DEF EndAlike
  <2>3. \A q \in Plain : p \notin Above[q]
    BY <1>0, <2>2 DEF Plain, Settling
  <2>4. \A q \in Plain : q # p /\ rem'[q] = rem[q] /\ ss'[q] = ss[q]
    <3>1. ss \in [Path -> StateEntry]
      BY DEF TypeOK, Typed
    <3> QED BY <1>0, <2>1, <2>2, <2>3, <3>1 DEF RemoteWithout, Under, Record
  <2>5. ASSUME NEW q \in Plain
        PROVE  Alike(ss[q], q)' /\ (OnlyHere(q)' => HeldUp(q, Path)')
    <3>1. Alike(ss[q], q) /\ (OnlyHere(q) => HeldUp(q, Path))
      BY <2>1 DEF EndAlike
    <3>2. \A d \in (Above[q] \cup {q}) \cap Path : d \in Plain
      BY <1>0 DEF Plain, Settling
    <3> QED BY <2>1, <2>4, <3>1, <3>2 DEF Alike, OnlyHere, HeldUp, Kept
  <2>6. ASSUME NEW q \in Plain
        PROVE  /\ Kept(ss[q], q)' => rmd'[q] = "local" /\ (q \notin todo' => Inside(loc, q)' # {})
               /\ (rmd'[q] = "local" /\ q \in todo') => Kept(ss[q], q)'
               /\ rmd'[q] # "remote"
    BY <2>1, <2>4 DEF EndAlike, Kept, Inside
  <2> QED BY <2>1, <2>5, <2>6 DEF EndAlike, Plain
<1> QED BY <1>1, <1>2, <1>3, <1>4, RemovedAlone

\* The invariant of the next run is kept.
LEMMA NextRunStep ==
  ASSUME Settling, TypeOK, KindsHold, TableClean, FirstRun, NextRun, [Next]_vars
  PROVE  NextRun'
<1>0. Typed /\ calm \in Nat /\ Plain \subseteq Path
  BY DEF TypeOK, Typed, Plain
<1> DEFINE Found == pc \in {"scanR", "scanL"} => \A p \in Plain : Mirror(st[p], p, FALSE)
<1>1. SUFFICES ASSUME calm' >= 2 PROVE (Found /\ LoopAlike /\ EndAlike)'
  BY DEF NextRun
<1>2. calm' # 0
  BY <1>1
<1>3. CASE Start /\ calm' \in {calm, calm + 1}
  <2>1. pc = "idle" /\ pc' = "scanR" /\ UNCHANGED <<loc, rem, st>> /\ calm >= 1
    BY <1>0, <1>1, <1>3 DEF Start, disk, server
  <2>2. \A p \in Plain : Mirror(st[p], p, FALSE)
    BY <2>1 DEF FirstRun, EndTrue
  <2>3. Found'
    BY <2>1, <2>2 DEF Mirror, Original, Plain
  <2> QED BY <2>1, <2>3 DEF LoopAlike, EndAlike, Looping
<1>4. CASE UNCHANGED vars
  <2>1. Found /\ LoopAlike /\ EndAlike
    BY <1>1, <1>4 DEF NextRun, vars, meters
  <2> QED BY <1>4, <2>1 DEF vars, disk, server, table, LoopAlike, EndAlike, Mirror, Alike,
       OnlyHere, HeldUp, Kept, Full, Settled, Stuck, Inside, First, TrueHere
<1>5. CASE Engine /\ calm' = calm
  <2>0. /\ ScansTrue /\ LoopTable /\ LoopTrue /\ EndTrue
        /\ Found /\ LoopAlike /\ EndAlike
    <3>1. calm >= 1 /\ calm >= 2
      BY <1>0, <1>1, <1>5
    <3>2. ScansTrue /\ LoopTable /\ LoopTrue /\ EndTrue
      BY <3>1 DEF FirstRun
    <3>3. Found /\ LoopAlike /\ EndAlike
      BY <3>1 DEF NextRun
    <3> QED BY <3>2, <3>3
  <2>1. CASE LoadState
    <3>1. pc = "scanL" /\ pc' = "item"
      BY <2>1 DEF LoadState
    <3> QED BY <1>2, <2>0, <2>1, <3>1, NextRunBegins
  <2>2. CASE \/ ScanRemoteDone
             \/ \E d \in Path \cup {Root} : ScanRemote(d) \/ ScanLocal(d)
    <3>1. /\ pc \in {"scanR", "scanL"} /\ pc' \in {"scanR", "scanL"} /\ UNCHANGED <<rem, st>>
          /\ \A p \in Plain : loc'[p] = loc[p]
      <4>1. ScanRemoteDone => UNCHANGED <<loc, rem, st>> /\ pc = "scanR" /\ pc' = "scanL"
        BY DEF ScanRemoteDone, disk, server
      <4>2. ASSUME NEW d, ScanRemote(d)
            PROVE  UNCHANGED <<loc, rem, st>> /\ pc = "scanR" /\ pc' = "scanR"
        BY <4>2 DEF ScanRemote, disk, server
      <4>3. ASSUME NEW d, ScanLocal(d)
            PROVE  /\ UNCHANGED <<rem, st>> /\ pc = "scanL" /\ pc' = "scanL"
                   /\ \A p \in Plain : loc'[p] = loc[p]
        BY <4>3 DEF ScanLocal, server, Plain
      <4> QED BY <2>2, <4>1, <4>2, <4>3
    <3>2. Found'
      BY <2>0, <3>1 DEF Mirror, Original, Plain
    <3> QED BY <3>1, <3>2 DEF LoopAlike, EndAlike, Looping
  <2>3. ASSUME NEW d \in Path \cup {Root}
        PROVE  ~ScanRemoteFails(d) /\ ~ScanRemoteEmpty(d) /\ ~ScanLocalFails(d)
    BY <1>2, <2>0, NoScanFails
  <2>4. CASE \E p \in Path : OneItem(p)
    <3>1. pc' \in Looping
      BY <1>0, <1>2, <2>4, ItemFrame
    <3>2. LoopAlike'
      BY <1>2, <2>0, <2>4, NextRunItem
    <3> QED BY <3>1, <3>2 DEF EndAlike, Looping
  <2>5. CASE \/ LeaveLoop \/ LeaveRemovals \/ Save
             \/ \E p \in Path : RemoveFolder(p) \/ RemoveDrawer(p)
    <3>1. pc' \in {"rmdir", "save", "idle"}
      BY <1>2, <2>0, <2>5, FirstRunCloses
    <3>2. EndAlike'
      BY <1>2, <2>0, <2>5, NextRunCloses
    <3> QED BY <3>1, <3>2 DEF LoopAlike, Looping
  <2> QED BY <1>5, <2>1, <2>2, <2>3, <2>4, <2>5, EngineCases
<1> QED BY <1>0, <1>2, <1>3, <1>4, <1>5, QuietStep

(***************************************************************************)
(* The runs after it                                                       *)
(***************************************************************************)
\* To note what is noted already changes nothing.
LEMMA NotedAlready ==
  ASSUME Typed, NEW p \in Path,
         \/ Known(p) /\ ss[p].known
         \/ Record(p, NoEntry) /\ ss[p] = NoEntry
  PROVE  ss' = ss
<1>0. ss \in [Path -> StateEntry]
  BY DEF Typed
<1>1. ss[p].known => [ss[p] EXCEPT !.known = TRUE] = ss[p]
  BY <1>0 DEF StateEntry
<1>2. ss' = [ss EXCEPT ![p] = ss[p]]
  BY <1>1 DEF Known, Record
<1> QED BY <1>0, <1>2

\* Below a folder that has gone on the server nothing can be made there.
LEMMA Blocked ==
  ASSUME Tree(rem), NEW p \in Path, NEW d \in Above[p], rem[d].kind = "none"
  PROVE  ~IsDir(rem, Parent[p])
<1>1. Parent[p] # Root /\ Parent[p] \in Path /\ Above[p] = {Parent[p]} \cup Above[Parent[p]]
  BY TreeAssumption
<1>2. SUFFICES ASSUME rem[Parent[p]].kind = "dir" PROVE FALSE
  BY <1>1 DEF IsDir
<1>3. d # Parent[p]
  BY <1>2
<1>4. rem[d].kind = "dir"
  BY <1>1, <1>2, <1>3, AboveAreDirs
<1> QED BY <1>4

\* The loop passes over every item.
LEMMA StillItem ==
  ASSUME Settling, Bare, TypeOK, KindsHold, TableClean, LoopTable, LoopTrue, LoopAlike,
         Unmoved, \A q \in Plain : Settled(q), NEW p \in Path, OneItem(p), calm' # 0
  PROVE  /\ UNCHANGED <<loc, rem, ss>> /\ pc' = "item"
         /\ \/ rmd' = rmd
            \/ /\ p \in Plain /\ Kept(st[p], p)
               /\ rmd' = [rmd EXCEPT ![p] = "local"]
<1>0. /\ Typed /\ Tree(rem) /\ loc[p].kind \in Kinds /\ rem[p].kind \in Kinds
  BY DEF TypeOK, Typed, LocalNode, RemoteNode
<1>1. pc = "item" /\ ss = st
  BY <1>0, ItemFrame DEF Unmoved, Looping
<1>2. CASE SkipBadName(p)
  BY <1>2 DEF SkipBadName, Advance, disk, server, table
<1>3. CASE ~SkipBadName(p)
  <2>1. At("item", p) /\ Class[p] # "bad"
    BY <1>1, <1>3 DEF OneItem, KeepDir, DeferRemoval, MakeDrawer, MakeFolder, Abort, KeepFile,
       Forget, DeleteRemote, DeleteLocal, Download, KeepConflictCopy, Get, GetFails, Swap,
       Install, InstallFails, Stamp, Upload, UploadFails, Tag, DirItem, FileItem, At
  <2>2. p \in Plain
    BY <2>1 DEF Bare, Plain
  <2>3. /\ Alike(ss[p], p) /\ (OnlyHere(p) => Stuck(p))
    BY <1>1, <2>2 DEF Settled
  <2>4. /\ TrueThere(p) /\ TrueHere(p)
        /\ rem[p].kind # "none" => ss[p].known /\ loc[p].kind = rem[p].kind
        /\ OnServer(p) <=> rem[p].kind # "none"
        /\ OnAmiga(p) <=> loc[p].kind # "none"
        /\ ~IsDirItem(p) => ~RChanged(p)
    BY <2>1, <2>2, NextItem
  <2>5. ASSUME IsDirItem(p) PROVE loc[p].kind # "file" /\ rem[p].kind # "file"
    BY <1>0, <2>4, <2>5 DEF IsDirItem, TrueThere, TrueHere, KindsHold, KindFits
  <2>6. ASSUME ~IsDirItem(p) PROVE loc[p].kind # "dir" /\ rem[p].kind # "dir"
    BY <2>4, <2>6 DEF IsDirItem, TrueThere, TrueHere
  <2>7. (OnlyHere(p) /\ (loc[p].kind = "dir" => ~ss[p].known)) => ~IsDir(rem, Parent[p])
    <3>1. SUFFICES ASSUME OnlyHere(p), loc[p].kind = "dir" => ~ss[p].known
                   PROVE  ~IsDir(rem, Parent[p])
      OBVIOUS
    <3>2. PICK d \in Above[p] \cup {p} : loc[d].kind = "dir" /\ rem[d].kind = "none" /\ st[d].known
      BY <2>3, <3>1 DEF Stuck
    <3>3. d \in Above[p]
      BY <1>1, <3>1, <3>2
    <3> QED BY <1>0, <3>2, <3>3, Blocked
  <2>8. CASE KeepDir(p)
    <3>1. UNCHANGED <<loc, rem, rmd>> /\ pc' = "item" /\ Known(p) /\ ss[p].known
      BY <2>4, <2>8 DEF KeepDir, disk, server, Advance
    <3>2. ss' = ss
      BY <1>0, <3>1, NotedAlready
    <3> QED BY <1>1, <3>1, <3>2
  <2>9. CASE DeferRemoval(p)
    <3>1. /\ UNCHANGED <<loc, rem, ss>> /\ pc' = "item" /\ ss[p].known /\ IsDirItem(p)
          /\ ~(OnServer(p) /\ OnAmiga(p))
          /\ rmd' = [rmd EXCEPT ![p] = IF OnServer(p) THEN "remote" ELSE "local"]
      BY <2>9 DEF DeferRemoval, disk, server, Advance, DirItem
    <3>2. ~OnServer(p) /\ rem[p].kind = "none" /\ loc[p].kind = "dir"
      BY <1>0, <2>4, <2>5, <3>1 DEF IsDirItem, OnServer, OnAmiga, Kinds
    <3> QED BY <1>1, <2>2, <3>1, <3>2 DEF Kept
  <2>10. ~MakeDrawer(p)
    BY <2>4 DEF MakeDrawer
  <2>11. CASE MakeFolder(p)
    <3>1. /\ UNCHANGED <<loc, rmd>> /\ pc' = "item" /\ ~ss[p].known /\ IsDirItem(p)
          /\ ~OnServer(p) /\ OnAmiga(p)
      BY <2>11 DEF MakeFolder, disk, DirItem, Advance
    <3>2. rem[p].kind = "none" /\ ~IsDir(rem, Parent[p])
      BY <2>4, <2>7, <3>1 DEF OnlyHere
    <3> QED BY <2>11, <3>1, <3>2 DEF MakeFolder, Fault
  <2>12. ~Abort(p)
    BY DEF Abort, Fault
  <2>13. CASE KeepFile(p)
    <3>1. UNCHANGED <<loc, rem, rmd>> /\ pc' = "item" /\ Known(p) /\ ss[p].known
      BY <2>4, <2>13 DEF KeepFile, disk, server, Advance
    <3>2. ss' = ss
      BY <1>0, <3>1, NotedAlready
    <3> QED BY <1>1, <3>1, <3>2
  <2>14. CASE Forget(p)
    <3>1. /\ UNCHANGED <<loc, rem, rmd>> /\ pc' = "item" /\ Record(p, NoEntry)
          /\ ~OnServer(p) /\ ~OnAmiga(p)
      BY <2>14 DEF Forget, disk, server, Advance
    <3>2. ss[p] = NoEntry
      BY <2>3, <2>4, <3>1 DEF Alike, TableClean
    <3>3. ss' = ss
      BY <1>0, <3>1, <3>2, NotedAlready
    <3> QED BY <1>1, <3>1, <3>3
  <2>15. ~DeleteRemote(p) /\ ~DeleteLocal(p)
    <3>1. ~DeleteRemote(p)
      BY <2>4 DEF DeleteRemote
    <3>2. ~DeleteLocal(p)
      <4>1. DeleteLocal(p) => /\ ~IsDirItem(p) /\ ~OnServer(p) /\ OnAmiga(p)
                              /\ ss[p].known /\ sl[p].stamp = ss[p].stamp
        BY DEF DeleteLocal, FileItem, LChanged
      <4> QED BY <1>0, <2>3, <2>4, <2>6, <4>1 DEF Alike, TrueHere, Kinds
    <3> QED BY <3>1, <3>2
  <2>16. ~Download(p) /\ ~KeepConflictCopy(p)
    BY <2>4 DEF Download, KeepConflictCopy, FileItem
  <2>17. ~Upload(p)
    <3>1. SUFFICES ASSUME Upload(p) PROVE FALSE
      OBVIOUS
    <3>2. /\ ~IsDirItem(p) /\ LChanged(p) /\ OnAmiga(p) /\ loc[p].kind = "file"
          /\ IsDir(rem, Parent[p])
      BY <3>1 DEF Upload, FileItem, LChanged, PutAccepted
    <3>3. rem[p].kind = "file"
      BY <1>0, <2>6, <2>7, <3>2 DEF OnlyHere, Kinds
    <3> QED BY <2>3, <2>4, <3>2, <3>3 DEF Alike, LChanged, TrueHere
  <2>18. CASE UploadFails(p)
    <3>1. Advance(p) /\ UNCHANGED <<loc, rem, ss>>
      BY <2>2, <2>18, PutRefused
    <3> QED BY <2>18, <3>1 DEF UploadFails, table, Advance
  <2>19. /\ ~Get(p) /\ ~GetFails(p) /\ ~Swap(p) /\ ~Install(p) /\ ~InstallFails(p)
         /\ ~Stamp(p) /\ ~Tag(p)
    BY <1>1 DEF Get, GetFails, Swap, Install, InstallFails, Stamp, Tag, At
  <2> QED BY <1>3, <2>8, <2>9, <2>10, <2>11, <2>12, <2>13, <2>14, <2>15, <2>16, <2>17,
             <2>18, <2>19 DEF OneItem
<1> QED BY <1>2, <1>3

\* So does the rest of the run.
LEMMA StillRun ==
  ASSUME Settling, Bare, TypeOK, KindsHold, TableClean, Engine, calm' # 0,
         ScansTrue, LoopTable, LoopTrue, LoopAlike,
         Unmoved, \A q \in Plain : Settled(q)
  PROVE  UNCHANGED <<loc, rem, st>> /\ Unmoved'
<1>0. /\ Typed /\ loc \in [Path -> LocalNode] /\ rmd \in [Path -> {"no", "local", "remote"}]
  BY DEF TypeOK, Typed
<1>1. CASE LoadState
  <2>1. /\ pc' = "item" /\ ss' = st /\ st' = st /\ UNCHANGED <<loc, rem>>
        /\ \A p \in Path : rmd'[p] = "no"
    BY <1>1, LoadedTrue
  <2> QED BY <2>1 DEF Unmoved
<1>2. CASE ScanRemoteDone \/ \E d \in Path \cup {Root} : ScanRemote(d)
  <2>1. UNCHANGED <<loc, rem, st>> /\ pc' \in {"scanR", "scanL"}
    BY <1>2 DEF ScanRemoteDone, ScanRemote, disk, server
  <2> QED BY <2>1 DEF Unmoved, Looping
<1>3. ASSUME NEW d, ScanLocal(d)
      PROVE  UNCHANGED <<loc, rem, st>> /\ Unmoved'
  <2>1. UNCHANGED <<rem, st>> /\ pc' = "scanL"
    BY <1>3 DEF ScanLocal, server
  <2>2. loc' = [q \in Path |-> loc[q]]
    BY <1>3 DEF ScanLocal, Bare
  <2> QED BY <1>0, <2>1, <2>2 DEF Unmoved, Looping
<1>4. ASSUME NEW d \in Path \cup {Root}
      PROVE  ~ScanRemoteFails(d) /\ ~ScanRemoteEmpty(d) /\ ~ScanLocalFails(d)
  BY NoScanFails
<1>5. ASSUME NEW p \in Path, OneItem(p) PROVE UNCHANGED <<loc, rem, st>> /\ Unmoved'
  <2>1. /\ UNCHANGED <<loc, rem, ss>> /\ pc' = "item"
        /\ \/ rmd' = rmd
           \/ /\ p \in Plain /\ Kept(st[p], p)
              /\ rmd' = [rmd EXCEPT ![p] = "local"]
    BY <1>5, StillItem
  <2>2. st' = st /\ pc \in Looping
    BY <1>0, <1>5, ItemFrame
  <2>3. ASSUME NEW q \in Path
        PROVE  rmd'[q] # "remote" /\ (rmd'[q] = "local" => q \in Plain /\ Kept(st[q], q))
    BY <1>0, <2>1, <2>2 DEF Unmoved
  <2>4. ss' = st'
    BY <2>1, <2>2 DEF Unmoved
  <2> QED BY <2>1, <2>2, <2>3, <2>4 DEF Unmoved, Kept, Plain
<1>6. CASE LeaveLoop \/ LeaveRemovals
  <2>1. UNCHANGED <<loc, rem, st, ss, rmd>> /\ pc \in {"item", "rmdir"} /\ pc' \in {"rmdir", "save"}
    BY <1>6 DEF LeaveLoop, LeaveRemovals, disk, server, table
  <2> QED BY <2>1 DEF Unmoved, Kept, Looping, Plain
<1>7. CASE Save
  <2>1. UNCHANGED <<loc, rem>> /\ st' = ss /\ pc = "save" /\ pc' = "idle"
    BY <1>7 DEF Save, server, FreeTable, Fault
  <2> QED BY <2>1 DEF Unmoved, Looping
<1>8. ASSUME NEW p \in Path, RemoveFolder(p) \/ RemoveDrawer(p)
      PROVE  UNCHANGED <<loc, rem, st>> /\ Unmoved'
  <2>1. pc = "rmdir" /\ pc' = "rmdir" /\ rmd' = rmd /\ st' = st
    BY <1>8 DEF RemoveFolder, RemoveDrawer, disk
  <2>2. ss = st /\ rmd[p] # "remote"
    BY <2>1 DEF Unmoved
  <2>3. /\ rmd[p] = "local" /\ loc' = Deleted(p) /\ rem' = rem
        /\ ~Deletable(p) => Known(p)
    BY <1>8, <2>2 DEF RemoveFolder, RemoveDrawer, server, Fault
  <2>4. p \in Plain /\ Kept(st[p], p)
    BY <2>1, <2>3 DEF Unmoved
  <2>5. ~Deletable(p) /\ ss[p].known
    BY <2>2, <2>4 DEF Settled, Full, Kept, Deletable
  <2>6. ss' = ss
    BY <1>0, <2>3, <2>5, NotedAlready
  <2>7. loc' = loc
    <3>1. loc' = [loc EXCEPT ![p] = loc[p]]
      BY <2>3, <2>5 DEF Deleted
    <3> QED BY <1>0, <3>1
  <2> QED BY <2>1, <2>2, <2>3, <2>6, <2>7 DEF Unmoved, Kept, Plain
<1> QED BY <1>1, <1>2, <1>3, <1>4, <1>5, <1>6, <1>7, <1>8, EngineCases

\* The third quiet run and all that follow it change nothing.
LEMMA StillStep ==
  ASSUME Settling, TypeOK, KindsHold, TableClean, FirstRun, NextRun, Still, [Next]_vars,
         calm' > 2, Bare
  PROVE  /\ (\A p \in Plain : Settled(p)) /\ calm >= 2
         /\ UNCHANGED <<loc, rem, st>> /\ Unmoved'
<1>0. Typed /\ calm \in Nat /\ calm' # 0
  BY DEF TypeOK, Typed
<1>1. CASE Start /\ calm' \in {calm, calm + 1}
  <2>1. pc = "idle" /\ pc' = "scanR" /\ UNCHANGED <<loc, rem, st>> /\ calm >= 2
    BY <1>0, <1>1 DEF Start, disk, server
  <2>2. \A p \in Plain : Settled(p)
    BY <2>1 DEF NextRun, EndAlike
  <2> QED BY <2>1, <2>2 DEF Unmoved, Looping
<1>2. ASSUME calm' = calm
      PROVE  /\ calm > 2 /\ calm >= 2 /\ calm >= 1
             /\ (\A p \in Plain : Settled(p)) /\ Unmoved
  <2>1. calm > 2 /\ calm >= 2 /\ calm >= 1
    BY <1>0, <1>2
  <2> QED BY <2>1 DEF Still
<1>3. CASE Engine /\ calm' = calm
  <2>1. ScansTrue /\ LoopTable /\ LoopTrue /\ LoopAlike
    BY <1>2, <1>3 DEF FirstRun, NextRun
  <2> QED BY <1>0, <1>2, <1>3, <2>1, StillRun
<1>4. CASE UNCHANGED vars
  <2>1. calm' = calm /\ pc' = pc /\ UNCHANGED <<loc, rem, st, ss, rmd>>
    BY <1>4 DEF vars, disk, server, table, meters
  <2> QED BY <1>2, <2>1 DEF Unmoved, Kept, Plain
<1> QED BY <1>0, <1>1, <1>3, <1>4, QuietStep

LEMMA StillKeeps ==
  ASSUME Settling, TypeOK, KindsHold, TableClean, FirstRun, NextRun, Still, [Next]_vars
  PROVE  Still'
<1>1. SUFFICES ASSUME calm' > 2, Bare
               PROVE  (\A p \in Plain : Settled(p))' /\ Unmoved'
  BY DEF Still, Bare
<1>2. /\ \A p \in Plain : Settled(p)
      /\ UNCHANGED <<loc, rem, st>> /\ Unmoved'
  BY <1>1, StillStep
<1> QED BY <1>2 DEF Settled, Alike, OnlyHere, Stuck, Full, Kept, Inside, Plain

(***************************************************************************)
(* The theorems                                                            *)
(***************************************************************************)
SettleInv == KindsHold /\ TableClean /\ FirstRun /\ NextRun /\ Still

\* SettleInv is inductive, once the types are right: in an orderly folder (see
\* Settling) each run leaves what the next one begins with.
THEOREM SettleInvariant ==
  ASSUME Settling
  PROVE  Spec => []SettleInv
<1>1. ASSUME Init PROVE SettleInv
  <2>1. calm = 0
    BY <1>1 DEF Init
  <2>2. FirstRun /\ NextRun /\ Still
    BY <2>1 DEF FirstRun, NextRun, Still
  <2> QED BY <1>1, <2>2, InitKinds, InitClean DEF SettleInv
<1>2. ASSUME TypeOK, SettleInv, [Next]_vars PROVE SettleInv'
  BY <1>2, KindsHoldStep, TableCleanStep, FirstRunStep, NextRunStep, StillKeeps DEF SettleInv
<1>3. TypeOK /\ SettleInv /\ [Next]_vars => SettleInv'
  BY <1>2
<1> QED BY <1>1, <1>3, TypeInvariant, PTL DEF Spec

\* After Settle quiet runs, and at least two, every path has the same on both
\* sides and in the state file, or here what a broken GET has made of it, or
\* is below a drawer that has gone on the server and is not empty here --
\* whatever users, faults and crashes have done before them, as long as they
\* kept out of the two gaps Orderly names.
THEOREM ConvergesOrSticks ==
  ASSUME Settling
  PROVE  Spec => []ConvergedOrStuck
<1>1. ASSUME TypeOK, StateSound, SettleInv PROVE ConvergedOrStuck
  <2>1. SUFFICES ASSUME calm >= Settle, pc = "idle", NEW p \in Path, Class[p] = "plain"
                 PROVE  InStep(p) \/ Stuck(p)
    BY DEF ConvergedOrStuck
  <2>2. calm >= 2
    BY <1>1, <2>1, BoundAssumption DEF Settling, TypeOK, Typed
  <2>3. Alike(st[p], p) /\ (OnlyHere(p) => Stuck(p))
    BY <1>1, <2>1, <2>2 DEF SettleInv, NextRun, EndAlike, Settled, Plain
  <2>4. loc[p].kind \in Kinds /\ rem[p].kind \in Kinds /\ st[p].known \in BOOLEAN
    BY <1>1 DEF TypeOK, Typed, LocalNode, RemoteNode, StateEntry
  <2>5. CASE rem[p].kind = "none"
    BY <2>3, <2>4, <2>5 DEF Alike, OnlyHere, InStep
  <2>6. CASE rem[p].kind # "none"
    <3>1. loc[p].kind = rem[p].kind /\ st[p].known
      BY <2>3, <2>6 DEF Alike
    <3>2. loc[p].kind = "file" => Agrees(st[p], p)
      BY <2>3, <3>1 DEF Alike, Agrees
    <3>3. loc[p].kind = "file" /\ Original(p) => CopyOf(loc[p].data, rem[p].data)
      BY <1>1, <3>2 DEF StateSound
    <3> QED BY <2>6, <3>1, <3>2, <3>3 DEF InStep
  <2> QED BY <2>5, <2>6
<1>2. Spec => []StateSound
  BY StateSoundness DEF Settling
<1>3. TypeOK /\ StateSound /\ SettleInv => ConvergedOrStuck
  BY <1>1
<1> QED BY <1>2, <1>3, TypeInvariant, SettleInvariant, PTL

\* In a folder without drawers nothing can be held up: every path has the
\* same on both sides, or here what a broken GET has made of it.
THEOREM Converges ==
  ASSUME Settling, \A p \in Path : "dir" \notin KindsOf[p]
  PROVE  Spec => []Converged
<1>1. ASSUME KindsHold, ConvergedOrStuck PROVE Converged
  <2>1. ASSUME NEW p \in Path PROVE ~Stuck(p)
    <3>1. Above[p] \subseteq Path
      BY TreeAssumption
    <3>2. \A d \in Path : loc[d].kind # "dir"
      BY <1>1 DEF KindsHold, KindFits
    <3> QED BY <2>1, <3>1, <3>2 DEF Stuck
  <2> QED BY <1>1, <2>1 DEF ConvergedOrStuck, Converged
<1>2. SettleInv /\ ConvergedOrStuck => Converged
  BY <1>1 DEF SettleInv
<1> QED BY <1>2, SettleInvariant, ConvergesOrSticks, PTL

\* And the runs after them write nothing, here, there or in the state file,
\* where no name is one the engine passes over.
THEOREM LaterRunsAreQuiet ==
  ASSUME Settling, Bare
  PROVE  Spec => SecondRunQuiet
<1>1. ASSUME TypeOK, SettleInv, [Next]_vars, calm > Settle, calm' > Settle
      PROVE  UNCHANGED <<loc, rem, st>>
  <2>1. calm' > 2
    <3>1. calm' \in Nat
      BY <1>1, TypeOKStep DEF TypeOK, Typed
    <3> QED BY <1>1, <3>1, BoundAssumption DEF Settling
  <2> QED BY <1>1, <2>1, StillStep DEF SettleInv
<1>2. TypeOK /\ SettleInv /\ [Next]_vars
        => [(calm > Settle /\ calm' > Settle) => UNCHANGED <<loc, rem, st>>]_vars
  BY <1>1
<1> QED BY <1>2, TypeInvariant, SettleInvariant, PTL DEF Spec, SecondRunQuiet
=============================================================================
