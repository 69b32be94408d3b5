----------------------------- MODULE NsSyncLoss -----------------------------
(***************************************************************************)
(* LossConfined, for any folder and any bounds: short of what has lain in  *)
(* a conflict copy, or in a folder deleted on the server, or was mangled   *)
(* by a broken GET, no run, fault or crash takes the last copy of a        *)
(* version a user counts on.  The invariant that carries it is LossInv,    *)
(* and the conditions it needs are Careful.                                *)
(* It also shows what the deletions on the server are founded on.          *)
(***************************************************************************)
EXTENDS NsSyncProofs, NsCounting

(***************************************************************************)
(* Folders                                                                 *)
(***************************************************************************)
\* Of any paths there is one that comes before the others.
LEMMA LeastRank ==
  ASSUME NEW T \in SUBSET Path, T # {}
  PROVE  \E p \in T : \A q \in T : Rank[p] <= Rank[q]
<1>1. {Rank[p] : p \in T} \subseteq Nat /\ {Rank[p] : p \in T} # {}
  BY Ranks
<1>2. \E m \in {Rank[p] : p \in T} : \A k \in {Rank[p] : p \in T} : m <= k
  BY <1>1, LeastNumber
<1> QED BY <1>2

\* A folder comes before what is in it ...
LEMMA AboveRank ==
  ASSUME NEW p \in Path, NEW q \in Above[p]
  PROVE  Rank[q] < Rank[p]
<1> DEFINE Odd == {x \in Path : \E y \in Above[x] : ~(Rank[y] < Rank[x])}
<1>1. SUFFICES ASSUME Odd # {} PROVE FALSE
  OBVIOUS
<1>2. PICK x \in Odd : \A y \in Odd : Rank[x] <= Rank[y]
  <2>1. Odd \in SUBSET Path
    OBVIOUS
  <2> HIDE DEF Odd
  <2> QED BY <1>1, <2>1, LeastRank
<1>3. PICK y \in Above[x] : ~(Rank[y] < Rank[x])
  OBVIOUS
<1>4. /\ Parent[x] # Root /\ Parent[x] \in Path /\ Rank[Parent[x]] < Rank[x]
      /\ Above[x] = {Parent[x]} \cup Above[Parent[x]] /\ y \in Path
  BY <1>3, TreeAssumption
<1>5. y # Parent[x] /\ y \in Above[Parent[x]]
  BY <1>3, <1>4
<1>6. Parent[x] \notin Odd
  BY <1>2, <1>4, Ranks
<1>7. Rank[y] < Rank[Parent[x]]
  BY <1>4, <1>5, <1>6
<1> QED BY <1>3, <1>4, <1>7, Ranks

\* ... on the way down to a path each folder has the next one in it ...
LEMMA StepDown ==
  ASSUME NEW p \in Path, NEW d, d = Root \/ d \in Above[p], Parent[p] # d
  PROVE  \E k \in Above[p] : Parent[k] = d
<1> DEFINE On(x) == d = Root \/ d \in Above[x]
           Odd == {x \in Path : On(x) /\ Parent[x] # d /\ ~\E k \in Above[x] : Parent[k] = d}
<1>1. SUFFICES ASSUME Odd # {} PROVE FALSE
  OBVIOUS
<1>2. PICK x \in Odd : \A y \in Odd : Rank[x] <= Rank[y]
  <2>1. Odd \in SUBSET Path
    OBVIOUS
  <2> HIDE DEF Odd
  <2> QED BY <1>1, <2>1, LeastRank
<1>3. /\ Parent[x] # Root /\ Parent[x] \in Path /\ Rank[Parent[x]] < Rank[x]
      /\ Above[x] = {Parent[x]} \cup Above[Parent[x]]
  BY TreeAssumption
<1>4. On(Parent[x])
  BY <1>3
<1>5. Parent[Parent[x]] # d
  BY <1>3
<1>6. Parent[x] \notin Odd
  BY <1>2, <1>3, Ranks
<1>7. \E k \in Above[Parent[x]] : Parent[k] = d
  BY <1>3, <1>4, <1>5, <1>6
<1> QED BY <1>3, <1>7

\* ... and in a tree what is above something is a directory.
LEMMA AboveAreDirs ==
  ASSUME NEW side, Tree(side), NEW p \in Path, side[p].kind # "none", NEW q \in Above[p]
  PROVE  side[q].kind = "dir"
<1> DEFINE Odd == {x \in Path : side[x].kind # "none"
                                  /\ \E y \in Above[x] : side[y].kind # "dir"}
<1>1. SUFFICES ASSUME Odd # {} PROVE FALSE
  OBVIOUS
<1>2. PICK x \in Odd : \A y \in Odd : Rank[x] <= Rank[y]
  <2>1. Odd \in SUBSET Path
    OBVIOUS
  <2> HIDE DEF Odd
  <2> QED BY <1>1, <2>1, LeastRank
<1>3. PICK y \in Above[x] : side[y].kind # "dir"
  OBVIOUS
<1>4. /\ Parent[x] # Root /\ Parent[x] \in Path /\ Rank[Parent[x]] < Rank[x]
      /\ Above[x] = {Parent[x]} \cup Above[Parent[x]]
  BY <1>3, TreeAssumption
<1>5. side[Parent[x]].kind = "dir"
  BY <1>4 DEF Tree, IsDir
<1>6. Parent[x] \in Odd
  BY <1>3, <1>4, <1>5
<1> QED BY <1>2, <1>4, <1>6, Ranks

(***************************************************************************)
(* What a step of a run can do to one path                                 *)
(***************************************************************************)
Run == Start \/ Engine \/ Crash \/ DropState

\* On the Amiga: it stays, becomes a drawer above the item the loop is at or
\* that item itself, goes, is installed or dated by a download, or is the
\* conflict copy that goes or is made.
LEMMA LocalFate ==
  ASSUME TypeOK, Careful, CopiesKept, Run, NEW q \in Path
  PROVE  \/ loc'[q] = loc[q]
         \/ /\ loc[q].kind = "none" /\ loc'[q] = Drawer
            /\ q \in todo => MakeDrawer(q)
            /\ \E p \in Path : First(p) /\ q \in Above[p] \cup {p} /\ (q = p => sr[p].kind = "dir")
         \/ /\ loc'[q] = Absent
            /\ DeleteLocal(q) \/ Swap(q) \/ KeepConflictCopy(q) \/ RemoveDrawer(q)
         \/ Install(q) /\ loc'[q] = File(dl.data, clock)
         \/ /\ Stamp(q) /\ loc[q].kind = "file" /\ sr[q].mtime # 0
            /\ loc'[q].kind = "file" /\ loc'[q].data = loc[q].data
            /\ loc'[q].stamp = sr[q].mtime
         \/ \E p \in Path : /\ Conflict[p] = q /\ KeepConflictCopy(p)
                            /\ loc'[q] = Absent \/ (loc'[q] = loc[p] /\ loc[p].kind = "file")
<1> DEFINE Made(p) == /\ loc[q].kind = "none" /\ loc'[q] = Drawer
                      /\ First(p) /\ q \in Above[p] \cup {p}
<1>0. loc \in [Path -> LocalNode]
  BY DEF TypeOK, Typed
<1>1. CASE UNCHANGED loc
  BY <1>1
<1>2. ASSUME NEW p \in Path, NEW D, D \subseteq Above[p] \cup {p}, First(p),
             loc' \in EnsureDrawersFails(D) \/ \E k : loc' = EnsureDrawers(D, k)
      PROVE  loc'[q] = loc[q] \/ (Made(p) /\ (q = p => p \in D))
  <2>1. ASSUME NEW F, NEW k, F \subseteq Above[p] \/ F = D, loc' = EnsureDrawers(F, k)
        PROVE  loc'[q] = loc[q] \/ (Made(p) /\ (q = p => p \in D))
    <3>1. p \notin Above[p]
      BY TreeAssumption
    <3> QED BY <1>2, <2>1, <3>1 DEF EnsureDrawers
  <2>2. ASSUME NEW k \in D PROVE Above[k] \subseteq Above[p]
    BY <1>2, TreeAssumption
  <2>3. CASE loc' \in EnsureDrawersFails(D)
    <3>1. PICK k \in D : loc' = EnsureDrawers(Above[k], k)
      BY <2>3 DEF EnsureDrawersFails
    <3> QED BY <2>1, <2>2, <3>1
  <2> QED BY <1>2, <2>1, <2>3
<1>3. ASSUME NEW p \in Path, First(p), q \in todo PROVE q \notin Above[p]
  BY <1>3, AboveRank, Ranks DEF First
<1>4. ASSUME NEW p \in Path, MakeDrawer(p)
      PROVE  loc'[q] = loc[q] \/ (Made(p) /\ (q = p => sr[p].kind = "dir"))
  <2>1. First(p) /\ sr[p].kind = "dir"
    BY <1>4 DEF MakeDrawer, DirItem, At, IsDirItem, OnAmiga
  <2> QED BY <1>2, <1>4, <2>1 DEF MakeDrawer
<1>5. ASSUME NEW p \in Path, Download(p)
      PROVE  loc'[q] = loc[q] \/ (Made(p) /\ q # p)
  <2>1. First(p) /\ p \notin Above[p]
    BY <1>5, TreeAssumption DEF Download, FileItem, At
  <2> QED BY <1>2, <1>5, <2>1 DEF Download
<1>6. ASSUME NEW p \in Path, DeleteLocal(p) \/ Swap(p) \/ RemoveDrawer(p)
      PROVE  loc'[q] = loc[q] \/ (p = q /\ loc'[q] = Absent)
  BY <1>0, <1>6 DEF DeleteLocal, Swap, RemoveDrawer, Deleted
<1>7. ASSUME NEW p \in Path, Install(p)
      PROVE  loc'[q] = loc[q] \/ (p = q /\ loc'[q] = File(dl.data, clock))
  BY <1>0, <1>7 DEF Install
<1>8. ASSUME NEW p \in Path, Stamp(p)
      PROVE  \/ loc'[q] = loc[q]
             \/ /\ p = q /\ loc[q].kind = "file" /\ sr[q].mtime # 0
                /\ loc'[q].kind = "file" /\ loc'[q].data = loc[q].data
                /\ loc'[q].stamp = sr[q].mtime
  BY <1>0, <1>8 DEF Stamp, LocalNode
<1>9. ASSUME NEW p \in Path, KeepConflictCopy(p)
      PROVE  \/ loc'[q] = loc[q]
             \/ p = q /\ loc'[q] = Absent
             \/ /\ Conflict[p] = q
                /\ loc'[q] = Absent \/ (loc'[q] = loc[p] /\ loc[p].kind = "file")
  <2> DEFINE c == Conflict[p]
             cleared == IF c = NoPath THEN loc ELSE Deleted(c)
             moved == IF c # NoPath /\ cleared[c].kind = "none" /\ loc[p].kind = "file"
                      THEN [cleared EXCEPT ![c] = loc[p], ![p] = Absent] ELSE cleared
  <2>1. loc' = moved
    BY <1>9 DEF KeepConflictCopy, Careful, Fault
  <2>2. /\ cleared \in [Path -> LocalNode]
        /\ cleared[q] = loc[q] \/ (c = q /\ cleared[q] = Absent)
    <3>1. CASE c = NoPath
      BY <1>0, <3>1
    <3>2. CASE c # NoPath
      BY <1>0, <3>2, Places, LocalOperations DEF Deleted, TypeOK
    <3> QED BY <3>1, <3>2
  <2> HIDE DEF cleared
  <2> QED BY <2>1, <2>2
<1>10. ASSUME NEW d, ScanLocal(d) PROVE loc'[q] = loc[q]
  BY <1>0, <1>10 DEF ScanLocal, Careful
<1>11. Start \/ Crash \/ DropState => UNCHANGED loc
  BY DEF Start, Crash, DropState, disk
<1>12. CASE Engine
  <2>1. CASE \E p \in Path : MakeDrawer(p)
    BY <1>3, <1>4, <2>1
  <2>2. CASE \E p \in Path : Download(p)
    BY <1>3, <1>5, <2>2
  <2> QED BY <1>1, <1>6, <1>7, <1>8, <1>9, <1>10, <1>12, <2>1, <2>2, EngineLocalStep
<1> QED BY <1>1, <1>11, <1>12 DEF Run

\* On the server: it stays, becomes a folder, is uploaded, or goes, and if it
\* goes as something in a folder that is noted.
LEMMA RemoteFate ==
  ASSUME TypeOK, Run, NEW q \in Path
  PROVE  \/ rem'[q] = rem[q]
         \/ MakeFolder(q) /\ rem[q].kind = "none" /\ rem'[q] = Folder
         \/ /\ Upload(q) \/ UploadFails(q)
            /\ loc[q].kind = "file" /\ clock' = clock + 1
            /\ rem'[q] = Resource(loc[q].data, clock, sl[q].stamp)
         \/ /\ rem'[q] = Missing
            /\ \/ DeleteRemote(q) \/ RemoveFolder(q)
               \/ /\ rem[q].kind = "file" => rem[q].data \in razed'
                  /\ \E p \in Above[q] : DeleteRemote(p) \/ RemoveFolder(p)
<1>0. rem \in [Path -> RemoteNode]
  BY DEF TypeOK, Typed
<1>1. CASE UNCHANGED rem
  BY <1>1
<1>2. ASSUME NEW p \in Path, MakeFolder(p)
      PROVE  rem'[q] = rem[q] \/ (p = q /\ rem[q].kind = "none" /\ rem'[q] = Folder)
  BY <1>0, <1>2 DEF MakeFolder
<1>3. ASSUME NEW p \in Path, Upload(p) \/ UploadFails(p)
      PROVE  \/ rem'[q] = rem[q]
             \/ /\ p = q /\ loc[q].kind = "file" /\ clock' = clock + 1
                /\ rem'[q] = Resource(loc[q].data, clock, sl[q].stamp)
  <2>1. \/ rem' = rem
        \/ rem' = Stored(p) /\ clock' = clock + 1 /\ loc[p].kind = "file"
    BY <1>3 DEF Upload, UploadFails
  <2> QED BY <1>0, <2>1 DEF Stored
<1>4. ASSUME NEW p \in Path, RequestDelete(p)
      PROVE  \/ rem'[q] = rem[q]
             \/ /\ rem'[q] = Missing
                /\ p = q \/ (p \in Above[q] /\ (rem[q].kind = "file" => rem[q].data \in razed'))
  <2>1. SUFFICES ASSUME rem' # rem PROVE
           \/ rem'[q] = rem[q]
           \/ /\ rem'[q] = Missing
              /\ p = q \/ (p \in Above[q] /\ (rem[q].kind = "file" => rem[q].data \in razed'))
    OBVIOUS
  <2>2. /\ rem' = RemoteWithout(p)
        /\ razed' = razed \cup Versions(rem, {r \in Under(p) \ {p} : rem'[r].kind = "none"})
    BY <1>4, <2>1 DEF RequestDelete
  <2>3. CASE q \notin Under(p)
    BY <2>2, <2>3 DEF RemoteWithout
  <2>4. CASE q \in Under(p) /\ q # p
    <3>1. rem'[q] = Missing /\ Missing.kind = "none" /\ p \in Above[q]
      BY <2>2, <2>4 DEF RemoteWithout, Missing, Under
    <3>2. rem[q].kind = "file" => rem[q].data \in razed'
      BY <2>2, <2>4, <3>1 DEF Versions
    <3> QED BY <3>1, <3>2
  <2>5. CASE q = p
    BY <2>2, <2>5 DEF RemoteWithout, Under
  <2> QED BY <2>3, <2>4, <2>5
<1>5. Start \/ Crash \/ DropState => UNCHANGED rem
  BY DEF Start, Crash, DropState, server
<1>6. CASE Engine
  <2>1. ASSUME NEW p \in Path, DeleteRemote(p) \/ RemoveFolder(p)
        PROVE  RequestDelete(p)
    BY <2>1 DEF DeleteRemote, RemoveFolder
  <2> QED BY <1>1, <1>2, <1>3, <1>4, <1>6, <2>1, EngineRemoteStep
<1> QED BY <1>1, <1>5, <1>6 DEF Run

(***************************************************************************)
(* What a step can do to the bookkeeping and to the table                  *)
(***************************************************************************)
\* Only users change what they count on, and an edit leaves the run alone:
\* it comes between runs.
LEMMA EditStep ==
  ASSUME Careful, Users
  PROVE  /\ pc = "idle" /\ UNCHANGED <<pc, todo, table, st, razed>>
         /\ edits' # edits \/ edits \notin Nat
<1>1. \E gone, new : Edit(gone, new)
  BY DEF Users, LocalWrite, LocalMakeDrawer, LocalRemove, RemoteWrite,
         RemoteMakeFolder, RemoteRemove
<1>2. pc \in LocalWindow \cup RemoteWindow
  BY DEF Users, LocalWrite, LocalMakeDrawer, LocalRemove, RemoteWrite,
         RemoteMakeFolder, RemoteRemove
<1>3. pc = "idle"
  BY <1>2 DEF Careful
<1> QED BY <1>1, <1>3 DEF Edit

\* A run changes nothing of what users count on, and forgets no version that
\* went with a folder.
LEMMA RunLedger ==
  ASSUME Run
  PROVE  owed' = owed /\ razed \subseteq razed'
<1>1. \A k : Fault(k) \/ NoFault => owed' = owed
  BY DEF Fault, NoFault, meters
<1>2. \A p : RequestDelete(p) => owed' = owed /\ razed \subseteq razed'
  BY <1>1 DEF RequestDelete
<1>3. Scan => owed' = owed /\ razed' = razed
  BY <1>1 DEF Scan, ScanRemoteDone, LoadState, ScanRemote, ScanRemoteFails, ScanRemoteEmpty,
         ScanLocal, ScanLocalFails, server
<1>4. Directories => owed' = owed /\ razed' = razed
  BY <1>1 DEF Directories, KeepDir, DeferRemoval, MakeDrawer, MakeFolder, server
<1>5. Files => owed' = owed /\ razed \subseteq razed'
  BY <1>1, <1>2 DEF Files, SkipBadName, Abort, KeepFile, Forget, DeleteRemote,
         DeleteLocal, server
<1>6. Downloads => owed' = owed /\ razed' = razed
  BY <1>1 DEF Downloads, Download, KeepConflictCopy, Get, GetFails, Swap, Install,
         InstallFails, Stamp, server
<1>7. Uploads => owed' = owed /\ razed' = razed
  BY <1>1 DEF Uploads, Upload, UploadFails, Tag, server
<1>8. Finish => owed' = owed /\ razed \subseteq razed'
  BY <1>1, <1>2 DEF Finish, LeaveLoop, LeaveRemovals, Save, RemoveFolder,
         RemoveDrawer, server
<1>9. Start \/ Crash \/ DropState => owed' = owed /\ razed' = razed
  BY <1>1 DEF Start, Crash, DropState, server
<1> QED BY <1>3, <1>4, <1>5, <1>6, <1>7, <1>8, <1>9 DEF Run, Engine

\* A step of the main loop is about the first item, and changes nothing that
\* the table says of the others.
LEMMA LoopStep ==
  ASSUME Typed, Run, pc' \in Looping
  PROVE  /\ UNCHANGED <<st, sr, sl>>
         /\ \/ LoadState
            \/ \E p \in Path :
                 /\ First(p) /\ pc \in Looping
                 /\ \/ Advance(p) /\ \A q \in Path \ {p} : ss'[q] = ss[q] /\ rmd'[q] = rmd[q]
                    \/ todo' = todo /\ pc' # "item" /\ UNCHANGED <<ss, rmd>>
<1> DEFINE Only(p) == \A q \in Path \ {p} : ss'[q] = ss[q]
<1>0. ss \in [Path -> StateEntry] /\ rmd \in [Path -> {"no", "local", "remote"}]
  BY DEF Typed
<1>1. \A p \in Path : \A e : Record(p, e) => Only(p)
  BY <1>0 DEF Record
<1>2. \A p \in Path : Known(p) \/ KnownDir(p) \/ UNCHANGED ss => Only(p)
  BY <1>1 DEF Known, KnownDir
<1>3. \A p \in Path : RequestDelete(p) => Only(p)
  BY <1>1, <1>2 DEF RequestDelete
<1> HIDE DEF Only
<1>4. ~Start /\ ~Crash /\ ~DropState
  BY DEF Start, Crash, DropState, FreeTable, Looping
<1>5. Scan => LoadState /\ UNCHANGED <<st, sr, sl>>
  BY DEF Scan, ScanRemoteDone, LoadState, ScanRemote, ScanRemoteFails, ScanRemoteEmpty,
         ScanLocal, ScanLocalFails, FreeTable, Looping, disk
<1>6. ASSUME NEW p \in Path, KeepDir(p) \/ DeferRemoval(p) \/ MakeDrawer(p) \/ MakeFolder(p)
      PROVE  /\ First(p) /\ pc = "item" /\ Advance(p) /\ Only(p)
             /\ \A q \in Path \ {p} : rmd'[q] = rmd[q]
             /\ UNCHANGED <<st, sr, sl>>
  BY <1>0, <1>2, <1>6 DEF KeepDir, DeferRemoval, MakeDrawer, MakeFolder, DirItem, At, disk
<1>7. ASSUME NEW p \in Path,
             \/ SkipBadName(p) \/ Abort(p) \/ KeepFile(p) \/ Forget(p)
             \/ DeleteRemote(p) \/ DeleteLocal(p)
      PROVE  /\ First(p) /\ pc = "item" /\ Advance(p) /\ Only(p)
             /\ UNCHANGED <<st, sr, sl, rmd>>
  <2>1. ~Abort(p)
    BY DEF Abort, Looping
  <2> QED BY <1>1, <1>2, <1>3, <1>7, <2>1
      DEF SkipBadName, KeepFile, Forget, DeleteRemote, DeleteLocal, FileItem, At, disk, table
<1>8. ASSUME NEW p \in Path, Download(p) \/ KeepConflictCopy(p)
      PROVE  /\ First(p) /\ pc = "item" /\ pc' = "get" /\ todo' = todo
             /\ UNCHANGED <<st, sr, sl, ss, rmd>>
  BY <1>8 DEF Download, KeepConflictCopy, FileItem, At, table, Looping
<1>9. ASSUME NEW p \in Path, Get(p) \/ Swap(p) \/ Install(p)
      PROVE  /\ First(p) /\ pc \in {"get", "swap", "install"}
             /\ pc' \in {"swap", "install", "stamp"} /\ todo' = todo
             /\ UNCHANGED <<st, sr, sl, ss, rmd>>
  BY <1>9 DEF Get, Swap, Install, At, table
<1>10. ASSUME NEW p \in Path, GetFails(p) \/ InstallFails(p) \/ Stamp(p)
       PROVE  /\ First(p) /\ pc \in {"get", "install", "stamp"} /\ Advance(p) /\ Only(p)
              /\ UNCHANGED <<st, sr, sl, rmd>>
  BY <1>1, <1>2, <1>10 DEF GetFails, InstallFails, Stamp, At, table
<1>11. ASSUME NEW p \in Path, Upload(p) \/ UploadFails(p) \/ Tag(p)
       PROVE  /\ First(p) /\ pc \in {"item", "tag"}
              /\ UNCHANGED <<st, sr, sl, rmd>>
              /\ \/ Advance(p) /\ Only(p)
                 \/ todo' = todo /\ pc' = "tag" /\ ss' = ss
  BY <1>1, <1>2, <1>11 DEF Upload, UploadFails, Tag, FileItem, At, disk, table
<1>12. ~Finish
  <2>1. ~LeaveLoop /\ ~LeaveRemovals /\ ~Save
    BY DEF LeaveLoop, LeaveRemovals, Save, FreeTable, Looping
  <2>2. ASSUME NEW p \in Path PROVE ~RemoveFolder(p) /\ ~RemoveDrawer(p)
    BY DEF RemoveFolder, RemoveDrawer, Looping
  <2> QED BY <2>1, <2>2 DEF Finish
<1>13. CASE Directories
  BY <1>6, <1>13 DEF Directories, Looping, Only
<1>14. CASE Files
  BY <1>7, <1>14 DEF Files, Looping, Only
<1>15. CASE Downloads
  BY <1>8, <1>9, <1>10, <1>15 DEF Downloads, Looping, Only
<1>16. CASE Uploads
  BY <1>11, <1>16 DEF Uploads, Looping, Only
<1> QED BY <1>4, <1>5, <1>12, <1>13, <1>14, <1>15, <1>16 DEF Run, Engine

\* What an entry of the table becomes, as far as it knows anything.
LEMMA KnownStep ==
  ASSUME Typed, [Next]_vars, NEW q \in Path
  PROVE  ss'[q].known \/ ss'[q] \in {ss[q], st[q], NoEntry}
<1> DEFINE Fine == ss'[q].known \/ ss'[q] \in {ss[q], st[q], NoEntry}
<1>0. ss \in [Path -> StateEntry] /\ \A e, s : Entry(e, s).known
  BY DEF Typed, Entry
<1>1. ASSUME NEW p \in Path, NEW e, Record(p, e), e.known \/ e = NoEntry PROVE Fine
  BY <1>0, <1>1 DEF Record
<1>2. ASSUME NEW p \in Path, Known(p) \/ KnownDir(p) PROVE Fine
  <2>1. [ss[p] EXCEPT !.known = TRUE].known
    BY <1>0 DEF StateEntry
  <2> QED BY <1>0, <1>1, <1>2, <2>1 DEF Known, KnownDir
<1>3. CASE UNCHANGED ss \/ FreeTable
  BY <1>3 DEF FreeTable
<1>4. CASE LoadState
  BY <1>4 DEF LoadState
<1>5. Users \/ Scan => UNCHANGED ss \/ FreeTable \/ LoadState
  BY DEF Users, LocalWrite, LocalMakeDrawer, LocalRemove, RemoteWrite,
         RemoteMakeFolder, RemoteRemove, Edit, Scan, ScanRemoteDone, ScanRemote,
         ScanRemoteFails, ScanRemoteEmpty, ScanLocal, ScanLocalFails, table
<1>6. CASE Directories
  <2>1. UNCHANGED ss \/ \E p \in Path : Known(p) \/ KnownDir(p)
    BY <1>6 DEF Directories, KeepDir, DeferRemoval, MakeDrawer, MakeFolder
  <2> QED BY <1>2, <1>3, <2>1
<1>7. CASE Files
  <2>1. UNCHANGED ss \/ \E p \in Path : Known(p) \/ Record(p, NoEntry)
    BY <1>7 DEF Files, SkipBadName, Abort, KeepFile, Forget, DeleteRemote,
           RequestDelete, DeleteLocal, table
  <2> QED BY <1>1, <1>2, <1>3, <2>1
<1>8. CASE Downloads
  <2>1. UNCHANGED ss \/ \E p \in Path : \E e, s : Record(p, Entry(e, s))
    BY <1>8 DEF Downloads, Download, KeepConflictCopy, Get, GetFails, Swap,
           Install, InstallFails, Stamp, table
  <2> QED BY <1>0, <1>1, <1>3, <2>1
<1>9. CASE Uploads
  <2>1. UNCHANGED ss \/ \E p \in Path : \E e, s : Record(p, Entry(e, s))
    BY <1>9 DEF Uploads, Upload, UploadFails, Tag, table
  <2> QED BY <1>0, <1>1, <1>3, <2>1
<1>10. CASE Finish
  <2>1. \/ UNCHANGED ss \/ FreeTable
        \/ \E p \in Path : Known(p) \/ Record(p, NoEntry)
    BY <1>10 DEF Finish, LeaveLoop, LeaveRemovals, Save, RemoveFolder,
           RequestDelete, RemoveDrawer, table
  <2> QED BY <1>1, <1>2, <1>3, <2>1
<1>11. Start \/ Crash \/ DropState \/ UNCHANGED vars => UNCHANGED ss \/ FreeTable
  BY DEF Start, Crash, DropState, vars, table
<1> QED BY <1>3, <1>4, <1>5, <1>6, <1>7, <1>8, <1>9, <1>10, <1>11 DEF Next, Engine

\* What users do to one path, and that what they replace or delete they no
\* longer count on.
LEMMA EditFate ==
  ASSUME TypeOK, Careful, Dated, Users, NEW q \in Path
  PROVE  /\ owed' \subseteq owed \cup {clock}
         /\ \/ loc'[q] = loc[q]
            \/ /\ loc[q].kind = "file" => loc[q].data \notin owed'
               /\ \/ loc'[q] = File(clock, clock) /\ clock' = clock + 1 /\ "file" \in KindsOf[q]
                  \/ loc'[q] = Drawer /\ "dir" \in KindsOf[q]
                  \/ loc'[q] = Absent
         /\ \/ rem'[q] = rem[q]
            \/ /\ rem[q].kind = "file" => rem[q].data \notin owed'
               /\ \/ /\ \E m : rem'[q] = Resource(clock, clock, m)
                     /\ clock' = clock + 1 /\ "file" \in KindsOf[q]
                  \/ rem'[q] = Folder /\ "dir" \in KindsOf[q]
                  \/ rem'[q] = Missing
<1>0. /\ loc \in [Path -> LocalNode] /\ rem \in [Path -> RemoteNode]
      /\ clock \in Nat /\ loc[q].data < clock /\ rem[q].data < clock
      /\ loc[q].data \in Nat /\ rem[q].data \in Nat
  BY DEF TypeOK, Typed, Dated, LocalNode, RemoteNode
<1>1. ASSUME NEW side, NEW S \in SUBSET Path, NEW new, q \in S, side[q].kind = "file",
             Edit(Versions(side, S), new), new \subseteq {clock}, side[q].data # clock
      PROVE  side[q].data \notin owed'
  BY <1>1 DEF Versions, Edit
<1>2. \A gone, new : Edit(gone, new) /\ new \subseteq {clock} => owed' \subseteq owed \cup {clock}
  BY DEF Edit
<1>3. ASSUME NEW p \in Path, LocalWrite(p)
      PROVE  /\ owed' \subseteq owed \cup {clock} /\ rem'[q] = rem[q]
             /\ \/ loc'[q] = loc[q]
                \/ /\ loc[q].kind = "file" => loc[q].data \notin owed'
                   /\ loc'[q] = File(clock, clock) /\ clock' = clock + 1 /\ "file" \in KindsOf[q]
  <2>1. /\ loc' = [loc EXCEPT ![p] = File(clock, clock)] /\ "file" \in KindsOf[p]
        /\ Edit(Versions(loc, {p}), {clock}) /\ clock' = clock + 1 /\ rem' = rem
    BY <1>3 DEF LocalWrite, Careful
  <2>2. p = q => (loc[q].kind = "file" => loc[q].data \notin owed')
    BY <1>0, <1>1, <2>1
  <2> QED BY <1>0, <1>2, <2>1, <2>2
<1>4. ASSUME NEW p \in Path, LocalRemove(p)
      PROVE  /\ owed' \subseteq owed \cup {clock} /\ rem'[q] = rem[q]
             /\ \/ loc'[q] = loc[q]
                \/ /\ loc[q].kind = "file" => loc[q].data \notin owed'
                   /\ loc'[q] = Absent
  <2>1. /\ loc' = [r \in Path |-> IF r \in Under(p) THEN Absent ELSE loc[r]]
        /\ Edit(Versions(loc, Under(p)), {}) /\ rem' = rem /\ Under(p) \subseteq Path
    BY <1>4 DEF LocalRemove, Under
  <2>2. q \in Under(p) => (loc[q].kind = "file" => loc[q].data \notin owed')
    BY <1>0, <1>1, <2>1
  <2> QED BY <1>2, <2>1, <2>2
<1>5. ASSUME NEW p \in Path, LocalMakeDrawer(p)
      PROVE  /\ owed' \subseteq owed \cup {clock} /\ rem'[q] = rem[q]
             /\ \/ loc'[q] = loc[q]
                \/ loc[q].kind = "none" /\ loc'[q] = Drawer /\ "dir" \in KindsOf[q]
  BY <1>0, <1>2, <1>5 DEF LocalMakeDrawer
<1>6. ASSUME NEW p \in Path, RemoteWrite(p)
      PROVE  /\ owed' \subseteq owed \cup {clock} /\ loc'[q] = loc[q]
             /\ \/ rem'[q] = rem[q]
                \/ /\ rem[q].kind = "file" => rem[q].data \notin owed'
                   /\ \E m : rem'[q] = Resource(clock, clock, m)
                   /\ clock' = clock + 1 /\ "file" \in KindsOf[q]
  <2>1. /\ \E m : rem' = [rem EXCEPT ![p] = Resource(clock, clock, m)]
        /\ Edit(Versions(rem, {p}), {clock}) /\ clock' = clock + 1 /\ loc' = loc
        /\ "file" \in KindsOf[p]
    BY <1>6 DEF RemoteWrite
  <2>2. p = q => (rem[q].kind = "file" => rem[q].data \notin owed')
    BY <1>0, <1>1, <2>1
  <2> QED BY <1>0, <1>2, <2>1, <2>2
<1>7. ASSUME NEW p \in Path, RemoteRemove(p)
      PROVE  /\ owed' \subseteq owed \cup {clock} /\ loc'[q] = loc[q]
             /\ \/ rem'[q] = rem[q]
                \/ /\ rem[q].kind = "file" => rem[q].data \notin owed'
                   /\ rem'[q] = Missing
  <2>1. /\ rem' = RemoteWithout(p) /\ loc' = loc
        /\ Edit(Versions(rem, Under(p)), {}) /\ Under(p) \subseteq Path
    BY <1>7 DEF RemoteRemove, Under
  <2>2. q \in Under(p) => (rem[q].kind = "file" => rem[q].data \notin owed')
    BY <1>0, <1>1, <2>1
  <2> QED BY <1>2, <2>1, <2>2 DEF RemoteWithout
<1>8. ASSUME NEW p \in Path, RemoteMakeFolder(p)
      PROVE  /\ owed' \subseteq owed \cup {clock} /\ loc'[q] = loc[q]
             /\ \/ rem'[q] = rem[q]
                \/ rem[q].kind = "none" /\ rem'[q] = Folder /\ "dir" \in KindsOf[q]
  BY <1>0, <1>2, <1>8 DEF RemoteMakeFolder
<1> QED BY <1>3, <1>4, <1>5, <1>6, <1>7, <1>8 DEF Users

\* The fields of the nodes and entries the steps write.
LEMMA Shapes ==
  /\ Absent.kind = "none" /\ Absent.data = 0 /\ Absent.stamp = 0
  /\ Drawer.kind = "dir" /\ Drawer.data = 0 /\ Drawer.stamp = 0
  /\ \A d, s : File(d, s).kind = "file" /\ File(d, s).data = d /\ File(d, s).stamp = s
  /\ Missing.kind = "none" /\ Missing.data = 0 /\ Missing.etag = 0
  /\ Folder.kind = "dir" /\ Folder.data = 0 /\ Folder.etag = 0
  /\ \A d, e, m : /\ Resource(d, e, m).kind = "file" /\ Resource(d, e, m).data = d
                  /\ Resource(d, e, m).etag = e
  /\ ~NoEntry.known /\ NoEntry.etag = 0 /\ NoEntry.stamp = 0
  /\ \A e, s : Entry(e, s).known /\ Entry(e, s).etag = e /\ Entry(e, s).stamp = s
BY DEF Absent, Drawer, File, Missing, Folder, Resource, NoEntry, Entry

\* A step that is not an edit belongs to a run, or changes nothing.
LEMMA StepKinds ==
  ASSUME [Next]_vars
  PROVE  \/ Users /\ Notes
         \/ Run /\ Notes
         \/ UNCHANGED vars
BY DEF Next, Run

\* Where a step does not move there is nothing to prove.
LEMMA StillKept ==
  ASSUME LossInv, UNCHANGED vars
  PROVE  LossInv'
BY DEF LossInv, vars, disk, server, table, meters, Mirrored, Dated, CopiesKept, KindsFit,
       Scanned, Awaited, Transferred, HeldHere, HeldThere, Vital, CopiesHold, Versions,
       Nobodys, CopyOf, Garbled, SeenThere, SeenHere, Pending, NoRoom, Ahead, First

(***************************************************************************)
(* Conflict copies, versions and kinds                                     *)
(***************************************************************************)
\* What lies in a conflict copy is remembered to have lain there, and nothing
\* but files are made where conflict copies are.
LEMMA CopiesKeptStep ==
  ASSUME TypeOK, Careful, LossInv, Users \/ Run, Notes
  PROVE  CopiesKept'
<1>0. CopiesKept /\ Dated
  BY DEF LossInv
<1>1. CopiesHold(loc', rem') \subseteq copied'
  BY DEF Notes
<1>2. ASSUME NEW c \in Copies
      PROVE  /\ c \in Path /\ "dir" \notin KindsOf[c] /\ \A p \in Path : c \notin Above[p]
             /\ "dir" \notin {loc[c].kind, rem[c].kind, sl[c].kind, sr[c].kind}
  BY <1>0, <1>2 DEF Copies, Careful, CopiesKept
<1>3. ASSUME NEW c \in Copies PROVE loc'[c].kind # "dir"
  <2>1. CASE Users
    BY <1>0, <1>2, <1>3, <2>1, EditFate, Shapes
  <2>2. CASE Run
    <3>1. /\ sr[c].kind # "dir" /\ loc[c].kind # "dir"
          /\ c \in Path /\ \A p \in Path : c \notin Above[p]
      BY <1>2, <1>3
    <3> QED BY <1>0, <2>2, <3>1, LocalFate, Shapes
  <2> QED BY <2>1, <2>2
<1>4. ASSUME NEW c \in Copies PROVE rem'[c].kind # "dir"
  <2>1. CASE Users
    BY <1>0, <1>2, <1>4, <2>1, EditFate, Shapes
  <2>2. CASE Run
    <3>1. c \in Path /\ ~MakeFolder(c) /\ rem[c].kind # "dir"
      BY <1>2, <1>4 DEF MakeFolder, DirItem, IsDirItem
    <3> QED BY <2>2, <3>1, RemoteFate, Shapes
  <2> QED BY <2>1, <2>2
<1>5. [Next]_vars
  BY DEF Next, Run
<1>6. ASSUME NEW c \in Copies PROVE sl'[c].kind # "dir" /\ sr'[c].kind # "dir"
  <2>1. /\ sl'[c] \in {Absent, sl[c], [loc[c] EXCEPT !.data = 0]}
        /\ sr'[c] \in {Missing, sr[c], [rem[c] EXCEPT !.data = 0]}
    BY <1>2, <1>5, <1>6, SeenStep DEF TypeOK
  <2>2. /\ [loc[c] EXCEPT !.data = 0].kind = loc[c].kind
        /\ [rem[c] EXCEPT !.data = 0].kind = rem[c].kind
    BY <1>2, <1>6 DEF TypeOK, Typed, LocalNode, RemoteNode
  <2> QED BY <1>2, <1>6, <2>1, <2>2, Shapes
<1> QED BY <1>1, <1>3, <1>4, <1>6 DEF CopiesKept

\* Versions stay behind the clock, and files and entries keep their marks.
LEMMA DatedStep ==
  ASSUME TypeOK, Careful, Fresh, LossInv, Users \/ Run, Notes
  PROVE  Dated'
<1>0. /\ CopiesKept /\ Dated /\ Nobodys /\ Transferred /\ clock \in Nat /\ clock # 0
      /\ loc \in [Path -> LocalNode] /\ rem \in [Path -> RemoteNode]
      /\ [Next]_vars /\ Typed
  BY DEF LossInv, TypeOK, Typed, Fresh, Next, Run
<1>1. clock' \in Nat /\ clock <= clock'
  BY <1>0, ClockStep
<1>2. ASSUME NEW q \in Path
      PROVE  /\ loc[q].data \in Nat /\ rem[q].data \in Nat
             /\ loc[q].data < clock /\ rem[q].data < clock
             /\ loc[q].kind = "file" => loc[q].stamp # 0
  BY <1>0 DEF Dated, LocalNode, RemoteNode
<1>3. ASSUME NEW q \in Path, Install(q)
      PROVE  dl.data \in Nat /\ dl.data < clock /\ clock' = clock + 1
  <2>1. /\ dl.of = rem[q].data /\ clock' = clock + 1 /\ dl.data \in Nat
    BY <1>0, <1>3 DEF Install, At, Transferred, Typed
  <2>2. dl.data = dl.of \/ dl.data < clock
    BY <1>0 DEF Nobodys, CopyOf
  <2> QED BY <1>2, <2>1, <2>2
<1>4. ASSUME NEW q \in Path
      PROVE  loc'[q].data < clock' /\ (loc'[q].kind = "file" => loc'[q].stamp # 0)
  <2>1. CASE Users
    BY <1>0, <1>1, <1>2, <2>1, EditFate, Shapes
  <2>2. CASE Run
    <3>1. \/ loc'[q] \in {loc[q], Drawer, Absent}
          \/ Install(q) /\ loc'[q] = File(dl.data, clock)
          \/ loc'[q].data = loc[q].data /\ loc'[q].stamp = sr[q].mtime /\ sr[q].mtime # 0
          \/ \E p \in Path : loc'[q] = loc[p]
      BY <1>0, <2>2, LocalFate
    <3>2. CASE loc'[q] \in {loc[q], Drawer, Absent}
      BY <1>0, <1>1, <1>2, <3>2, Shapes
    <3>3. CASE Install(q) /\ loc'[q] = File(dl.data, clock)
      BY <1>0, <1>3, <3>3, Shapes
    <3>4. CASE loc'[q].data = loc[q].data /\ loc'[q].stamp = sr[q].mtime /\ sr[q].mtime # 0
      BY <1>0, <1>1, <1>2, <3>4
    <3>5. ASSUME NEW p \in Path, loc'[q] = loc[p]
          PROVE  loc'[q].data < clock' /\ (loc'[q].kind = "file" => loc'[q].stamp # 0)
      BY <1>0, <1>1, <1>2, <3>5
    <3> QED BY <3>1, <3>2, <3>3, <3>4, <3>5
  <2> QED BY <2>1, <2>2
<1>5. ASSUME NEW q \in Path PROVE rem'[q].data < clock'
  <2>1. CASE Users
    BY <1>0, <1>1, <1>2, <2>1, EditFate, Shapes
  <2>2. CASE Run
    <3>1. \/ rem'[q] \in {rem[q], Folder, Missing}
          \/ rem'[q] = Resource(loc[q].data, clock, sl[q].stamp)
      BY <2>2, RemoteFate
    <3> QED BY <1>0, <1>1, <1>2, <3>1, Shapes
  <2> QED BY <2>1, <2>2
<1>6. ASSUME NEW q \in Path
      PROVE  (~st'[q].known => st'[q].etag = 0) /\ (~ss'[q].known => ss'[q].etag = 0)
  <2>1. (~st[q].known => st[q].etag = 0) /\ (~ss[q].known => ss[q].etag = 0)
    BY <1>0 DEF Dated
  <2> QED BY <1>0, <2>1, StateStep, KnownStep, Shapes
<1> QED BY <1>4, <1>5, <1>6 DEF Dated

\* What a broken GET makes takes its number from the clock, and users count
\* on older ones.
LEMMA NobodysStep ==
  ASSUME TypeOK, Careful, LossInv, Users \/ Run, Notes
  PROVE  Nobodys'
<1>0. /\ Nobodys /\ Dated /\ clock \in Nat /\ owed \subseteq Nat
      /\ mangled \subseteq Nat \X Nat /\ Typed /\ Next
      /\ CopyOf(dl.data, dl.of)
  BY DEF LossInv, Nobodys, TypeOK, Typed, Next, Run
<1>1. clock' \in Nat /\ clock <= clock'
  BY <1>0, ClockStep
<1>2. CopyOf(dl.data, dl.of)'
  BY <1>0, MangledStep
<1>3. ASSUME NEW v \in owed' PROVE v < clock' /\ (v \in owed \/ v = clock)
  <2>1. v \in owed \/ (v = clock /\ clock' = clock + 1)
    <3>1. CASE Users
      <4>1. \E gone, new : Edit(gone, new) /\ (new = {} \/ (new = {clock} /\ clock' = clock + 1))
        BY <3>1 DEF Users, LocalWrite, LocalMakeDrawer, LocalRemove, RemoteWrite,
           RemoteMakeFolder, RemoteRemove
      <4> QED BY <1>3, <4>1 DEF Edit
    <3>2. CASE Run
      BY <1>3, <3>2, RunLedger
    <3> QED BY <3>1, <3>2
  <2>2. v \in owed => v < clock /\ v \in Nat
    BY <1>0 DEF Nobodys
  <2> QED BY <1>0, <1>1, <2>1, <2>2
<1>4. ASSUME NEW m \in mangled' PROVE m[2] < clock' /\ m[2] \notin owed'
  <2>1. CASE m \in mangled
    <3>1. m[2] < clock /\ m[2] \notin owed /\ m[2] \in Nat
      BY <1>0, <2>1 DEF Nobodys
    <3> QED BY <1>0, <1>1, <1>3, <3>1
  <2>2. CASE m \notin mangled
    <3>1. m = <<dl'.of, dl'.data>> /\ dl'.of # dl'.data
      BY <1>4, <2>2 DEF Notes
    <3>2. ~UNCHANGED dl /\ dl' # NoBody
      BY <1>0, <2>2, <3>1 DEF CopyOf, NoBody, Body
    <3>3. PICK p \in Path : Get(p)
      BY <1>0, <3>2, FetchStep
    <3>4. m[2] = clock /\ clock' = clock + 1
      BY <3>1, <3>3 DEF Get, Body
    <3>5. owed' = owed
      BY <3>3, RunLedger DEF Run, Engine, Downloads
    <3>6. m[2] \notin owed'
      BY <1>0, <3>4, <3>5 DEF Nobodys
    <3> QED BY <1>0, <3>4, <3>6
  <2> QED BY <2>1, <2>2
<1> QED BY <1>2, <1>3, <1>4 DEF Nobodys

\* Files are made where users make files, conflict copies apart.
LEMMA KindsFitStep ==
  ASSUME TypeOK, Careful, LossInv, Users \/ Run
  PROVE  KindsFit'
<1>0. /\ CopiesKept /\ Dated /\ KindsFit /\ Transferred
      /\ loc \in [Path -> LocalNode]
  BY DEF LossInv, TypeOK, Typed
<1>1. ASSUME NEW q \in Path, Original(q), "file" \notin KindsOf[q]
      PROVE  "file" \notin {loc[q].kind, rem[q].kind}
  BY <1>0, <1>1 DEF KindsFit
<1>2. ASSUME NEW q \in Path, Original(q), "file" \notin KindsOf[q]
      PROVE  loc'[q].kind # "file" /\ rem'[q].kind # "file"
  <2>1. CASE Users
    BY <1>0, <1>1, <1>2, <2>1, EditFate, Shapes
  <2>2. CASE Run
    <3>1. loc[q].kind # "file" /\ rem[q].kind # "file"
      BY <1>1, <1>2
    <3>2. ~Install(q)
      BY <1>0, <3>1 DEF Install, At, Transferred
    <3>3. loc'[q].kind # "file"
      BY <1>0, <1>2, <2>2, <3>1, <3>2, LocalFate, Shapes DEF Original
    <3>4. rem'[q].kind # "file"
      BY <2>2, <3>1, RemoteFate, Shapes
    <3> QED BY <3>3, <3>4
  <2> QED BY <2>1, <2>2
<1> QED BY <1>2 DEF KindsFit, Original

(***************************************************************************)
(* Scanning                                                                *)
(***************************************************************************)
\* A path for which there was no room in the table gets none later, and one
\* that is listed gets an item or there is no room for it.
LEMMA AdmittedRoom ==
  ASSUME tab \subseteq Path, NEW C \in SUBSET Path, NEW A \in Admitted(C), NEW p \in Path,
         tab' = tab \cup A
  PROVE  /\ NoRoom(p) => NoRoom(p)'
         /\ p \in C => p \in A \/ NoRoom(p)'
<1>1. /\ A \subseteq C /\ C \cap tab \subseteq A
      /\ Cardinality(tab \cup A) <= MaxEntries \/ A = C \cap tab
      /\ A # C => Cardinality(tab \cup A) >= MaxEntries
  BY DEF Admitted
<1>2. /\ IsFiniteSet(tab \cup A) /\ Cardinality(tab) \in Nat
      /\ Cardinality(tab \cup A) \in Nat
      /\ Cardinality(tab) <= Cardinality(tab \cup A)
      /\ Cardinality(tab) = Cardinality(tab \cup A) => tab = tab \cup A
  <2>1. IsFiniteSet(Path) /\ tab \cup A \in SUBSET Path /\ tab \in SUBSET (tab \cup A)
    BY <1>1, TreeAssumption
  <2>2. IsFiniteSet(tab \cup A)
    BY <2>1, FS_Subset
  <2>3. /\ IsFiniteSet(tab) /\ Cardinality(tab) <= Cardinality(tab \cup A)
        /\ Cardinality(tab) = Cardinality(tab \cup A) => tab = tab \cup A
    BY <2>1, <2>2, FS_Subset
  <2> QED BY <2>2, <2>3, FS_CardinalityType
<1>3. MaxEntries \in Nat
  BY BoundAssumption
<1>4. NoRoom(p) => NoRoom(p)'
  BY <1>1, <1>2, <1>3 DEF NoRoom
<1>5. p \in C /\ p \notin A => NoRoom(p)'
  BY <1>1 DEF NoRoom
<1> QED BY <1>4, <1>5

\* Outside the loop and what follows it a run only scans.
LEMMA PhaseStep ==
  ASSUME Run, pc' \notin Looping \cup {"rmdir", "save"}
  PROVE  \/ FreeTable \/ Start \/ DropState \/ ScanRemoteDone
         \/ \E d \in Path \cup {Root} :
              ScanRemote(d) \/ ScanRemoteEmpty(d) \/ ScanLocal(d) \/ ScanLocalFails(d)
<1>1. Scan => \/ FreeTable \/ ScanRemoteDone
              \/ \E d \in Path \cup {Root} :
                   ScanRemote(d) \/ ScanRemoteEmpty(d) \/ ScanLocal(d) \/ ScanLocalFails(d)
  BY DEF Scan, LoadState, ScanRemoteFails, Looping
<1>2. ~Directories
  BY DEF Directories, KeepDir, DeferRemoval, MakeDrawer, MakeFolder, Advance, Looping
<1>3. ~Files
  BY DEF Files, SkipBadName, Abort, KeepFile, Forget, DeleteRemote, DeleteLocal,
         Advance, Looping
<1>4. ~Downloads
  BY DEF Downloads, Download, KeepConflictCopy, Get, GetFails, Swap, Install,
         InstallFails, Stamp, Advance, Looping
<1>5. ~Uploads
  BY DEF Uploads, Upload, UploadFails, Tag, Advance, FileItem, At, Looping
<1>6. Finish => FreeTable
  BY DEF Finish, LeaveLoop, LeaveRemovals, Save, RemoveFolder, RemoveDrawer
<1>7. Crash => FreeTable
  BY DEF Crash
<1> QED BY <1>1, <1>2, <1>3, <1>4, <1>5, <1>6, <1>7 DEF Run, Engine

\* While a folder on the way to p is being listed, and p is there, either p
\* itself is in it or the next folder on the way is.
LEMMA OnTheWay ==
  ASSUME NEW side, Tree(side), NEW p \in Path, side[p].kind # "none",
         NEW d, d = Root \/ d \in Above[p]
  PROVE  \/ p \in Inside(side, d)
         \/ \E k \in Inside(side, d) : k \in Above[p] /\ side[k].kind = "dir"
<1>1. CASE Parent[p] = d
  BY <1>1 DEF Inside
<1>2. CASE Parent[p] # d
  <2>1. PICK k \in Above[p] : Parent[k] = d
    BY <1>2, StepDown
  <2>2. k \in Path /\ side[k].kind = "dir"
    BY <2>1, Places, AboveAreDirs
  <2> QED BY <2>1, <2>2 DEF Inside
<1> QED BY <1>1, <1>2

\* One folder listed on the server: what is in it is seen, or is still to be
\* listed, or does not fit.
LEMMA ScanRemoteSees ==
  ASSUME TypeOK, Scanned, NEW d \in Path \cup {Root}, ScanRemote(d), NEW p \in Path
  PROVE  /\ SeenThere(p)' \/ Pending(p)' \/ NoRoom(p)'
         /\ p \in tab' => SeenThere(p)'
<1>0. /\ pc = "scanR" /\ rem' = rem /\ tab \subseteq Path /\ Tree(rem)
      /\ rem \in [Path -> RemoteNode]
  BY DEF ScanRemote, server, TypeOK, Typed
<1>1. PICK A \in Admitted(Inside(rem, d)) :
        /\ tab' = tab \cup A
        /\ sr' = [q \in Path |-> IF q \in A THEN [rem[q] EXCEPT !.data = 0] ELSE sr[q]]
        /\ todo' = (todo \ {d}) \cup {q \in A : rem[q].kind = "dir"}
  BY DEF ScanRemote
<1>2. Inside(rem, d) \in SUBSET Path
  BY DEF Inside
<1>3. ASSUME NEW q \in Path
      PROVE  /\ NoRoom(q) => NoRoom(q)'
             /\ q \in Inside(rem, d) => q \in A \/ NoRoom(q)'
  BY <1>0, <1>1, <1>2, AdmittedRoom
<1>4. p \in A \/ SeenThere(p) => SeenThere(p)'
  <2>1. CASE p \in A
    <3>1. sr'[p] = [rem[p] EXCEPT !.data = 0]
      BY <1>1, <2>1
    <3>2. sr'[p].kind = rem[p].kind /\ sr'[p].etag = rem[p].etag
      BY <1>0, <3>1 DEF RemoteNode
    <3> QED BY <1>0, <3>2 DEF SeenThere
  <2>2. CASE p \notin A /\ SeenThere(p)
    BY <1>0, <1>1, <2>2 DEF SeenThere
  <2> QED BY <2>1, <2>2
<1>5. p \in tab => SeenThere(p)
  BY <1>0 DEF Scanned
<1>6. p \in tab' => SeenThere(p)'
  BY <1>1, <1>4, <1>5
<1>7. ASSUME Pending(p), rem[p].kind # "none"
      PROVE  SeenThere(p)' \/ Pending(p)' \/ NoRoom(p)'
  <2>1. PICK e \in todo : e = Root \/ e \in Above[p]
    BY <1>7 DEF Pending
  <2>2. CASE e # d
    BY <1>1, <2>1, <2>2 DEF Pending
  <2>3. CASE e = d
    <3>1. \/ p \in Inside(rem, d)
          \/ \E k \in Inside(rem, d) : k \in Above[p] /\ rem[k].kind = "dir"
      BY <1>0, <1>7, <2>1, <2>3, OnTheWay
    <3>2. CASE p \in Inside(rem, d)
      BY <1>3, <1>4, <3>2
    <3>3. ASSUME NEW k \in Inside(rem, d), k \in Above[p], rem[k].kind = "dir"
          PROVE  SeenThere(p)' \/ Pending(p)' \/ NoRoom(p)'
      <4>1. k \in A => Pending(p)'
        BY <1>1, <3>3 DEF Pending
      <4>2. NoRoom(k)' => NoRoom(p)' \/ p \in tab'
        BY DEF NoRoom
      <4> QED BY <1>2, <1>3, <1>6, <4>1, <4>2
    <3> QED BY <3>1, <3>2, <3>3
  <2> QED BY <2>2, <2>3
<1>8. rem[p].kind = "none" => SeenThere(p)'
  BY <1>0 DEF SeenThere
<1>9. SeenThere(p) \/ Pending(p) \/ NoRoom(p)
  BY <1>0 DEF Scanned
<1> QED BY <1>3, <1>4, <1>6, <1>7, <1>8, <1>9

\* One drawer listed on the Amiga: likewise, and the scan goes down into a
\* drawer for which there was no room.
LEMMA ScanLocalSees ==
  ASSUME TypeOK, Careful, Scanned, NEW d \in Path \cup {Root}, ScanLocal(d), NEW p \in Path
  PROVE  /\ SeenThere(p)' \/ NoRoom(p)'
         /\ SeenHere(p)' \/ Pending(p)' \/ NoRoom(p)'
<1>0. /\ pc = "scanL" /\ rem' = rem /\ sr' = sr /\ tab \subseteq Path /\ Tree(loc)
      /\ loc \in [Path -> LocalNode]
  BY DEF ScanLocal, server, TypeOK, Typed
<1>1. loc' = loc
  BY <1>0 DEF ScanLocal, Careful
<1>2. Listed(d) = Inside(loc, d) /\ Inside(loc, d) \in SUBSET Path
  BY DEF Listed, Inside, Careful
<1>3. PICK A \in Admitted(Inside(loc, d)) :
        /\ tab' = tab \cup A
        /\ sl' = [q \in Path |-> IF q \in A THEN [loc[q] EXCEPT !.data = 0] ELSE sl[q]]
  BY <1>2 DEF ScanLocal
<1>4. todo' = (todo \ {d}) \cup {q \in Inside(loc, d) : loc[q].kind = "dir"}
  BY <1>2 DEF ScanLocal
<1>5. ASSUME NEW q \in Path
      PROVE  /\ NoRoom(q) => NoRoom(q)'
             /\ q \in Inside(loc, d) => q \in A \/ NoRoom(q)'
  BY <1>0, <1>2, <1>3, AdmittedRoom
<1>6. p \in A \/ SeenHere(p) => SeenHere(p)'
  <2>1. CASE p \in A
    <3>1. sl'[p] = [loc[p] EXCEPT !.data = 0]
      BY <1>3, <2>1
    <3>2. sl'[p].kind = loc[p].kind /\ sl'[p].stamp = loc[p].stamp
      BY <1>0, <3>1 DEF LocalNode
    <3> QED BY <1>1, <3>2 DEF SeenHere
  <2>2. CASE p \notin A /\ SeenHere(p)
    BY <1>1, <1>3, <2>2 DEF SeenHere
  <2> QED BY <2>1, <2>2
<1>7. ASSUME Pending(p), loc[p].kind # "none"
      PROVE  SeenHere(p)' \/ Pending(p)' \/ NoRoom(p)'
  <2>1. PICK e \in todo : e = Root \/ e \in Above[p]
    BY <1>7 DEF Pending
  <2>2. CASE e # d
    BY <1>4, <2>1, <2>2 DEF Pending
  <2>3. CASE e = d
    <3>1. \/ p \in Inside(loc, d)
          \/ \E k \in Inside(loc, d) : k \in Above[p] /\ loc[k].kind = "dir"
      BY <1>0, <1>7, <2>1, <2>3, OnTheWay
    <3>2. CASE p \in Inside(loc, d)
      BY <1>5, <1>6, <3>2
    <3>3. CASE \E k \in Inside(loc, d) : k \in Above[p] /\ loc[k].kind = "dir"
      BY <1>4, <3>3 DEF Pending
    <3> QED BY <3>1, <3>2, <3>3
  <2> QED BY <2>2, <2>3
<1>8. loc[p].kind = "none" => SeenHere(p)'
  BY <1>1 DEF SeenHere
<1>9. /\ SeenThere(p) \/ NoRoom(p)
      /\ SeenHere(p) \/ Pending(p) \/ NoRoom(p)
      /\ SeenThere(p) => SeenThere(p)'
  BY <1>0 DEF Scanned, SeenThere
<1> QED BY <1>5, <1>6, <1>7, <1>8, <1>9

\* The scans miss nothing there is room for.
LEMMA ScannedStep ==
  ASSUME TypeOK, Careful, LossInv, Users \/ Run
  PROVE  Scanned'
<1>0. Scanned /\ Typed /\ Tree(loc)
  BY DEF LossInv, TypeOK
<1>1. CASE Users
  <2>1. pc = "idle" /\ pc' = "idle" /\ UNCHANGED <<tab, ss, rmd>>
    BY <1>1, EditStep DEF table
  <2> QED BY <1>0, <2>1 DEF Scanned
<1>2. CASE pc' \in Looping \cup {"rmdir", "save"}
  BY <1>2 DEF Scanned, Looping
<1>3. CASE FreeTable
  BY <1>3 DEF FreeTable, Scanned
<1>4. CASE DropState
  <2>1. pc = "idle" /\ pc' = "idle" /\ UNCHANGED <<tab, ss, rmd>>
    BY <1>4 DEF DropState, table
  <2> QED BY <1>0, <2>1 DEF Scanned
<1>5. CASE Start
  <2>1. pc = "idle" /\ pc' = "scanR" /\ UNCHANGED <<tab, ss, rmd>> /\ todo' = {Root}
    BY <1>5 DEF Start, table
  <2>2. \A p \in Path : Pending(p)'
    BY <2>1 DEF Pending
  <2> QED BY <1>0, <2>1, <2>2 DEF Scanned
<1>6. CASE ScanRemoteDone
  <2>1. /\ pc = "scanR" /\ pc' = "scanL" /\ todo = {} /\ todo' = {Root}
        /\ UNCHANGED <<tab, ss, rmd, rem, sr>>
    BY <1>6 DEF ScanRemoteDone, table, server
  <2>2. \A p \in Path : Pending(p)' /\ ~Pending(p)
    BY <2>1 DEF Pending
  <2>3. \A p \in Path : SeenThere(p)' \/ NoRoom(p)'
    BY <1>0, <2>1, <2>2 DEF Scanned, SeenThere, NoRoom
  <2> QED BY <1>0, <2>1, <2>2, <2>3 DEF Scanned
<1>7. ASSUME NEW d \in Path \cup {Root}, ScanRemote(d) PROVE Scanned'
  <2>1. pc = "scanR" /\ pc' = "scanR" /\ UNCHANGED <<ss, rmd>>
    BY <1>7 DEF ScanRemote
  <2>2. \A p \in Path : /\ SeenThere(p)' \/ Pending(p)' \/ NoRoom(p)'
                        /\ p \in tab' => SeenThere(p)'
    BY <1>0, <1>7, ScanRemoteSees
  <2> QED BY <1>0, <2>1, <2>2 DEF Scanned
<1>8. ASSUME NEW d \in Path \cup {Root}, ScanLocal(d) PROVE Scanned'
  <2>1. pc = "scanL" /\ pc' = "scanL" /\ UNCHANGED <<ss, rmd>>
    BY <1>8 DEF ScanLocal
  <2>2. \A p \in Path : /\ SeenThere(p)' \/ NoRoom(p)'
                        /\ SeenHere(p)' \/ Pending(p)' \/ NoRoom(p)'
    BY <1>0, <1>8, ScanLocalSees
  <2> QED BY <1>0, <2>1, <2>2 DEF Scanned
<1>9. ASSUME NEW d \in Path \cup {Root}, ScanLocalFails(d) PROVE Scanned'
  <2>1. /\ pc = "scanL" /\ pc' = "scanL" /\ UNCHANGED <<ss, rmd, loc, rem, tab, sr, sl>>
        /\ todo' = todo \ {d} /\ ~IsDir(loc, d)
    BY <1>9 DEF ScanLocalFails, table, disk, server, Careful, Fault
  <2>2. ASSUME NEW p \in Path, Pending(p), loc[p].kind # "none" PROVE Pending(p)'
    <3>1. PICK e \in todo : e = Root \/ e \in Above[p]
      BY <2>2 DEF Pending
    <3>2. IsDir(loc, e)
      BY <1>0, <2>2, <3>1, Places, AboveAreDirs DEF IsDir
    <3> QED BY <2>1, <3>1, <3>2 DEF Pending
  <2>3. \A p \in Path : /\ SeenThere(p)' = SeenThere(p) /\ NoRoom(p)' = NoRoom(p)
                        /\ SeenHere(p)' = SeenHere(p)
    BY <2>1 DEF SeenThere, NoRoom, SeenHere
  <2>4. \A p \in Path : loc[p].kind = "none" => SeenHere(p)
    BY DEF SeenHere
  <2> QED BY <1>0, <2>1, <2>2, <2>3, <2>4 DEF Scanned
<1>10. \A d : ~ScanRemoteEmpty(d)
  BY DEF ScanRemoteEmpty, Careful, Fault
<1> QED BY <1>1, <1>2, <1>3, <1>4, <1>5, <1>6, <1>7, <1>8, <1>9, <1>10, PhaseStep

(***************************************************************************)
(* The main loop                                                           *)
(***************************************************************************)
\* What is to be removed is marked by one step, and the marks are kept.
LEMMA RmdStep ==
  ASSUME Run, pc' \in Looping \cup {"rmdir"}
  PROVE  rmd' = rmd \/ \E p \in Path : DeferRemoval(p)
<1>1. Scan => rmd' = rmd
  BY DEF Scan, ScanRemoteDone, LoadState, ScanRemote, ScanRemoteFails, ScanRemoteEmpty,
         ScanLocal, ScanLocalFails, FreeTable, Looping, table
<1>2. Directories => rmd' = rmd \/ \E p \in Path : DeferRemoval(p)
  BY DEF Directories, KeepDir, MakeDrawer, MakeFolder
<1>3. Files => rmd' = rmd
  BY DEF Files, SkipBadName, Abort, KeepFile, Forget, DeleteRemote, DeleteLocal, table
<1>4. Downloads => rmd' = rmd
  BY DEF Downloads, Download, KeepConflictCopy, Get, GetFails, Swap, Install,
         InstallFails, Stamp, table
<1>5. Uploads => rmd' = rmd
  BY DEF Uploads, Upload, UploadFails, Tag, table
<1>6. Finish => rmd' = rmd
  BY DEF Finish, LeaveLoop, LeaveRemovals, Save, RemoveFolder, RemoveDrawer,
         FreeTable, Looping, table
<1>7. ~Start /\ ~Crash /\ ~DropState
  BY DEF Start, Crash, DropState, FreeTable, Looping
<1> QED BY <1>1, <1>2, <1>3, <1>4, <1>5, <1>6, <1>7 DEF Run, Engine

\* The directories still to be removed are dealt with after the loop.
LEMMA RemovalStep ==
  ASSUME Run, pc' = "rmdir"
  PROVE  pc \in {"item", "rmdir"}
<1>1. ~Scan
  BY DEF Scan, ScanRemoteDone, LoadState, ScanRemote, ScanRemoteFails, ScanRemoteEmpty,
         ScanLocal, ScanLocalFails, FreeTable
<1>2. ~Directories
  BY DEF Directories, KeepDir, DeferRemoval, MakeDrawer, MakeFolder, Advance
<1>3. ~Files
  BY DEF Files, SkipBadName, Abort, KeepFile, Forget, DeleteRemote, DeleteLocal, Advance
<1>4. ~Downloads
  BY DEF Downloads, Download, KeepConflictCopy, Get, GetFails, Swap, Install,
         InstallFails, Stamp, Advance
<1>5. ~Uploads
  BY DEF Uploads, Upload, UploadFails, Tag, Advance
<1>6. Finish => pc \in {"item", "rmdir"}
  BY DEF Finish, LeaveLoop, LeaveRemovals, Save, RemoveFolder, RemoveDrawer, FreeTable
<1>7. ~Start /\ ~Crash /\ ~DropState
  BY DEF Start, Crash, DropState, FreeTable
<1> QED BY <1>1, <1>2, <1>3, <1>4, <1>5, <1>6, <1>7 DEF Run, Engine

\* Who writes a file: on the server, the item the loop is at; here, the
\* download under way.
LEMMA FileFate ==
  ASSUME TypeOK, Careful, CopiesKept, Run, NEW q \in Path
  PROVE  /\ rem'[q].kind = "file" => rem'[q] = rem[q] \/ (First(q) /\ pc = "item")
         /\ (Original(q) /\ loc'[q].kind = "file")
               => loc'[q] = loc[q] \/ (First(q) /\ pc \in {"install", "stamp"})
<1>1. Upload(q) \/ UploadFails(q) => First(q) /\ pc = "item"
  BY DEF Upload, UploadFails, FileItem, At
<1>2. Install(q) \/ Stamp(q) => First(q) /\ pc \in {"install", "stamp"}
  BY DEF Install, Stamp, At
<1>3. rem'[q].kind = "file" => rem'[q] = rem[q] \/ (First(q) /\ pc = "item")
  BY <1>1, RemoteFate, Shapes
<1>4. (Original(q) /\ loc'[q].kind = "file")
        => loc'[q] = loc[q] \/ (First(q) /\ pc \in {"install", "stamp"})
  BY <1>2, LocalFate, Shapes DEF Original
<1> QED BY <1>3, <1>4

\* The loop begins with a table that tells the truth.
LEMMA LoadStateAwaits ==
  ASSUME TypeOK, Scanned, LoadState
  PROVE  /\ todo' \subseteq Path
         /\ \A q \in Path : q \in todo' =>
              SeenThere(q)' /\ SeenHere(q)' /\ ss'[q] \in {st'[q], NoEntry}
         /\ \A q \in Path : rmd'[q] = "no"
<1>0. /\ pc = "scanL" /\ todo = {} /\ tab \subseteq Path
      /\ UNCHANGED <<loc, rem, st, sr, sl, rmd>>
  BY DEF LoadState, disk, server, TypeOK, Typed
<1>1. ASSUME NEW q \in Path
      PROVE  /\ SeenThere(q) \/ NoRoom(q)
             /\ SeenHere(q) \/ NoRoom(q)
             /\ ss[q] = NoEntry /\ rmd[q] = "no"
             /\ SeenThere(q) => SeenThere(q)'
             /\ SeenHere(q) => SeenHere(q)'
  BY <1>0 DEF Scanned, Pending, SeenThere, SeenHere
<1>2. CASE \E A \in Admitted({q \in Path : st[q].known}) :
             /\ tab' = tab \cup A /\ todo' = tab \cup A
             /\ ss' = [q \in Path |-> IF q \in A THEN st[q] ELSE NoEntry]
  <2>1. PICK A \in Admitted({q \in Path : st[q].known}) :
             /\ tab' = tab \cup A /\ todo' = tab \cup A
             /\ ss' = [q \in Path |-> IF q \in A THEN st[q] ELSE NoEntry]
    BY <1>2
  <2>2. \A q \in Path : NoRoom(q) => NoRoom(q)'
    <3>1. {q \in Path : st[q].known} \in SUBSET Path
      OBVIOUS
    <3> QED BY <1>0, <2>1, <3>1, AdmittedRoom
  <2>3. A \subseteq Path
    BY DEF Admitted
  <2>4. \A q \in Path : q \in todo' => ~NoRoom(q)
    BY <2>1, <2>2 DEF NoRoom
  <2> QED BY <1>0, <1>1, <2>1, <2>3, <2>4
<1>3. CASE todo' = tab /\ UNCHANGED <<tab, ss>>
  <2>1. \A q \in Path : q \in todo' => ~NoRoom(q)
    BY <1>3 DEF NoRoom
  <2> QED BY <1>0, <1>1, <1>3, <2>1
<1> QED BY <1>2, <1>3 DEF LoadState

\* Of an item the loop has not come to, the table still tells the truth.
LEMMA AwaitedStep ==
  ASSUME TypeOK, Careful, LossInv, Users \/ Run
  PROVE  Awaited'
<1>0. Typed /\ Scanned /\ Awaited /\ CopiesKept
  BY DEF LossInv, TypeOK
<1>1. CASE Users
  <2>1. pc' = "idle"
    BY <1>1, EditStep
  <2> QED BY <2>1 DEF Awaited, Looping
<1>2. CASE LoadState
  <2>1. pc' = "item"
    BY <1>2 DEF LoadState
  <2> QED BY <1>0, <1>2, <2>1, LoadStateAwaits DEF Awaited, Ahead
<1>3. CASE Run /\ ~LoadState
  <2>1. ASSUME pc' \in Looping
        PROVE  /\ UNCHANGED <<st, sr, sl>> /\ pc \in Looping
               /\ todo' \subseteq todo /\ todo \subseteq Path
               /\ pc' # "item" => \E p \in Path : First(p)'
               /\ \A q \in Path : Ahead(q)' => Ahead(q) /\ ~First(q) /\ ss'[q] = ss[q]
               /\ \A q \in Path : rmd'[q] = rmd[q] \/ q \notin todo'
    <3>1. UNCHANGED <<st, sr, sl>>
      BY <1>0, <1>3, <2>1, LoopStep
    <3>2. PICK p \in Path :
            /\ First(p) /\ pc \in Looping
            /\ \/ Advance(p) /\ \A q \in Path \ {p} : ss'[q] = ss[q] /\ rmd'[q] = rmd[q]
               \/ todo' = todo /\ pc' # "item" /\ UNCHANGED <<ss, rmd>>
      BY <1>0, <1>3, <2>1, LoopStep
    <3>3. todo \subseteq Path
      BY <1>0, <3>2 DEF Awaited
    <3>4. \A q \in Path : First(q) => q = p
      BY <3>2, FirstUnique
    <3>5. CASE Advance(p) /\ \A q \in Path \ {p} : ss'[q] = ss[q] /\ rmd'[q] = rmd[q]
      BY <3>1, <3>2, <3>3, <3>4, <3>5 DEF Advance, Ahead
    <3>6. CASE todo' = todo /\ pc' # "item" /\ UNCHANGED <<ss, rmd>>
      BY <3>1, <3>2, <3>3, <3>4, <3>6 DEF Ahead, First
    <3> QED BY <3>2, <3>5, <3>6
  <2>2. ASSUME pc' \in Looping, NEW q \in Path, Ahead(q)'
        PROVE  SeenThere(q)' /\ (Original(q)' => SeenHere(q)') /\ ss'[q] \in {st'[q], NoEntry}
    <3>1. /\ Ahead(q) /\ ~First(q) /\ q \in todo /\ ss'[q] = ss[q]
          /\ SeenThere(q) /\ (Original(q) => SeenHere(q)) /\ ss[q] \in {st[q], NoEntry}
      BY <1>0, <2>1, <2>2 DEF Awaited, Ahead
    <3>2. /\ rem'[q] = rem[q] \/ rem'[q].kind = "none"
      <4>1. ~MakeFolder(q) /\ ~Upload(q) /\ ~UploadFails(q)
        BY <3>1 DEF MakeFolder, Upload, UploadFails, DirItem, FileItem, At
      <4> QED BY <1>0, <1>3, <4>1, RemoteFate, Shapes
    <3>3. Original(q) => loc'[q] = loc[q] \/ loc'[q].kind = "none"
      <4>1. ~MakeDrawer(q) /\ ~Install(q) /\ ~Stamp(q)
        BY <3>1 DEF MakeDrawer, Install, Stamp, DirItem, At
      <4> QED BY <1>0, <1>3, <3>1, <4>1, LocalFate, Shapes DEF Original
    <3> QED BY <2>1, <2>2, <3>1, <3>2, <3>3 DEF SeenThere, SeenHere, Original
  <2>3. ASSUME pc' \in Looping, NEW q \in Path, rmd'[q] # "no" PROVE q \notin todo'
    BY <1>0, <2>1, <2>3 DEF Awaited
  <2>4. ASSUME pc' \in Looping \cup {"rmdir"}, NEW q \in Path, rmd'[q] # "no"
        PROVE  /\ rmd'[q] = "remote" => rem'[q].kind # "file"
               /\ rmd'[q] = "local" /\ Original(q) => loc'[q].kind # "file"
    <3>1. pc \in Looping \cup {"rmdir"}
      BY <1>3, <2>1, <2>4, RemovalStep DEF Looping
    <3>2. CASE rmd'[q] = rmd[q]
      <4>1. pc \in Looping => ~First(q)
        BY <1>0, <2>4, <3>2 DEF Awaited, First
      <4>2. /\ rem'[q].kind = "file" => rem'[q] = rem[q]
            /\ Original(q) /\ loc'[q].kind = "file" => loc'[q] = loc[q]
        BY <1>0, <1>3, <4>1, FileFate DEF Looping
      <4> QED BY <1>0, <3>1, <3>2, <4>2 DEF Awaited
    <3>3. ASSUME NEW p \in Path, DeferRemoval(p), rmd'[q] # rmd[q]
          PROVE  /\ rmd'[q] = "remote" => rem'[q].kind # "file"
                 /\ rmd'[q] = "local" /\ Original(q) => loc'[q].kind # "file"
      <4>1. /\ p = q /\ pc = "item" /\ q \in todo /\ UNCHANGED <<loc, rem>>
            /\ sr[q].kind = "dir" \/ sl[q].kind = "dir"
            /\ ~(OnServer(q) /\ OnAmiga(q))
            /\ rmd'[q] = IF OnServer(q) THEN "remote" ELSE "local"
        BY <1>0, <3>3 DEF DeferRemoval, DirItem, At, First, IsDirItem, disk, server, Typed
      <4>2. SeenThere(q) /\ (Original(q) => SeenHere(q))
        BY <1>0, <4>1 DEF Awaited, Ahead, Looping
      <4>3. rmd'[q] = "remote" => rem'[q].kind # "file"
        BY <4>1, <4>2 DEF OnServer, OnAmiga, SeenThere
      <4>4. rmd'[q] = "local" /\ Original(q) => loc'[q].kind # "file"
        BY <4>1, <4>2 DEF OnServer, OnAmiga, SeenHere
      <4> QED BY <4>3, <4>4
    <3> QED BY <1>3, <2>4, <3>2, <3>3, RmdStep
  <2>5. ASSUME pc' \in Looping PROVE /\ todo' \subseteq Path
                                     /\ pc' # "item" => \E p \in Path : First(p)'
    BY <2>1, <2>5
  <2> QED BY <2>2, <2>3, <2>4, <2>5 DEF Awaited, Original, Looping
<1> QED BY <1>1, <1>2, <1>3

\* The steps that begin a transfer or go on with it.
LEMMA TransferSteps ==
  ASSUME Run
  PROVE  /\ pc' \in {"get", "swap"}
              => \E p \in Path : Download(p) \/ KeepConflictCopy(p) \/ Get(p)
         /\ pc' \in {"swap", "install", "stamp"}
              => \E p \in Path : Get(p) \/ Swap(p) \/ Install(p)
         /\ pc' = "tag" => \E p \in Path : Upload(p)
<1>1. SUFFICES ASSUME pc' \in {"get", "swap", "install", "stamp", "tag"}
               PROVE  \/ \E p \in Path : Download(p) /\ pc' = "get"
                      \/ \E p \in Path : KeepConflictCopy(p) /\ pc' = "get"
                      \/ \E p \in Path : Get(p) /\ pc' = "swap"
                      \/ \E p \in Path : Swap(p) /\ pc' = "install"
                      \/ \E p \in Path : Install(p) /\ pc' = "stamp"
                      \/ \E p \in Path : Upload(p) /\ pc' = "tag"
  OBVIOUS
<1>2. ~Scan
  BY <1>1 DEF Scan, ScanRemoteDone, LoadState, ScanRemote, ScanRemoteFails, ScanRemoteEmpty,
         ScanLocal, ScanLocalFails, FreeTable
<1>3. ~Directories
  BY <1>1 DEF Directories, KeepDir, DeferRemoval, MakeDrawer, MakeFolder, Advance
<1>4. ~Files
  BY <1>1 DEF Files, SkipBadName, Abort, KeepFile, Forget, DeleteRemote, DeleteLocal, Advance
<1>5. CASE Downloads
  BY <1>1, <1>5 DEF Downloads, Download, KeepConflictCopy, Get, GetFails, Swap, Install,
         InstallFails, Stamp, Advance
<1>6. CASE Uploads
  BY <1>1, <1>6 DEF Uploads, Upload, UploadFails, Tag, Advance
<1>7. ~Finish
  <2>1. ~LeaveLoop /\ ~LeaveRemovals /\ ~Save
    BY <1>1 DEF LeaveLoop, LeaveRemovals, Save, FreeTable
  <2>2. ASSUME NEW p \in Path PROVE ~RemoveFolder(p) /\ ~RemoveDrawer(p)
    BY <1>1 DEF RemoveFolder, RemoveDrawer
  <2> QED BY <2>1, <2>2 DEF Finish
<1>8. ~Start /\ ~Crash /\ ~DropState
  BY <1>1 DEF Start, Crash, DropState, FreeTable
<1> QED BY <1>2, <1>3, <1>4, <1>5, <1>6, <1>7, <1>8 DEF Run, Engine

(***************************************************************************)
(* Transfers                                                               *)
(***************************************************************************)
\* A conflict: the file here is kept under the conflict copy's name, and its
\* own name is free for the download.
LEMMA ConflictMoves ==
  ASSUME TypeOK, Careful, CopiesKept, KindsFit, NEW p \in Path, KeepConflictCopy(p),
         Original(p), loc[p].kind = "file"
  PROVE  /\ loc'[p].kind = "none"
         /\ \E c \in Copies : loc'[c] = loc[p]
<1> DEFINE c == Conflict[p]
           cleared == Deleted(c)
<1>0. loc \in [Path -> LocalNode] /\ Tree(loc) /\ Typed
  BY DEF TypeOK, Typed
<1>1. c \in Path /\ c \in Copies /\ Rank[p] < Rank[c] /\ c # p
  <2>1. "file" \in KindsOf[p] /\ Class[p] # "bad"
    BY DEF KindsFit, KeepConflictCopy, FileItem
  <2>2. c # NoPath
    BY <2>1 DEF Careful
  <2>3. c \in Path /\ Rank[p] < Rank[c]
    BY <2>2, Places, TreeAssumption
  <2> QED BY <2>3, Ranks DEF Copies
<1>2. loc[c].kind # "dir" /\ Inside(loc, c) = {}
  <2>1. loc[c].kind # "dir"
    BY <1>1 DEF CopiesKept
  <2>2. \A q \in Path : Parent[q] # c
    BY <1>1, Places DEF Careful
  <2> QED BY <2>1, <2>2 DEF Inside
<1>3. cleared \in [Path -> LocalNode] /\ cleared[c].kind = "none" /\ cleared[p] = loc[p]
  BY <1>0, <1>1, <1>2, Shapes, LocalOperations DEF Deleted, Deletable
<1>4. loc' = [cleared EXCEPT ![c] = loc[p], ![p] = Absent]
  <2>1. c # NoPath
    BY <1>1, Places
  <2> QED BY <1>1, <1>3, <2>1 DEF KeepConflictCopy, Careful, Fault
<1> HIDE DEF cleared
<1>5. loc'[c] = loc[p] /\ loc'[p] = Absent
  BY <1>1, <1>3, <1>4
<1> QED BY <1>1, <1>5, Shapes

\* Where a download begins, what it will replace is as the entry says.
LEMMA DownloadBegins ==
  ASSUME TypeOK, Careful, LossInv, NEW p \in Path, Download(p) \/ KeepConflictCopy(p),
         Original(p), loc'[p].kind = "file"
  PROVE  /\ ss[p] = st[p] /\ loc'[p].stamp = st[p].stamp
         /\ rem[p].kind = "file" => rem[p].etag # st[p].etag
<1>1. ~KeepConflictCopy(p)
  <2>1. SUFFICES ASSUME KeepConflictCopy(p) PROVE FALSE
    OBVIOUS
  <2>2. CopiesKept /\ KindsFit
    BY DEF LossInv
  <2>3. loc[p].kind # "file"
    BY <2>1, <2>2, ConflictMoves
  <2>4. loc'[p] \in {loc[p], Absent}
    <3>1. /\ Engine
          /\ ~MakeDrawer(p) /\ ~Install(p) /\ ~Stamp(p)
      BY <2>1 DEF Engine, Downloads, KeepConflictCopy, MakeDrawer, Install, Stamp,
                  FileItem, DirItem, At
    <3>2. Run
      BY <3>1 DEF Run
    <3>3. loc'[p] = Drawer \/ loc'[p] = loc[p] \/ loc'[p] = Absent
      BY <2>2, <3>1, <3>2, LocalFate DEF Original
    <3> QED BY <3>3, Shapes
  <2> QED BY <2>3, <2>4, Shapes
<1>2. /\ pc = "item" /\ p \in todo /\ RChanged(p) /\ ~LChanged(p)
      /\ loc'[p] = loc[p]
  <2>1. Download(p) /\ p \notin Above[p]
    BY <1>1, TreeAssumption
  <2>2. /\ loc \in [Path -> LocalNode]
        /\ \A k \in Above[p] : p \notin Above[k]
    BY <2>1, TreeAssumption DEF TypeOK, Typed
  <2>3. \A D, k : p \notin D => EnsureDrawers(D, k)[p] = loc[p]
    BY DEF EnsureDrawers
  <2>4. loc'[p] = loc[p]
    BY <2>1, <2>2, <2>3 DEF Download, EnsureDrawersFails
  <2> QED BY <2>1, <2>4 DEF Download, FileItem, At, First
<1>3. SeenThere(p) /\ SeenHere(p) /\ ss[p] \in {st[p], NoEntry}
  BY <1>2 DEF LossInv, Awaited, Looping, Ahead
<1>4. /\ sl[p].kind # "none" /\ loc[p].stamp = sl[p].stamp
      /\ ss[p].known /\ sl[p].stamp = ss[p].stamp
  BY <1>2, <1>3 DEF LChanged, OnAmiga, SeenHere
<1>5. ss[p] = st[p]
  BY <1>3, <1>4, Shapes
<1> QED BY <1>2, <1>3, <1>4, <1>5 DEF RChanged, SeenThere

\* What a transfer has begun with stays.
LEMMA TransferredStep ==
  ASSUME TypeOK, Careful, LossInv, Users \/ Run, Notes
  PROVE  Transferred'
<1>0. /\ Typed /\ Transferred /\ Awaited /\ [Next]_vars
      /\ loc \in [Path -> LocalNode] /\ rem \in [Path -> RemoteNode]
  BY DEF LossInv, TypeOK, Typed, Next, Run
<1>1. CASE Users
  <2>1. pc' = "idle"
    BY <1>1, EditStep
  <2> QED BY <2>1 DEF Transferred
<1>2. CASE pc' \notin {"get", "swap", "install", "stamp", "tag"}
  BY <1>2 DEF Transferred
<1>3. CASE Run /\ pc' \in {"get", "swap", "install", "stamp", "tag"}
  <2>1. PICK p \in Path : First(p) /\ todo' = todo /\ UNCHANGED <<st, sl, ss>> /\ pc \in Looping
    <3>1. ~LoadState /\ pc' \in Looping /\ pc' # "item"
      BY <1>3 DEF LoadState, Looping
    <3> QED BY <1>0, <1>3, <3>1, LoopStep DEF Advance
  <2>2. \A q \in Path : First(q)' => q = p
    BY <2>1, FirstUnique DEF First
  <2>3. ASSUME pc' \in {"get", "swap"}, Original(p), loc'[p].kind = "file"
        PROVE  /\ ss'[p] = st'[p] /\ loc'[p].stamp = st'[p].stamp
               /\ rem'[p].kind = "file" => rem'[p].etag # st'[p].etag
    <3>1. \E k \in Path : Download(k) \/ KeepConflictCopy(k) \/ Get(k)
      BY <1>3, <2>3, TransferSteps
    <3>2. PICK k \in Path : Download(k) \/ KeepConflictCopy(k) \/ Get(k)
      BY <3>1
    <3>3. k = p /\ rem' = rem
      BY <2>1, <3>2, FirstUnique DEF Download, KeepConflictCopy, Get, FileItem, At, server
    <3>4. CASE Get(p)
      BY <1>0, <2>1, <2>3, <3>3, <3>4 DEF Get, At, Transferred
    <3>5. CASE Download(p) \/ KeepConflictCopy(p)
      BY <2>1, <2>3, <3>3, <3>5, DownloadBegins
    <3> QED BY <3>2, <3>3, <3>4, <3>5
  <2>4. ASSUME pc' \in {"swap", "install", "stamp"}
        PROVE  /\ rem'[p].kind = "file" /\ rem'[p].data = dl'.of /\ rem'[p].etag = dl'.etag
               /\ pc' = "stamp" => loc'[p].kind = "file" /\ loc'[p].data = dl'.data
    <3>1. PICK k \in Path : Get(k) \/ Swap(k) \/ Install(k)
      BY <1>3, <2>4, TransferSteps
    <3>2. k = p /\ rem' = rem
      BY <2>1, <3>1, FirstUnique DEF Get, Swap, Install, At, server
    <3>3. CASE Get(p)
      BY <3>2, <3>3 DEF Get, Body
    <3>4. CASE Swap(p)
      BY <1>0, <2>1, <3>2, <3>4 DEF Swap, At, Transferred, table
    <3>5. CASE Install(p)
      <4>1. loc'[p] = File(dl.data, clock) /\ dl' = dl /\ pc = "install"
        BY <1>0, <3>5 DEF Install, At, table
      <4> QED BY <1>0, <2>1, <3>2, <4>1, Shapes DEF Transferred
    <3> QED BY <3>1, <3>2, <3>3, <3>4, <3>5
  <2>5. ASSUME pc' = "tag"
        PROVE  /\ rem'[p].kind = "file" /\ loc'[p].kind = "file"
               /\ loc'[p].data = rem'[p].data
               /\ Original(p) => loc'[p].stamp = sl'[p].stamp
    <3>1. PICK k \in Path : Upload(k)
      BY <1>3, <2>5, TransferSteps
    <3>2. k = p /\ pc = "item" /\ loc' = loc /\ loc[p].kind = "file" /\ rem' = Stored(p)
      BY <2>1, <3>1, FirstUnique DEF Upload, FileItem, At, disk
    <3>3. rem'[p] = Resource(loc[p].data, clock, sl[p].stamp)
      BY <1>0, <3>2 DEF Stored
    <3>4. Original(p) => SeenHere(p)
      BY <1>0, <2>1, <3>2 DEF Awaited, Ahead, First, Looping
    <3> QED BY <2>1, <3>2, <3>3, <3>4, Shapes DEF SeenHere
  <2> QED BY <2>2, <2>3, <2>4, <2>5 DEF Transferred, Original
<1> QED BY <1>1, <1>2, <1>3

(***************************************************************************)
(* What is vital                                                           *)
(***************************************************************************)
\* An item the loop is at is as the table says.
LEMMA AtItem ==
  ASSUME Awaited, NEW q \in Path, At("item", q)
  PROVE  /\ SeenThere(q) /\ (Original(q) => SeenHere(q))
         /\ ss[q] \in {st[q], NoEntry}
BY DEF Awaited, Looping, Ahead, At, First

\* A version in a conflict copy is not vital.
LEMMA VitalOriginal ==
  ASSUME CopiesKept, NEW q \in Path,
         \/ loc[q].kind = "file" /\ loc[q].data \in Vital
         \/ rem[q].kind = "file" /\ rem[q].data \in Vital
  PROVE  Original(q)
<1>1. SUFFICES ASSUME ~Original(q) PROVE FALSE
  OBVIOUS
<1>2. q \in Copies
  BY <1>1 DEF Original, Copies
<1>3. Versions(loc, Copies) \cup Versions(rem, Copies) \subseteq copied
  BY DEF CopiesKept, CopiesHold
<1>4. \A side : side[q].kind = "file" => side[q].data \in Versions(side, Copies)
  BY <1>2 DEF Versions
<1> QED BY <1>3, <1>4 DEF Vital

\* No run makes a version vital.
LEMMA VitalRun ==
  ASSUME Run, Notes
  PROVE  Vital' \subseteq Vital
BY RunLedger DEF Vital, Garbled, Notes

\* A vital version is not what a broken GET has made of another, and has not
\* been made into one.
LEMMA VitalWhole ==
  ASSUME Nobodys, NEW l, NEW r, CopyOf(l, r), l \in Vital \/ r \in Vital
  PROVE  l = r
<1>1. <<r, l>> \in mangled => r \in Garbled /\ l \notin owed
  BY DEF Nobodys, Garbled
<1> QED BY <1>1 DEF CopyOf, Vital

\* A run takes a file with a vital version away from the Amiga, or puts
\* another in its place, only where the server has the same version.
LEMMA LocalKeeps ==
  ASSUME TypeOK, Careful, LossInv, Run, Notes, NEW q \in Path,
         loc[q].kind = "file", loc[q].data \in Vital
  PROVE  \/ loc'[q].kind = "file" /\ loc'[q].data = loc[q].data
         \/ \E c \in Copies : loc'[c] = loc[q]
         \/ /\ DeleteLocal(q) \/ Swap(q)
            /\ rem' = rem /\ rem[q].kind = "file" /\ rem[q].data = loc[q].data
<1>0. /\ Awaited /\ CopiesKept /\ KindsFit /\ Mirrored /\ Transferred /\ Original(q)
      /\ loc[q].kind # "none"
  BY VitalOriginal DEF LossInv
<1>1. CASE DeleteLocal(q)
  <2>1. At("item", q) /\ OnAmiga(q) /\ ~LChanged(q) /\ rem' = rem
    BY <1>1 DEF DeleteLocal, FileItem, server
  <2>2. ss[q].stamp = loc[q].stamp
    BY <1>0, <2>1, AtItem DEF LChanged, SeenHere
  <2>3. HeldThere(ss[q], q)
    BY <1>0 DEF Mirrored
  <2> QED BY <1>1, <2>1, <2>2, <2>3 DEF HeldThere
<1>2. CASE Swap(q)
  <2>1. First(q) /\ pc = "swap" /\ rem' = rem
    BY <1>2 DEF Swap, At, server
  <2>2. loc[q].stamp = st[q].stamp
    BY <1>0, <2>1 DEF Transferred
  <2>3. HeldThere(st[q], q)
    BY <1>0 DEF Mirrored
  <2> QED BY <1>2, <2>1, <2>2, <2>3 DEF HeldThere
<1>3. CASE KeepConflictCopy(q)
  BY <1>0, <1>3, ConflictMoves
<1>4. ~Install(q)
  BY <1>0 DEF Install, CanInstall
<1>5. ~RemoveDrawer(q)
  BY <1>0 DEF RemoveDrawer, Awaited
<1> QED BY <1>0, <1>1, <1>2, <1>3, <1>4, <1>5, LocalFate DEF Original

\* An upload stores what is here, or nothing.
LEMMA UploadKeeps ==
  ASSUME Typed, NEW q \in Path, Upload(q) \/ UploadFails(q)
  PROVE  \/ rem'[q] = rem[q]
         \/ rem'[q].kind = "file" /\ rem'[q].data = loc[q].data
<1>1. Stored(q)[q].kind = "file" /\ Stored(q)[q].data = loc[q].data
  BY Shapes DEF Stored, Typed
<1> QED BY <1>1 DEF Upload, UploadFails

\* A run takes a resource with a vital version away from the server, or puts
\* another in its place, only where the Amiga has the same version, or along
\* with the folder it is in.
LEMMA RemoteKeeps ==
  ASSUME TypeOK, Careful, LossInv, Run, Notes, NEW q \in Path,
         rem[q].kind = "file", rem[q].data \in Vital
  PROVE  \/ rem'[q] = rem[q]
         \/ rem[q].data \in razed'
         \/ /\ Upload(q) \/ UploadFails(q)
            /\ loc' = loc /\ loc[q].kind = "file" /\ loc[q].data = rem[q].data
<1>0. /\ Awaited /\ CopiesKept /\ Mirrored /\ Original(q) /\ rem[q].kind # "none"
  BY VitalOriginal DEF LossInv
<1>1. ASSUME At("item", q), ~RChanged(q)
      PROVE  loc[q].kind = "file" /\ loc[q].data = rem[q].data
  <2>1. ss[q].etag = rem[q].etag
    BY <1>0, <1>1, AtItem DEF RChanged, OnServer, SeenThere
  <2>2. HeldHere(ss[q], q)
    BY <1>0 DEF Mirrored
  <2> QED BY <2>1, <2>2 DEF HeldHere
<1>2. CASE Upload(q) \/ UploadFails(q)
  BY <1>1, <1>2 DEF Upload, UploadFails, FileItem, disk
<1>3. ~DeleteRemote(q)
  <2>1. SUFFICES ASSUME DeleteRemote(q) PROVE FALSE
    OBVIOUS
  <2>2. At("item", q) /\ ~RChanged(q) /\ ~OnAmiga(q)
    BY <2>1 DEF DeleteRemote, FileItem
  <2>3. loc[q].kind = "file" /\ SeenHere(q)
    BY <1>0, <1>1, <2>2, AtItem
  <2> QED BY <2>2, <2>3 DEF SeenHere, OnAmiga
<1>4. ~RemoveFolder(q)
  BY <1>0 DEF RemoveFolder, Awaited
<1> QED BY <1>0, <1>2, <1>3, <1>4, RemoteFate

\* An edit leaves what an old entry matches on both sides.
LEMMA HeldByUsers ==
  ASSUME TypeOK, Careful, LossInv, Users, Notes, NEW q \in Path, NEW e,
         HeldHere(e, q), HeldThere(e, q), e.etag < clock, e.stamp < clock,
         e.etag \in Nat, e.stamp \in Nat
  PROVE  /\ (rem'[q].kind = "file" /\ rem'[q].etag = e.etag /\ rem'[q].data \in Vital')
               => (loc'[q].kind = "file" /\ loc'[q].data = rem'[q].data)
         /\ (loc'[q].kind = "file" /\ loc'[q].stamp = e.stamp /\ loc'[q].data \in Vital')
               => (rem'[q].kind = "file" /\ rem'[q].data = loc'[q].data)
<1>0. /\ Dated /\ clock \in Nat
      /\ loc[q].data < clock /\ rem[q].data < clock
      /\ loc[q].data \in Nat /\ rem[q].data \in Nat
  BY DEF LossInv, Dated, TypeOK, Typed, LocalNode, RemoteNode
<1>1. Vital' \subseteq Vital \cup {clock} /\ Vital' \subseteq owed'
  <2>1. owed' \subseteq owed \cup {clock} /\ razed' = razed
    BY <1>0, EditFate, EditStep
  <2> QED BY <2>1 DEF Vital, Garbled, Notes
<1>2. \/ loc'[q] = loc[q]
      \/ /\ loc[q].kind = "file" => loc[q].data \notin owed'
         /\ loc'[q].kind = "file" => loc'[q].stamp = clock
  BY <1>0, EditFate, Shapes
<1>3. \/ rem'[q] = rem[q]
      \/ /\ rem[q].kind = "file" => rem[q].data \notin owed'
         /\ rem'[q].kind = "file" => rem'[q].etag = clock
  BY <1>0, EditFate, Shapes
<1>4. ASSUME rem'[q].kind = "file", rem'[q].etag = e.etag, rem'[q].data \in Vital'
      PROVE  loc'[q].kind = "file" /\ loc'[q].data = rem'[q].data
  <2>1. rem'[q] = rem[q]
    BY <1>0, <1>3, <1>4
  <2>2. rem[q].data \in Vital
    BY <1>0, <1>1, <1>4, <2>1
  <2>3. loc[q].kind = "file" /\ loc[q].data = rem[q].data
    BY <1>4, <2>1, <2>2 DEF HeldHere
  <2> QED BY <1>1, <1>2, <1>4, <2>1, <2>3
<1>5. ASSUME loc'[q].kind = "file", loc'[q].stamp = e.stamp, loc'[q].data \in Vital'
      PROVE  rem'[q].kind = "file" /\ rem'[q].data = loc'[q].data
  <2>1. loc'[q] = loc[q]
    BY <1>0, <1>2, <1>5
  <2>2. loc[q].data \in Vital
    BY <1>0, <1>1, <1>5, <2>1
  <2>3. rem[q].kind = "file" /\ rem[q].data = loc[q].data
    BY <1>5, <2>1, <2>2 DEF HeldThere
  <2> QED BY <1>1, <1>3, <1>5, <2>1, <2>3
<1> QED BY <1>4, <1>5

\* So does a step of a run, for an entry of the state file or of the table.
LEMMA HeldByRun ==
  ASSUME TypeOK, Careful, Fresh, LossInv, Run, Notes, NEW q \in Path,
         NEW e \in {st[q], ss[q]}
  PROVE  /\ (rem'[q].kind = "file" /\ rem'[q].etag = e.etag /\ rem'[q].data \in Vital')
               => (loc'[q].kind = "file" /\ loc'[q].data = rem'[q].data)
         /\ (loc'[q].kind = "file" /\ loc'[q].stamp = e.stamp /\ loc'[q].data \in Vital')
               => (rem'[q].kind = "file" /\ rem'[q].data = loc'[q].data)
<1>0. /\ CopiesKept /\ Awaited /\ Transferred /\ Nobodys /\ clock \in Nat
      /\ HeldHere(e, q) /\ HeldThere(e, q)
      /\ e.etag \in Nat /\ e.stamp \in Nat /\ e.etag < clock /\ e.stamp < clock
  BY DEF LossInv, Mirrored, TypeOK, Typed, Fresh, StateEntry
<1>1. Vital' \subseteq Vital
  BY VitalRun
<1>2. ASSUME rem'[q].kind = "file", rem'[q].etag = e.etag, rem'[q].data \in Vital'
      PROVE  loc'[q].kind = "file" /\ loc'[q].data = rem'[q].data
  <2>1. rem'[q] = rem[q]
    BY <1>0, <1>2, RemoteFate, Shapes
  <2>2. rem[q].data \in Vital /\ rem[q].kind = "file" /\ rem[q].etag = e.etag
    BY <1>1, <1>2, <2>1
  <2>3. loc[q].kind = "file" /\ loc[q].data = rem[q].data
    BY <1>0, <2>2 DEF HeldHere
  <2>4. Original(q)
    BY <1>0, <2>2, VitalOriginal
  <2>5. CASE loc'[q].kind = "file" /\ loc'[q].data = loc[q].data
    BY <2>1, <2>3, <2>5
  <2>6. ASSUME NEW c \in Copies, loc'[c] = loc[q] PROVE FALSE
    <3>1. loc[q].data \in Versions(loc', Copies)
      BY <2>3, <2>6 DEF Versions
    <3>2. Versions(loc', Copies) \subseteq copied'
      BY DEF Notes, CopiesHold
    <3> QED BY <1>2, <2>1, <2>3, <3>1, <3>2 DEF Vital
  <2>7. ~DeleteLocal(q)
    <3>1. SUFFICES ASSUME DeleteLocal(q) PROVE FALSE
      OBVIOUS
    <3>2. At("item", q) /\ ~OnServer(q)
      BY <3>1 DEF DeleteLocal, FileItem
    <3> QED BY <1>0, <2>2, <3>2, AtItem DEF OnServer, SeenThere
  <2>8. ~Swap(q)
    <3>1. SUFFICES ASSUME Swap(q) PROVE FALSE
      OBVIOUS
    <3>2. First(q) /\ pc = "swap"
      BY <3>1 DEF Swap, At
    <3> QED BY <1>0, <2>2, <2>3, <2>4, <3>2 DEF Transferred
  <2> QED BY <2>2, <2>3, <2>5, <2>6, <2>7, <2>8, LocalKeeps
<1>3. ASSUME loc'[q].kind = "file", loc'[q].stamp = e.stamp, loc'[q].data \in Vital'
      PROVE  rem'[q].kind = "file" /\ rem'[q].data = loc'[q].data
  <2>1. Original(q)
    <3>1. SUFFICES ASSUME ~Original(q) PROVE FALSE
      OBVIOUS
    <3>2. q \in Copies
      BY <3>1 DEF Original, Copies
    <3>3. loc'[q].data \in Versions(loc', Copies)
      BY <1>3, <3>2 DEF Versions
    <3> QED BY <1>3, <3>3 DEF Vital, Notes, CopiesHold
  <2>2. CASE Stamp(q)
    <3>1. First(q) /\ pc = "stamp" /\ rem' = rem /\ loc'[q].data = loc[q].data
      BY <2>2, StampStep DEF TypeOK
    <3>2. rem[q].kind = "file" /\ rem[q].data = dl.of /\ loc[q].data = dl.data
      BY <1>0, <3>1 DEF Transferred
    <3>3. dl.data \in Vital
      BY <1>1, <1>3, <3>1, <3>2
    <3>4. dl.data = dl.of
      BY <1>0, <3>3, VitalWhole DEF Nobodys
    <3> QED BY <3>1, <3>2, <3>4
  <2>3. CASE loc'[q] = loc[q]
    <3>1. loc[q].data \in Vital /\ loc[q].kind = "file" /\ loc[q].stamp = e.stamp
      BY <1>1, <1>3, <2>3
    <3>2. rem[q].kind = "file" /\ rem[q].data = loc[q].data
      BY <1>0, <3>1 DEF HeldThere
    <3>3. rem[q].data \notin razed'
      BY <1>3, <2>3, <3>2 DEF Vital
    <3>4. CASE Upload(q) \/ UploadFails(q)
      <4>1. rem'[q] = rem[q] \/ (rem'[q].kind = "file" /\ rem'[q].data = loc[q].data)
        BY <3>4, UploadKeeps DEF TypeOK
      <4> QED BY <2>3, <3>2, <4>1
    <3> QED BY <2>3, <3>1, <3>2, <3>3, <3>4, RemoteKeeps
  <2>4. loc'[q] = loc[q] \/ Stamp(q)
    <3>1. loc'[q] # File(dl.data, clock)
      BY <1>0, <1>3, Shapes
    <3> QED BY <1>0, <1>3, <2>1, <3>1, LocalFate, Shapes DEF Original
  <2> QED BY <2>2, <2>3, <2>4
<1> QED BY <1>2, <1>3

\* What a run records matches on both sides the same, or the server's and what
\* a broken GET has made of it.
LEMMA NewEntryHeld ==
  ASSUME TypeOK, LossInv, NEW q \in Path, Stamp(q) \/ Upload(q) \/ Tag(q)
  PROVE  /\ rem'[q].kind = "file" /\ loc'[q].kind = "file"
         /\ CopyOf(loc'[q].data, rem'[q].data)
<1>0. /\ Transferred /\ Typed /\ CopyOf(dl.data, dl.of)
      /\ loc \in [Path -> LocalNode] /\ rem \in [Path -> RemoteNode]
  BY DEF LossInv, Nobodys, TypeOK, Typed
<1>1. CASE Stamp(q)
  <2>1. /\ rem' = rem /\ pc = "stamp" /\ First(q)
        /\ loc'[q].kind = loc[q].kind /\ loc'[q].data = loc[q].data
    BY <1>0, <1>1, StampStep
  <2> QED BY <1>0, <2>1 DEF Transferred
<1>2. CASE Upload(q)
  <2>1. rem' = Stored(q) /\ loc' = loc /\ loc[q].kind = "file"
    BY <1>2 DEF Upload, disk
  <2>2. Stored(q)[q].kind = "file" /\ Stored(q)[q].data = loc[q].data
    BY <1>0, Shapes DEF Stored
  <2> QED BY <2>1, <2>2 DEF CopyOf
<1>3. CASE Tag(q)
  BY <1>0, <1>3 DEF Tag, At, Transferred, CopyOf, disk, server
<1> QED BY <1>1, <1>2, <1>3

\* Where an entry matches a vital version on one side, the other side has it.
LEMMA MirroredStep ==
  ASSUME TypeOK, Careful, Fresh, LossInv, Users \/ Run, Notes
  PROVE  Mirrored'
<1> DEFINE Here(q, n) == (rem'[q].kind = "file" /\ rem'[q].etag = n /\ rem'[q].data \in Vital')
                           => (loc'[q].kind = "file" /\ loc'[q].data = rem'[q].data)
           There(q, n) == (loc'[q].kind = "file" /\ loc'[q].stamp = n /\ loc'[q].data \in Vital')
                           => (rem'[q].kind = "file" /\ rem'[q].data = loc'[q].data)
<1>0. [Next]_vars /\ Typed /\ Mirrored
  BY DEF Next, Run, TypeOK, LossInv
<1>1. ASSUME NEW q \in Path, NEW e \in {st[q], ss[q]}
      PROVE  Here(q, e.etag) /\ There(q, e.stamp)
  <2>1. CASE Users
    <3>1. /\ e.etag < clock /\ e.stamp < clock /\ e.etag \in Nat /\ e.stamp \in Nat
          /\ HeldHere(e, q) /\ HeldThere(e, q)
      BY <1>0 DEF Fresh, Typed, StateEntry, Mirrored
    <3> QED BY <2>1, <3>1, HeldByUsers
  <2>2. CASE Run
    BY <2>2, HeldByRun
  <2> QED BY <2>1, <2>2
<1>2. ASSUME NEW q \in Path PROVE Here(q, 0) /\ There(q, 0)
  <2>1. rem'[q].kind = "file" => rem'[q].etag # 0
    BY <1>0, FreshStep DEF Fresh
  <2>2. loc'[q].kind = "file" => loc'[q].stamp # 0
    BY DatedStep DEF Dated
  <2> QED BY <2>1, <2>2
<1>3. ASSUME NEW q \in Path PROVE Here(q, st'[q].etag) /\ There(q, st'[q].stamp)
  BY <1>0, <1>1, <1>2, StateStep, Shapes
<1>4. ASSUME NEW q \in Path PROVE Here(q, ss'[q].etag) /\ There(q, ss'[q].stamp)
  <2>1. CASE ss'[q].etag \in {0, ss[q].etag} /\ ss'[q].stamp \in {0, ss[q].stamp}
    BY <1>1, <1>2, <2>1
  <2>2. CASE ss'[q] = st[q]
    BY <1>1, <2>2
  <2>3. CASE Stamp(q) \/ Upload(q) \/ Tag(q)
    <3>1. /\ rem'[q].kind = "file" /\ loc'[q].kind = "file"
          /\ CopyOf(loc'[q].data, rem'[q].data)
      BY <2>3, NewEntryHeld
    <3>2. Nobodys /\ Vital' \subseteq Vital
      <4>1. Run
        BY <2>3 DEF Run, Engine, Downloads, Uploads
      <4> QED BY <4>1, VitalRun DEF LossInv
    <3> HIDE DEF Here, There
    <3>3. (rem'[q].data \in Vital' \/ loc'[q].data \in Vital') => loc'[q].data = rem'[q].data
      BY <3>1, <3>2, VitalWhole
    <3> QED BY <3>1, <3>3 DEF Here, There
  <2> QED BY <1>0, <2>1, <2>2, <2>3, EntryStep
<1> QED BY <1>3, <1>4 DEF Mirrored, HeldHere, HeldThere

\* The first state.
LEMMA InitLossInv ==
  ASSUME Init, Careful
  PROVE  LossInv
<1>1. /\ pc = "idle" /\ tab = {} /\ copied = CopiesHold(loc, rem)
      /\ clock = Cardinality(Path) + 1
      /\ \A p \in Path : sr[p] = Missing /\ sl[p] = Absent /\ ss[p] = NoEntry /\ rmd[p] = "no"
  BY DEF Init
<1>2. ASSUME NEW p \in Path
      PROVE  \/ loc[p] = Absent /\ rem[p] = Missing /\ st[p] = NoEntry
             \/ loc[p] = Drawer /\ rem[p] = Folder /\ st[p] = Entry(0, 0)
             \/ /\ loc[p] = File(Rank[p], Rank[p])
                /\ rem[p] = Resource(Rank[p], Rank[p], Rank[p])
                /\ st[p] = Entry(Rank[p], Rank[p])
  BY InitShape
<1>3. ASSUME NEW p \in Path
      PROVE  /\ loc[p].kind = "dir" => "dir" \in KindsOf[p]
             /\ loc[p].kind = "file" => "file" \in KindsOf[p]
  <2>1. PICK S \in Folders :
          loc[p] = IF p \in S THEN IF InitKind(p) = "dir" THEN Drawer
                                   ELSE File(Rank[p], Rank[p])
                   ELSE Absent
    BY DEF Init
  <2>2. p \in S => KindsOf[p] # {} /\ KindsOf[p] \subseteq {"file", "dir"}
    BY TreeAssumption DEF Folders
  <2> QED BY <2>1, <2>2, Shapes DEF InitKind
<1>4. Mirrored
  BY <1>1, <1>2, Shapes, Ranks DEF Mirrored, HeldHere, HeldThere
<1>5. Dated
  <2>1. ASSUME NEW p \in Path
        PROVE  /\ loc[p].data < clock /\ rem[p].data < clock
               /\ loc[p].kind = "file" => loc[p].stamp # 0
               /\ ~st[p].known => st[p].etag = 0
               /\ ~ss[p].known => ss[p].etag = 0
    BY <1>1, <1>2, Shapes, Ranks
  <2> QED BY <2>1 DEF Dated
<1>6. CopiesKept
  <2>1. ASSUME NEW c \in Copies
        PROVE  "dir" \notin {loc[c].kind, rem[c].kind, sl[c].kind, sr[c].kind}
    <3>1. c \in Path /\ "dir" \notin KindsOf[c]
      BY <2>1 DEF Copies, Careful
    <3> QED BY <1>1, <1>2, <1>3, <3>1, Shapes
  <2> QED BY <1>1, <2>1 DEF CopiesKept
<1>7. KindsFit
  BY <1>2, <1>3, Shapes DEF KindsFit
<1>8. Scanned /\ Awaited /\ Transferred
  BY <1>1 DEF Scanned, Awaited, Transferred, Looping
<1>9. Nobodys
  <2>1. mangled = {} /\ dl.data = dl.of
    BY DEF Init, NoBody, Body
  <2>2. PICK S \in Folders : owed = {Rank[p] : p \in S \ {k \in S : InitKind(k) = "dir"}}
    BY DEF Init
  <2>3. \A v \in owed : v < clock
    <3>1. S \subseteq Path
      BY DEF Folders
    <3> QED BY <1>1, <2>2, <3>1, Ranks
  <2> QED BY <2>1, <2>3 DEF Nobodys, CopyOf
<1> QED BY <1>4, <1>5, <1>6, <1>7, <1>8, <1>9 DEF LossInv

\* Every step keeps the invariant.
LEMMA LossInvStep ==
  ASSUME Careful, TypeOK, Fresh, LossInv, [Next]_vars
  PROVE  LossInv'
<1>1. CASE (Users \/ Run) /\ Notes
  BY <1>1, MirroredStep, DatedStep, NobodysStep, CopiesKeptStep, KindsFitStep,
     ScannedStep, AwaitedStep, TransferredStep DEF LossInv
<1>2. CASE UNCHANGED vars
  BY <1>2, StillKept
<1> QED BY <1>1, <1>2, StepKinds

\* LossInv is inductive, once the types are right and the numbers fresh.
THEOREM LossInvariant ==
  ASSUME Careful
  PROVE  Spec => []LossInv
<1>0. Orderly
  BY DEF Careful, Orderly
<1>1. Init => LossInv
  BY InitLossInv
<1>2. TypeOK /\ SoundInv /\ LossInv /\ [Next]_vars => LossInv'
  BY LossInvStep DEF SoundInv
<1>3. Spec => []SoundInv
  BY <1>0, SoundInvariant
<1> QED BY <1>1, <1>2, <1>3, TypeInvariant, PTL DEF Spec

\* A vital version that is there stays there, through every step of a run.
LEMMA VitalKept ==
  ASSUME Careful, TypeOK, LossInv, Run, Notes,
         NEW v \in Vital \cap Reachable
  PROVE  v \in Reachable' \cup razed'
<1>1. ASSUME NEW q \in Path, rem[q].kind = "file", rem[q].data = v
      PROVE  v \in Reachable' \cup razed'
  <2>1. CASE rem'[q] = rem[q]
    BY <1>1, <2>1 DEF Reachable, Versions
  <2>2. CASE loc' = loc /\ loc[q].kind = "file" /\ loc[q].data = rem[q].data
    BY <1>1, <2>2 DEF Reachable, Versions
  <2> QED BY <1>1, <2>1, <2>2, RemoteKeeps
<1>2. ASSUME NEW q \in Path, loc[q].kind = "file", loc[q].data = v
      PROVE  v \in Reachable' \cup razed'
  <2>1. CASE loc'[q].kind = "file" /\ loc'[q].data = loc[q].data
    BY <1>2, <2>1 DEF Reachable, Versions
  <2>2. ASSUME NEW c \in Copies, loc'[c] = loc[q] PROVE v \in Reachable'
    <3>1. c \in Path
      BY <2>2 DEF Copies
    <3> QED BY <1>2, <2>2, <3>1 DEF Reachable, Versions
  <2>3. CASE rem' = rem /\ rem[q].kind = "file" /\ rem[q].data = loc[q].data
    BY <1>2, <2>3 DEF Reachable, Versions
  <2> QED BY <1>2, <2>1, <2>2, <2>3, LocalKeeps
<1>3. CASE pc \in {"swap", "install"} /\ v = dl.data
  <2>1. PICK q \in Path : First(q)
    BY <1>3 DEF LossInv, Awaited, Looping
  <2>2. rem[q].kind = "file" /\ rem[q].data = dl.of
    BY <1>3, <2>1 DEF LossInv, Transferred
  <2>3. dl.of = v
    BY <1>3, VitalWhole DEF LossInv, Nobodys
  <2> QED BY <1>1, <2>2, <2>3
<1> QED BY <1>1, <1>2, <1>3 DEF Reachable, Versions

\* No run, fault or crash takes the last copy of a version a user counts on,
\* unless it has lain in a conflict copy, went with a folder deleted on the
\* server, or was mangled by a broken GET, whose file here then passes for
\* it -- as long as users edit between runs, no drawer is unreadable, no
\* listing ends before its first element, and every conflict copy can be
\* named, made and replaced.
THEOREM LossIsConfined ==
  ASSUME Careful
  PROVE  Spec => LossConfined
<1>1. ASSUME TypeOK, LossInv, [Next]_vars, edits' = edits
      PROVE  owed \cap Reachable \subseteq Reachable' \cup razed' \cup copied \cup Garbled
  <2>1. ~Users
    <3>1. edits \in Nat
      BY <1>1 DEF TypeOK, Typed
    <3> QED BY <1>1, <3>1, EditStep
  <2>2. CASE UNCHANGED vars
    BY <2>2 DEF vars, disk, server, table, Reachable, Versions
  <2>3. CASE Run /\ Notes
    <3>1. razed \subseteq razed'
      BY <2>3, RunLedger
    <3> QED BY <1>1, <2>3, <3>1, VitalKept DEF Vital
  <2> QED BY <1>1, <2>1, <2>2, <2>3, StepKinds
<1>2. TypeOK /\ LossInv /\ [Next]_vars
        => [edits' = edits =>
              owed \cap Reachable \subseteq Reachable' \cup razed' \cup copied \cup Garbled]_vars
  BY <1>1
<1> QED BY <1>2, TypeInvariant, LossInvariant, PTL DEF Spec, LossConfined

(***************************************************************************)
(* Deletions on the server                                                 *)
(***************************************************************************)
\* No folder holds another path: what FolderGone refutes cannot happen.
Flat == \A p \in Path : Above[p] = {}

\* A resource that a run deletes on the server for itself, and not with the
\* folder it is in, is the one the state file knows, and the Amiga has none.
LEMMA DeletionStep ==
  ASSUME TypeOK, Careful, LossInv, Engine, NEW q \in Path,
         DeletedAlone(q)
  PROVE  ProvedSynced(q) /\ (Original(q) => loc[q].kind = "none")
<1>0. Awaited /\ Run
  BY DEF LossInv, Run
<1>1. ~RemoveFolder(q)
  BY <1>0 DEF RemoveFolder, Awaited, DeletedAlone
<1>2. DeleteRemote(q)
  <2>1. ASSUME NEW p \in Above[q], RequestDelete(p)
        PROVE  FALSE
    <3>1. rem'[q] # rem[q] /\ rem'[p].kind # "none" /\ p \in Path
      BY <2>1, TreeAssumption DEF DeletedAlone
    <3>2. rem' = RemoteWithout(p)
      BY <2>1, <3>1 DEF RequestDelete
    <3> QED BY <3>1, <3>2, Shapes DEF RemoteWithout, Under
  <2>2. \A p \in Above[q] : ~DeleteRemote(p) /\ ~RemoveFolder(p)
    BY <2>1 DEF DeleteRemote, RemoveFolder
  <2>3. rem[q].kind = "file" /\ rem'[q].kind = "none"
    BY DEF DeletedAlone
  <2> QED BY <1>0, <1>1, <2>2, <2>3, RemoteFate, Shapes
<1>3. At("item", q) /\ OnServer(q) /\ ~OnAmiga(q) /\ ~RChanged(q)
  BY <1>2 DEF DeleteRemote, FileItem
<1>4. ss[q].known /\ sr[q].etag = ss[q].etag
  BY <1>3 DEF RChanged
<1>5. SeenThere(q) /\ (Original(q) => SeenHere(q)) /\ ss[q] \in {st[q], NoEntry}
  BY <1>0, <1>3, AtItem
<1>6. ss[q] = st[q] /\ rem[q].etag = sr[q].etag
  BY <1>4, <1>5, Shapes DEF SeenThere, DeletedAlone
<1> QED BY <1>3, <1>4, <1>5, <1>6 DEF ProvedSynced, SeenHere, OnAmiga

\* A run deletes on the server, while the folders above it stay, only what the
\* state file knows in this very version and the Amiga's user has deleted.
THEOREM DeletionsAreFounded ==
  ASSUME Careful
  PROVE  Spec => DeletionFounded
<1>1. TypeOK /\ LossInv
        => [Engine => \A p \in Path : DeletedAlone(p) =>
              ProvedSynced(p) /\ (Original(p) => loc[p].kind = "none")]_vars
  BY DeletionStep
<1> QED BY <1>1, TypeInvariant, LossInvariant, PTL DEF Spec, DeletionFounded

\* A run deletes a file on the server only when the state file proves that
\* this very version was synced before, in any folder without subfolders.
THEOREM DeletionsAreProved ==
  ASSUME Careful, Flat
  PROVE  Spec => DeletionProved
<1>1. ASSUME TypeOK, LossInv, Engine, NEW p \in Path, rem[p].kind = "file", rem'[p].kind = "none"
      PROVE  ProvedSynced(p)
  BY <1>1, DeletionStep DEF Flat, DeletedAlone
<1>2. TypeOK /\ LossInv
        => [Engine => \A p \in Path :
              (rem[p].kind = "file" /\ rem'[p].kind = "none") => ProvedSynced(p)]_vars
  BY <1>1
<1> QED BY <1>2, TypeInvariant, LossInvariant, PTL DEF Spec, DeletionProved

\* ... and only when the Amiga's user has deleted it.
THEOREM DeletedAreGone ==
  ASSUME Careful, Flat
  PROVE  Spec => DeletedIsGone
<1>1. ASSUME TypeOK, LossInv, Engine, NEW p \in Path,
             Original(p), rem[p].kind = "file", rem'[p].kind = "none"
      PROVE  loc[p].kind = "none"
  BY <1>1, DeletionStep DEF Flat, DeletedAlone
<1>2. TypeOK /\ LossInv
        => [Engine => \A p \in Path :
              (Original(p) /\ rem[p].kind = "file" /\ rem'[p].kind = "none")
                 => loc[p].kind = "none"]_vars
  BY <1>1
<1> QED BY <1>2, TypeInvariant, LossInvariant, PTL DEF Spec, DeletedIsGone
=============================================================================
