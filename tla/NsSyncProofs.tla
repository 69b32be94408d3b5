---------------------------- MODULE NsSyncProofs ----------------------------
(***************************************************************************)
(* Theorems about the sync engine, for any folder, any bounds and any      *)
(* windows in which the users may edit: its types, and StateSound, that    *)
(* what the state file takes for unchanged on both sides is the same on    *)
(* both sides.  The invariant that carries it is SoundInv, and the         *)
(* conditions it needs are Orderly.                                        *)
(***************************************************************************)
EXTENDS NsSync, TLAPS, FiniteSetTheorems

(***************************************************************************)
(* Types                                                                   *)
(***************************************************************************)
\* What a path can be on either side, and what an entry can be.
LEMMA NodeTypes ==
  /\ Absent \in LocalNode /\ Drawer \in LocalNode
  /\ \A d, s \in Nat : File(d, s) \in LocalNode
  /\ Missing \in RemoteNode /\ Folder \in RemoteNode
  /\ \A d, e, m \in Nat : Resource(d, e, m) \in RemoteNode
  /\ NoEntry \in StateEntry
  /\ \A e, s \in Nat : Entry(e, s) \in StateEntry
BY DEF Absent, Drawer, File, Missing, Folder, Resource, NoEntry, Entry,
       LocalNode, RemoteNode, StateEntry, Kinds

\* A folder's path is a path, and so are those above it.
LEMMA Places ==
  ASSUME NEW p \in Path
  PROVE  /\ Parent[p] \in Path \cup {Root}
         /\ Above[p] \subseteq Path
         /\ Root \notin Path
         /\ Conflict[p] \in Path \cup {NoPath} /\ NoPath \notin Path
         /\ Parent[p] # Root => Parent[p] \in Path /\ Parent[p] \in Above[p]
         /\ Parent[p] = Root => Above[p] = {}
BY TreeAssumption

\* A side's versions are numbers.
LEMMA VersionTypes ==
  ASSUME NEW side, NEW S \in SUBSET Path,
         \A q \in Path : side[q].data \in Nat
  PROVE  Versions(side, S) \subseteq Nat
BY DEF Versions

MetersTyped ==
  edits \in Nat /\ faults \in Nat /\ calm \in Nat /\ owed \subseteq Nat

\* A fault, a step without one, or an edit leaves the bookkeeping typed.
LEMMA FaultTypes ==
  ASSUME Typed, NEW k, Fault(k)
  PROVE  MetersTyped'
BY DEF Typed, MetersTyped, Fault

LEMMA NoFaultTypes ==
  ASSUME Typed, NoFault
  PROVE  MetersTyped'
BY DEF Typed, MetersTyped, NoFault, meters

LEMMA EditTypes ==
  ASSUME Typed, NEW gone, NEW new, Edit(gone, new), new \subseteq Nat
  PROVE  MetersTyped' /\ UNCHANGED <<razed, pc, todo, table, st>>
<1>1. owed \subseteq Nat /\ owed' = (owed \ gone) \cup new
  BY DEF Typed, Edit
<1>2. owed' \subseteq Nat
  BY <1>1
<1>3. edits' \in Nat /\ faults' \in Nat /\ calm' \in Nat
  BY DEF Typed, Edit
<1>4. UNCHANGED <<razed, pc, todo, table, st>>
  BY DEF Edit
<1> QED BY <1>2, <1>3, <1>4 DEF MetersTyped

\* The operations on the Amiga's tree give trees of nodes.
LEMMA LocalOperations ==
  ASSUME Typed, NEW p \in Path
  PROVE  /\ Deleted(p) \in [Path -> LocalNode]
         /\ \A D \in SUBSET Path : \A k : EnsureDrawers(D, k) \in [Path -> LocalNode]
         /\ \A D \in SUBSET Path :
              EnsureDrawersFails(D) \subseteq [Path -> LocalNode]
<1>1. Deleted(p) \in [Path -> LocalNode]
  BY NodeTypes DEF Typed, Deleted
<1>2. ASSUME NEW D, NEW k PROVE EnsureDrawers(D, k) \in [Path -> LocalNode]
  BY NodeTypes DEF Typed, EnsureDrawers
<1>3. ASSUME NEW D \in SUBSET Path
      PROVE  EnsureDrawersFails(D) \subseteq [Path -> LocalNode]
  BY <1>2 DEF EnsureDrawersFails
<1> QED BY <1>1, <1>2, <1>3

\* What DELETE leaves is a tree of nodes, and what it takes are versions.
LEMMA RequestDeleteTypes ==
  ASSUME Typed, NEW p \in Path, RequestDelete(p)
  PROVE  /\ rem' \in [Path -> RemoteNode] /\ razed' \subseteq Nat
         /\ ss' \in [Path -> StateEntry] /\ MetersTyped'
<1>1. RemoteWithout(p) \in [Path -> RemoteNode]
  BY NodeTypes DEF Typed, RemoteWithout
<1>2. rem' \in [Path -> RemoteNode]
  BY <1>1 DEF Typed, RequestDelete
<1>3. \A q \in Path : rem[q].data \in Nat
  BY DEF Typed, RemoteNode
<1>4. razed' \subseteq Nat
  <2>1. PICK S \in SUBSET Path : razed' = razed \cup Versions(rem, S)
    BY DEF RequestDelete, Under
  <2> QED BY <1>3, <2>1, VersionTypes DEF Typed
<1>5. ss' \in [Path -> StateEntry]
  BY NodeTypes DEF Typed, RequestDelete, Record
<1>6. MetersTyped'
  BY FaultTypes, NoFaultTypes DEF RequestDelete
<1> QED BY <1>2, <1>4, <1>5, <1>6

\* The table of a run that is over is an empty one.
LEMMA FreeTableTypes ==
  ASSUME FreeTable
  PROVE  /\ pc' \in PCs /\ tab' \subseteq Path /\ todo' \subseteq Path \cup {Root}
         /\ sr' \in [Path -> RemoteNode] /\ sl' \in [Path -> LocalNode]
         /\ ss' \in [Path -> StateEntry]
         /\ rmd' \in [Path -> {"no", "local", "remote"}]
         /\ dl' \in [data : Nat, of : Nat, etag : Nat]
BY NodeTypes DEF FreeTable, PCs, NoBody, Body

\* What the users do keeps the types.
LEMMA UsersTypes ==
  ASSUME Typed, Users
  PROVE  Typed'
<1>1. ASSUME NEW p \in Path, LocalWrite(p) PROVE Typed'
  <2>1. PICK s \in {clock} \cup {loc[p].stamp} :
          loc' = [loc EXCEPT ![p] = File(clock, s)]
    BY <1>1 DEF LocalWrite
  <2>2. s \in Nat /\ clock \in Nat
    BY DEF Typed, LocalNode
  <2>3. loc' \in [Path -> LocalNode]
    BY <2>1, <2>2, NodeTypes DEF Typed
  <2>4. MetersTyped' /\ UNCHANGED <<razed, pc, todo, table, st>>
    BY <1>1, <2>2, EditTypes DEF LocalWrite
  <2> QED BY <1>1, <2>2, <2>3, <2>4 DEF LocalWrite, Typed, MetersTyped, table
<1>2. ASSUME NEW p \in Path, LocalMakeDrawer(p) PROVE Typed'
  <2>1. loc' \in [Path -> LocalNode]
    BY <1>2, NodeTypes DEF LocalMakeDrawer, Typed
  <2>2. MetersTyped' /\ UNCHANGED <<razed, pc, todo, table, st>>
    BY <1>2, EditTypes DEF LocalMakeDrawer
  <2> QED BY <1>2, <2>1, <2>2 DEF LocalMakeDrawer, Typed, MetersTyped, table
<1>3. ASSUME NEW p \in Path, LocalRemove(p) PROVE Typed'
  <2>1. loc' \in [Path -> LocalNode]
    BY <1>3, NodeTypes DEF LocalRemove, Typed
  <2>2. MetersTyped' /\ UNCHANGED <<razed, pc, todo, table, st>>
    BY <1>3, EditTypes DEF LocalRemove
  <2> QED BY <1>3, <2>1, <2>2 DEF LocalRemove, Typed, MetersTyped, table
<1>4. ASSUME NEW p \in Path, RemoteWrite(p) PROVE Typed'
  <2>1. PICK m \in {clock, 0} : rem' = [rem EXCEPT ![p] = Resource(clock, clock, m)]
    BY <1>4 DEF RemoteWrite
  <2>2. clock \in Nat /\ m \in Nat
    BY DEF Typed
  <2>3. rem' \in [Path -> RemoteNode]
    BY <2>1, <2>2, NodeTypes DEF Typed
  <2>4. MetersTyped' /\ UNCHANGED <<razed, pc, todo, table, st>>
    BY <1>4, <2>2, EditTypes DEF RemoteWrite
  <2> QED BY <1>4, <2>2, <2>3, <2>4 DEF RemoteWrite, Typed, MetersTyped, table
<1>5. ASSUME NEW p \in Path, RemoteMakeFolder(p) PROVE Typed'
  <2>1. rem' \in [Path -> RemoteNode]
    BY <1>5, NodeTypes DEF RemoteMakeFolder, Typed
  <2>2. MetersTyped' /\ UNCHANGED <<razed, pc, todo, table, st>>
    BY <1>5, EditTypes DEF RemoteMakeFolder
  <2> QED BY <1>5, <2>1, <2>2 DEF RemoteMakeFolder, Typed, MetersTyped, table
<1>6. ASSUME NEW p \in Path, RemoteRemove(p) PROVE Typed'
  <2>1. rem' \in [Path -> RemoteNode]
    BY <1>6, NodeTypes DEF RemoteRemove, RemoteWithout, Typed
  <2>2. MetersTyped' /\ UNCHANGED <<razed, pc, todo, table, st>>
    BY <1>6, EditTypes DEF RemoteRemove
  <2> QED BY <1>6, <2>1, <2>2 DEF RemoteRemove, Typed, MetersTyped, table
<1> QED BY <1>1, <1>2, <1>3, <1>4, <1>5, <1>6 DEF Users

\* The scans, and the table they fill.
LEMMA ScanTypes ==
  ASSUME Typed, Scan
  PROVE  Typed'
<1>0. ASSUME NEW C \in SUBSET Path, NEW A \in Admitted(C) PROVE A \subseteq Path
  BY DEF Admitted
<1>1. ASSUME NEW d, ScanRemote(d) PROVE Typed'
  <2>1. PICK A \in Admitted(Inside(rem, d)) :
          /\ tab' = tab \cup A
          /\ sr' = [q \in Path |-> IF q \in A THEN [rem[q] EXCEPT !.data = 0]
                                   ELSE sr[q]]
          /\ todo' = (todo \ {d}) \cup {q \in A : rem[q].kind = "dir"}
    BY <1>1 DEF ScanRemote
  <2>2. A \subseteq Path
    BY <1>0 DEF Inside
  <2>3. sr' \in [Path -> RemoteNode]
    BY <2>1 DEF Typed, RemoteNode
  <2>4. tab' \subseteq Path /\ todo' \subseteq Path \cup {Root}
    BY <2>1, <2>2 DEF Typed
  <2>5. MetersTyped'
    BY <1>1, NoFaultTypes DEF ScanRemote
  <2> QED BY <1>1, <2>3, <2>4, <2>5
          DEF ScanRemote, Typed, MetersTyped, disk, server
<1>2. ASSUME NEW d, ScanRemoteFails(d) PROVE Typed'
  <2>1. MetersTyped'
    BY <1>2, NoFaultTypes, FaultTypes DEF ScanRemoteFails
  <2>2. FreeTable /\ UNCHANGED <<disk, server, clock>>
    BY <1>2 DEF ScanRemoteFails
  <2> QED BY <2>1, <2>2, FreeTableTypes DEF Typed, MetersTyped, disk, server
<1>3. CASE ScanRemoteDone
  <2>1. MetersTyped'
    BY <1>3, NoFaultTypes DEF ScanRemoteDone
  <2> QED BY <1>3, <2>1
          DEF ScanRemoteDone, Typed, MetersTyped, disk, server, table, PCs
<1>4. ASSUME NEW d, ScanLocal(d) PROVE Typed'
  <2>1. PICK A \in Admitted(Listed(d)) :
          /\ tab' = tab \cup A
          /\ sl' = [q \in Path |-> IF q \in A THEN [loc[q] EXCEPT !.data = 0]
                                   ELSE sl[q]]
          /\ todo' = (todo \ {d}) \cup {q \in Listed(d) : loc[q].kind = "dir"}
    BY <1>4 DEF ScanLocal
  <2>2. A \subseteq Path /\ Listed(d) \subseteq Path
    BY <1>0 DEF Inside, Listed
  <2>3. sl' \in [Path -> LocalNode]
    BY <2>1 DEF Typed, LocalNode
  <2>4. tab' \subseteq Path /\ todo' \subseteq Path \cup {Root}
    BY <2>1, <2>2 DEF Typed
  <2>5. loc' \in [Path -> LocalNode] /\ part' \subseteq Path
    BY <1>4, NodeTypes DEF ScanLocal, Typed
  <2>6. MetersTyped'
    BY <1>4, NoFaultTypes DEF ScanLocal
  <2> QED BY <1>4, <2>3, <2>4, <2>5, <2>6 DEF ScanLocal, Typed, MetersTyped, server
<1>5. ASSUME NEW d, ScanLocalFails(d) PROVE Typed'
  <2>1. MetersTyped'
    BY <1>5, NoFaultTypes, FaultTypes DEF ScanLocalFails
  <2> QED BY <1>5, <2>1
          DEF ScanLocalFails, Typed, MetersTyped, disk, server, table
<1>6. CASE LoadState
  <2>1. MetersTyped'
    BY <1>6, NoFaultTypes, FaultTypes DEF LoadState
  <2>2. /\ tab' \subseteq Path /\ todo' \subseteq Path \cup {Root}
        /\ ss' \in [Path -> StateEntry]
    <3>1. CASE NoFault /\ \E A \in Admitted({q \in Path : st[q].known}) :
                 /\ tab' = tab \cup A /\ todo' = tab \cup A
                 /\ ss' = [q \in Path |-> IF q \in A THEN st[q] ELSE NoEntry]
      BY <3>1, <1>0, NodeTypes DEF Typed
    <3>2. CASE todo' = tab /\ UNCHANGED <<tab, ss>>
      BY <3>2 DEF Typed
    <3> QED BY <1>6, <3>1, <3>2 DEF LoadState
  <2> QED BY <1>6, <2>1, <2>2 DEF LoadState, Typed, MetersTyped, disk, server, PCs
<1>7. ASSUME NEW d, ScanRemoteEmpty(d) PROVE Typed'
  <2>1. MetersTyped'
    BY <1>7, FaultTypes DEF ScanRemoteEmpty
  <2> QED BY <1>7, <2>1
          DEF ScanRemoteEmpty, Typed, MetersTyped, disk, server, table
<1> QED BY <1>1, <1>2, <1>3, <1>4, <1>5, <1>6, <1>7 DEF Scan

\* Recording an entry keeps the s_ column an array of entries.
LEMMA RecordTypes ==
  ASSUME Typed, NEW p \in Path
  PROVE  /\ \A e \in StateEntry : Record(p, e) => ss' \in [Path -> StateEntry]
         /\ Known(p) => ss' \in [Path -> StateEntry]
         /\ KnownDir(p) => ss' \in [Path -> StateEntry]
         /\ Advance(p) => pc' \in PCs /\ todo' \subseteq Path \cup {Root}
<1>1. ASSUME NEW e \in StateEntry, Record(p, e) PROVE ss' \in [Path -> StateEntry]
  BY <1>1 DEF Typed, Record
<1>2. [ss[p] EXCEPT !.known = TRUE] \in StateEntry
  BY DEF Typed, StateEntry
<1>3. Entry(0, ss[p].stamp) \in StateEntry
  BY DEF Typed, StateEntry, Entry
<1>4. Advance(p) => pc' \in PCs /\ todo' \subseteq Path \cup {Root}
  BY DEF Typed, Advance, PCs
<1> QED BY <1>1, <1>2, <1>3, <1>4 DEF Known, KnownDir

\* The items that are directories.
LEMMA DirectoriesTypes ==
  ASSUME Typed, Directories
  PROVE  Typed'
<1>1. ASSUME NEW p \in Path, KeepDir(p) PROVE Typed'
  <2>1. MetersTyped' /\ ss' \in [Path -> StateEntry]
    BY <1>1, NoFaultTypes, RecordTypes DEF KeepDir
  <2>2. pc' \in PCs /\ todo' \subseteq Path \cup {Root}
    BY <1>1, RecordTypes DEF KeepDir
  <2> QED BY <1>1, <2>1, <2>2 DEF KeepDir, Typed, MetersTyped, disk, server
<1>2. ASSUME NEW p \in Path, DeferRemoval(p) PROVE Typed'
  <2>1. MetersTyped'
    BY <1>2, NoFaultTypes DEF DeferRemoval
  <2>2. pc' \in PCs /\ todo' \subseteq Path \cup {Root}
    BY <1>2, RecordTypes DEF DeferRemoval
  <2>3. rmd' \in [Path -> {"no", "local", "remote"}]
    BY <1>2 DEF DeferRemoval, Typed
  <2> QED BY <1>2, <2>1, <2>2, <2>3
          DEF DeferRemoval, Typed, MetersTyped, disk, server
<1>3. ASSUME NEW p \in Path, MakeDrawer(p) PROVE Typed'
  <2>1. Above[p] \cup {p} \in SUBSET Path
    BY Places
  <2>2. loc' \in [Path -> LocalNode]
    BY <1>3, <2>1, LocalOperations DEF MakeDrawer
  <2>3. MetersTyped'
    BY <1>3, NoFaultTypes, FaultTypes DEF MakeDrawer
  <2>4. pc' \in PCs /\ todo' \subseteq Path \cup {Root}
    BY <1>3, RecordTypes DEF MakeDrawer
  <2>5. ss' \in [Path -> StateEntry]
    BY <1>3, RecordTypes DEF MakeDrawer, Typed
  <2> QED BY <1>3, <2>2, <2>3, <2>4, <2>5
          DEF MakeDrawer, Typed, MetersTyped, server
<1>4. ASSUME NEW p \in Path, MakeFolder(p) PROVE Typed'
  <2>1. rem' \in [Path -> RemoteNode]
    <3>1. [rem EXCEPT ![p] = Folder] \in [Path -> RemoteNode]
      BY NodeTypes DEF Typed
    <3> QED BY <1>4, <3>1 DEF MakeFolder, Typed
  <2>2. MetersTyped'
    BY <1>4, NoFaultTypes, FaultTypes DEF MakeFolder
  <2>3. pc' \in PCs /\ todo' \subseteq Path \cup {Root}
    BY <1>4, RecordTypes DEF MakeFolder
  <2>4. ss' \in [Path -> StateEntry]
    BY <1>4, RecordTypes DEF MakeFolder, Typed
  <2> QED BY <1>4, <2>1, <2>2, <2>3, <2>4
          DEF MakeFolder, Typed, MetersTyped, disk
<1> QED BY <1>1, <1>2, <1>3, <1>4 DEF Directories

\* The items that are files, and nothing is transferred.
LEMMA FilesTypes ==
  ASSUME Typed, Files
  PROVE  Typed'
<1>1. ASSUME NEW p \in Path, SkipBadName(p) PROVE Typed'
  <2>1. MetersTyped'
    BY <1>1, NoFaultTypes DEF SkipBadName
  <2>2. pc' \in PCs /\ todo' \subseteq Path \cup {Root}
    BY <1>1, RecordTypes DEF SkipBadName
  <2> QED BY <1>1, <2>1, <2>2 DEF SkipBadName, Typed, MetersTyped, disk, server, table
<1>2. ASSUME NEW p \in Path, Abort(p) PROVE Typed'
  <2>1. MetersTyped'
    BY <1>2, FaultTypes DEF Abort
  <2> QED BY <1>2, <2>1 DEF Abort, Typed, MetersTyped, disk, server, table, PCs
<1>3. ASSUME NEW p \in Path, KeepFile(p) PROVE Typed'
  <2>1. MetersTyped' /\ ss' \in [Path -> StateEntry]
    BY <1>3, NoFaultTypes, RecordTypes DEF KeepFile
  <2>2. pc' \in PCs /\ todo' \subseteq Path \cup {Root}
    BY <1>3, RecordTypes DEF KeepFile
  <2> QED BY <1>3, <2>1, <2>2 DEF KeepFile, Typed, MetersTyped, disk, server
<1>4. ASSUME NEW p \in Path, Forget(p) PROVE Typed'
  <2>1. MetersTyped' /\ ss' \in [Path -> StateEntry]
    BY <1>4, NoFaultTypes, RecordTypes, NodeTypes DEF Forget
  <2>2. pc' \in PCs /\ todo' \subseteq Path \cup {Root}
    BY <1>4, RecordTypes DEF Forget
  <2> QED BY <1>4, <2>1, <2>2 DEF Forget, Typed, MetersTyped, disk, server
<1>5. ASSUME NEW p \in Path, DeleteRemote(p) PROVE Typed'
  <2>1. /\ rem' \in [Path -> RemoteNode] /\ razed' \subseteq Nat
        /\ ss' \in [Path -> StateEntry] /\ MetersTyped'
    BY <1>5, RequestDeleteTypes DEF DeleteRemote
  <2>2. pc' \in PCs /\ todo' \subseteq Path \cup {Root}
    BY <1>5, RecordTypes DEF DeleteRemote
  <2> QED BY <1>5, <2>1, <2>2 DEF DeleteRemote, Typed, MetersTyped, disk
<1>6. ASSUME NEW p \in Path, DeleteLocal(p) PROVE Typed'
  <2>1. loc' \in [Path -> LocalNode]
    BY <1>6, LocalOperations DEF DeleteLocal, Typed
  <2>2. MetersTyped'
    BY <1>6, NoFaultTypes, FaultTypes DEF DeleteLocal
  <2>3. ss' \in [Path -> StateEntry]
    BY <1>6, RecordTypes, NodeTypes DEF DeleteLocal, Typed
  <2>4. pc' \in PCs /\ todo' \subseteq Path \cup {Root}
    BY <1>6, RecordTypes DEF DeleteLocal
  <2> QED BY <1>6, <2>1, <2>2, <2>3, <2>4
          DEF DeleteLocal, Typed, MetersTyped, server
<1> QED BY <1>1, <1>2, <1>3, <1>4, <1>5, <1>6 DEF Files

\* Downloads, from the first look at the item to the datestamp.
LEMMA DownloadsTypes ==
  ASSUME Typed, Downloads
  PROVE  Typed'
<1>1. ASSUME NEW p \in Path, Download(p) PROVE Typed'
  <2>1. Above[p] \in SUBSET Path
    BY Places
  <2>2. loc' \in [Path -> LocalNode]
    BY <1>1, <2>1, LocalOperations DEF Download, Typed
  <2>3. MetersTyped'
    BY <1>1, NoFaultTypes, FaultTypes DEF Download
  <2> QED BY <1>1, <2>2, <2>3 DEF Download, Typed, MetersTyped, server, table, PCs
<1>2. ASSUME NEW p \in Path, KeepConflictCopy(p) PROVE Typed'
  <2>1. loc' \in [Path -> LocalNode]
    <3> DEFINE c == Conflict[p]
               cleared == IF c = NoPath THEN loc ELSE Deleted(c)
               moved == IF c # NoPath /\ cleared[c].kind = "none" /\ loc[p].kind = "file"
                        THEN [cleared EXCEPT ![c] = loc[p], ![p] = Absent] ELSE cleared
    <3>1. cleared \in [Path -> LocalNode]
      BY Places, LocalOperations DEF Typed
    <3>2. moved \in [Path -> LocalNode]
      <4>1. loc[p] \in LocalNode
        BY DEF Typed
      <4> HIDE DEF cleared
      <4> QED BY <3>1, <4>1, NodeTypes
    <3>3. loc' \in {loc, cleared, moved}
      BY <1>2 DEF KeepConflictCopy
    <3> HIDE DEF cleared, moved
    <3> QED BY <3>1, <3>2, <3>3 DEF Typed
  <2>2. MetersTyped'
    BY <1>2, NoFaultTypes, FaultTypes DEF KeepConflictCopy
  <2>3. pc' \in PCs /\ todo' \subseteq Path \cup {Root}
    BY <1>2 DEF KeepConflictCopy, Typed, PCs
  <2>4. UNCHANGED <<part, st, server, table, clock>>
    BY <1>2 DEF KeepConflictCopy
  <2> QED BY <2>1, <2>2, <2>3, <2>4 DEF Typed, MetersTyped, server, table
<1>3. ASSUME NEW p \in Path, Get(p) PROVE Typed'
  <2>1. MetersTyped'
    BY <1>3, NoFaultTypes, FaultTypes DEF Get
  <2>2. dl' \in [data : Nat, of : Nat, etag : Nat] /\ clock' \in Nat
    BY <1>3 DEF Get, Body, Typed, RemoteNode
  <2> QED BY <1>3, <2>1, <2>2 DEF Get, Typed, MetersTyped, server, PCs
<1>4. ASSUME NEW p \in Path, GetFails(p) PROVE Typed'
  <2>1. MetersTyped'
    BY <1>4, NoFaultTypes, FaultTypes DEF GetFails
  <2>2. pc' \in PCs /\ todo' \subseteq Path \cup {Root}
    BY <1>4, RecordTypes DEF GetFails
  <2> QED BY <1>4, <2>1, <2>2 DEF GetFails, Typed, MetersTyped, server, table
<1>5. ASSUME NEW p \in Path, Swap(p) PROVE Typed'
  <2>1. loc' \in [Path -> LocalNode]
    BY <1>5, LocalOperations DEF Swap, Typed
  <2>2. MetersTyped'
    BY <1>5, NoFaultTypes, FaultTypes DEF Swap
  <2> QED BY <1>5, <2>1, <2>2 DEF Swap, Typed, MetersTyped, server, table, PCs
<1>6. ASSUME NEW p \in Path, Install(p) PROVE Typed'
  <2>1. loc' \in [Path -> LocalNode]
    BY <1>6, NodeTypes DEF Install, Typed
  <2>2. MetersTyped'
    BY <1>6, NoFaultTypes DEF Install
  <2> QED BY <1>6, <2>1, <2>2 DEF Install, Typed, MetersTyped, server, table, PCs
<1>7. ASSUME NEW p \in Path, InstallFails(p) PROVE Typed'
  <2>1. MetersTyped'
    BY <1>7, NoFaultTypes, FaultTypes DEF InstallFails
  <2>2. pc' \in PCs /\ todo' \subseteq Path \cup {Root}
    BY <1>7, RecordTypes DEF InstallFails
  <2> QED BY <1>7, <2>1, <2>2 DEF InstallFails, Typed, MetersTyped, server, table
<1>8. ASSUME NEW p \in Path, Stamp(p) PROVE Typed'
  <2>1. loc' \in [Path -> LocalNode]
    BY <1>8 DEF Stamp, Typed, LocalNode, RemoteNode
  <2>2. MetersTyped'
    BY <1>8, NoFaultTypes, FaultTypes DEF Stamp
  <2>3. ss' \in [Path -> StateEntry]
    <3>1. dl.etag \in Nat /\ loc'[p].stamp \in Nat
      BY <2>1 DEF Typed, LocalNode
    <3> QED BY <1>8, <3>1, RecordTypes, NodeTypes DEF Stamp
  <2>4. pc' \in PCs /\ todo' \subseteq Path \cup {Root}
    BY <1>8, RecordTypes DEF Stamp
  <2>5. UNCHANGED <<part, st, server, tab, sr, sl, rmd, dl, clock>>
    BY <1>8 DEF Stamp
  <2> QED BY <2>1, <2>2, <2>3, <2>4, <2>5 DEF Typed, MetersTyped, server
<1> QED BY <1>1, <1>2, <1>3, <1>4, <1>5, <1>6, <1>7, <1>8 DEF Downloads

\* Uploads.
LEMMA UploadsTypes ==
  ASSUME Typed, Uploads
  PROVE  Typed'
<1>0. ASSUME NEW p \in Path PROVE Stored(p) \in [Path -> RemoteNode]
  <2>1. loc[p].data \in Nat /\ clock \in Nat /\ sl[p].stamp \in Nat
    BY DEF Typed, LocalNode
  <2> QED BY <2>1, NodeTypes DEF Stored, Typed
<1>1. ASSUME NEW p \in Path, Upload(p) PROVE Typed'
  <2>1. rem' \in [Path -> RemoteNode]
    BY <1>0, <1>1 DEF Upload
  <2>2. MetersTyped'
    BY <1>1, NoFaultTypes DEF Upload
  <2>3. ss' \in [Path -> StateEntry]
    <3>1. clock \in Nat /\ sl[p].stamp \in Nat
      BY DEF Typed, LocalNode
    <3> QED BY <1>1, <3>1, RecordTypes, NodeTypes DEF Upload, Typed
  <2>4. pc' \in PCs /\ todo' \subseteq Path \cup {Root}
    BY <1>1, RecordTypes DEF Upload, Typed, PCs
  <2> QED BY <1>1, <2>1, <2>2, <2>3, <2>4 DEF Upload, Typed, MetersTyped, disk
<1>2. ASSUME NEW p \in Path, UploadFails(p) PROVE Typed'
  <2>1. rem' \in [Path -> RemoteNode] /\ clock' \in Nat
    BY <1>0, <1>2 DEF UploadFails, Typed
  <2>2. MetersTyped'
    BY <1>2, NoFaultTypes, FaultTypes DEF UploadFails
  <2>3. pc' \in PCs /\ todo' \subseteq Path \cup {Root}
    BY <1>2, RecordTypes DEF UploadFails
  <2>4. UNCHANGED <<disk, razed, table>>
    BY <1>2 DEF UploadFails
  <2> QED BY <2>1, <2>2, <2>3, <2>4 DEF Typed, MetersTyped, disk, table
<1>3. ASSUME NEW p \in Path, Tag(p) PROVE Typed'
  <2>1. MetersTyped'
    BY <1>3, NoFaultTypes, FaultTypes DEF Tag
  <2>2. ss' \in [Path -> StateEntry]
    <3>1. rem[p].etag \in Nat /\ sl[p].stamp \in Nat
      BY DEF Typed, LocalNode, RemoteNode
    <3> QED BY <1>3, <3>1, RecordTypes, NodeTypes DEF Tag
  <2>3. pc' \in PCs /\ todo' \subseteq Path \cup {Root}
    BY <1>3, RecordTypes DEF Tag
  <2> QED BY <1>3, <2>1, <2>2, <2>3 DEF Tag, Typed, MetersTyped, disk, server
<1> QED BY <1>1, <1>2, <1>3 DEF Uploads

\* A state file cut short holds entries still.
LEMMA SaveTypes ==
  ASSUME Typed, NEW S
  PROVE  [p \in Path |-> IF p \in S THEN ss[p] ELSE NoEntry] \in [Path -> StateEntry]
BY NodeTypes DEF Typed

\* The end of a run.
LEMMA FinishTypes ==
  ASSUME Typed, Finish
  PROVE  Typed'
<1>1. CASE LeaveLoop
  <2>1. MetersTyped'
    BY <1>1, NoFaultTypes DEF LeaveLoop
  <2> QED BY <1>1, <2>1 DEF LeaveLoop, Typed, MetersTyped, disk, server, table, PCs
<1>2. CASE LeaveRemovals
  <2>1. MetersTyped'
    BY <1>2, NoFaultTypes DEF LeaveRemovals
  <2> QED BY <1>2, <2>1 DEF LeaveRemovals, Typed, MetersTyped, disk, server, table, PCs
<1>3. CASE Save
  <2>1. MetersTyped'
    BY <1>3, NoFaultTypes, FaultTypes DEF Save
  <2>2. st' \in [Path -> StateEntry]
    BY <1>3, SaveTypes DEF Save, Typed
  <2>3. FreeTable /\ UNCHANGED <<loc, part, server, clock>>
    BY <1>3 DEF Save
  <2> QED BY <2>1, <2>2, <2>3, FreeTableTypes DEF Typed, MetersTyped, server
<1>4. ASSUME NEW p \in Path, RemoveFolder(p) PROVE Typed'
  <2>1. /\ rem' \in [Path -> RemoteNode] /\ razed' \subseteq Nat
        /\ ss' \in [Path -> StateEntry] /\ MetersTyped'
    BY <1>4, RequestDeleteTypes DEF RemoveFolder
  <2> QED BY <1>4, <2>1 DEF RemoveFolder, Typed, MetersTyped, disk
<1>5. ASSUME NEW p \in Path, RemoveDrawer(p) PROVE Typed'
  <2>1. loc' \in [Path -> LocalNode]
    BY <1>5, LocalOperations DEF RemoveDrawer, Typed
  <2>2. MetersTyped'
    BY <1>5, NoFaultTypes, FaultTypes DEF RemoveDrawer
  <2>3. ss' \in [Path -> StateEntry]
    BY <1>5, RecordTypes, NodeTypes DEF RemoveDrawer
  <2> QED BY <1>5, <2>1, <2>2, <2>3
          DEF RemoveDrawer, Typed, MetersTyped, server
<1> QED BY <1>1, <1>2, <1>3, <1>4, <1>5 DEF Finish

\* Every step keeps the types.
LEMMA TypedStep ==
  ASSUME Typed, [Next]_vars
  PROVE  Typed'
<1>1. CASE Start
  <2>1. edits' \in Nat /\ faults' \in Nat /\ owed' \subseteq Nat
    BY <1>1 DEF Start, Typed
  <2>2. calm' \in Nat
    BY <1>1 DEF Start, Typed
  <2> QED BY <1>1, <2>1, <2>2 DEF Start, Typed, disk, server, table, PCs
<1>2. CASE Crash
  <2>1. MetersTyped'
    BY <1>2, FaultTypes DEF Crash
  <2>2. st' \in [Path -> StateEntry]
    BY <1>2, SaveTypes DEF Crash, Typed
  <2>3. part' \subseteq Path
    BY <1>2 DEF Crash, Typed
  <2>4. FreeTable /\ UNCHANGED <<loc, server, clock>>
    BY <1>2 DEF Crash
  <2> QED BY <2>1, <2>2, <2>3, <2>4, FreeTableTypes DEF Typed, MetersTyped, server
<1>3. CASE DropState
  <2>1. MetersTyped'
    BY <1>3, FaultTypes DEF DropState
  <2>2. st' \in [Path -> StateEntry]
    BY <1>3, NodeTypes DEF DropState
  <2> QED BY <1>3, <2>1, <2>2 DEF DropState, Typed, MetersTyped, server, table
<1>4. CASE UNCHANGED vars
  BY <1>4 DEF vars, disk, server, table, meters, Typed
<1> QED BY <1>1, <1>2, <1>3, <1>4, UsersTypes, ScanTypes, DirectoriesTypes,
           FilesTypes, DownloadsTypes, UploadsTypes, FinishTypes DEF Next, Engine

(***************************************************************************)
(* Trees                                                                   *)
(***************************************************************************)
\* Nothing is in a directory that is not there, if nothing is made outside
\* one and none goes from above something.
LEMMA TreeKept ==
  ASSUME NEW side, NEW new, Tree(side),
         \A q \in Path : new[q].kind # "none" /\ Parent[q] # Root =>
           \/ new[Parent[q]].kind = "dir"
           \/ /\ side[q].kind # "none"
              /\ side[Parent[q]].kind = "dir" => new[Parent[q]].kind = "dir"
  PROVE  Tree(new)
BY Places DEF Tree, IsDir

\* Putting a file or a directory where its parent is.
LEMMA TreeWithNode ==
  ASSUME NEW side, NEW N, side \in [Path -> N], Tree(side),
         NEW p \in Path, NEW node,
         IsDir(side, Parent[p]), node.kind = "dir" \/ side[p].kind # "dir"
  PROVE  Tree([side EXCEPT ![p] = node])
<1> DEFINE new == [side EXCEPT ![p] = node]
<1>1. \A q \in Path : new[q] = IF q = p THEN node ELSE side[q]
  OBVIOUS
<1>2. ASSUME NEW q \in Path, new[q].kind # "none", Parent[q] # Root
      PROVE  new[Parent[q]].kind = "dir"
  <2>1. Parent[q] \in Path /\ Parent[q] \in Above[q]
    BY <1>2, Places
  <2>2. side[Parent[q]].kind = "dir"
    <3>1. CASE q = p
      BY <1>2, <2>1, <3>1 DEF IsDir
    <3>2. CASE q # p
      BY <1>1, <1>2, <2>1, <3>2 DEF Tree, IsDir
    <3> QED BY <3>1, <3>2
  <2> QED BY <1>1, <2>1, <2>2
<1> QED BY <1>2, TreeKept

\* Taking away a path with everything below it.
LEMMA TreeWithout ==
  ASSUME NEW side, Tree(side), NEW p \in Path, NEW gone, gone.kind = "none"
  PROVE  Tree([q \in Path |-> IF q \in Under(p) THEN gone ELSE side[q]])
<1> DEFINE new == [q \in Path |-> IF q \in Under(p) THEN gone ELSE side[q]]
<1>1. ASSUME NEW q \in Path, new[q].kind # "none", Parent[q] # Root
      PROVE  side[q].kind # "none" /\ new[Parent[q]] = side[Parent[q]]
  <2>1. q \notin Under(p) /\ side[q].kind # "none"
    BY <1>1
  <2>2. /\ Parent[q] \in Path /\ Parent[q] \in Above[q]
        /\ Above[Parent[q]] \subseteq Above[q]
    BY <1>1, Places, TreeAssumption
  <2>3. Parent[q] \notin Under(p)
    BY <2>1, <2>2 DEF Under
  <2> QED BY <2>1, <2>2, <2>3
<1> HIDE DEF new
<1>2. Tree(new)
  BY <1>1, TreeKept
<1> QED BY <1>2 DEF new

\* DeleteFile() takes nothing that has something in it.
LEMMA TreeDeleted ==
  ASSUME Typed, Tree(loc), NEW p \in Path
  PROVE  Tree(Deleted(p))
<1>1. CASE ~Deletable(p)
  <2>1. Deleted(p) = loc
    BY <1>1 DEF Deleted, Typed
  <2> QED BY <2>1
<1>2. CASE Deletable(p)
  <2>1. \A q \in Path : Deleted(p)[q] = IF q = p THEN Absent ELSE loc[q]
    BY <1>2 DEF Deleted, Typed
  <2>2. \A q \in Path : Parent[q] = p => loc[q].kind = "none"
    BY <1>2 DEF Deletable, Inside
  <2>3. Absent.kind = "none"
    BY DEF Absent
  <2>4. ASSUME NEW q \in Path, Deleted(p)[q].kind # "none", Parent[q] # Root
        PROVE  loc[q].kind # "none" /\ Deleted(p)[Parent[q]] = loc[Parent[q]]
    BY <2>1, <2>2, <2>3, <2>4, Places
  <2> QED BY <2>4, TreeKept
<1> QED BY <1>1, <1>2

\* CreateDir from the top down leaves a tree.
LEMMA TreeEnsured ==
  ASSUME Typed, Tree(loc), NEW p \in Path, NEW D \in {Above[p], Above[p] \cup {p}}
  PROVE  Tree(EnsureDrawers(D, p))
<1> DEFINE new == EnsureDrawers(D, p)
<1>1. CASE \E q \in D \ {p} : loc[q].kind = "file"
  BY <1>1 DEF EnsureDrawers
<1>2. CASE \A q \in D \ {p} : loc[q].kind # "file"
  <2>1. \A q \in Path :
          new[q] = IF q \in D /\ loc[q].kind = "none" THEN Drawer ELSE loc[q]
    BY <1>2 DEF EnsureDrawers
  <2>2. \A q \in D : q \in Path /\ Above[q] \subseteq D \ {p}
    BY TreeAssumption
  <2>3. Drawer.kind = "dir"
    BY DEF Drawer
  <2>4. ASSUME NEW q \in Path, new[q].kind # "none", Parent[q] # Root
        PROVE  new[Parent[q]].kind = "dir"
    <3>1. Parent[q] \in Path /\ Parent[q] \in Above[q]
      BY <2>4, Places
    <3>2. CASE loc[q].kind # "none"
      <4>1. loc[Parent[q]].kind = "dir"
        BY <2>4, <3>1, <3>2 DEF Tree, IsDir
      <4> QED BY <2>1, <3>1, <4>1
    <3>3. CASE loc[q].kind = "none"
      <4>1. q \in D
        BY <2>1, <2>4, <3>3
      <4>2. Parent[q] \in D \ {p}
        BY <2>2, <3>1, <4>1
      <4>3. loc[Parent[q]].kind # "file"
        BY <1>2, <4>2
      <4>4. loc[Parent[q]].kind \in Kinds
        BY <3>1 DEF Typed, LocalNode
      <4> QED BY <2>1, <2>3, <3>1, <4>2, <4>3, <4>4 DEF Kinds
    <3> QED BY <3>2, <3>3
  <2> QED BY <2>4, TreeKept
<1> QED BY <1>1, <1>2

\* What a CreateDir that fails leaves is a tree, too.
LEMMA TreeEnsuredFails ==
  ASSUME Typed, Tree(loc), NEW D \in SUBSET Path, NEW t \in EnsureDrawersFails(D)
  PROVE  Tree(t)
<1>1. PICK k \in D : t = EnsureDrawers(Above[k], k)
  BY DEF EnsureDrawersFails
<1> QED BY <1>1, TreeEnsured

\* The copy a conflict leaves is beside the file, so the drawer is there.
LEMMA TreeConflictCopy ==
  ASSUME Typed, Tree(loc), NEW p \in Path, KeepConflictCopy(p)
  PROVE  Tree(loc)'
<1> DEFINE c == Conflict[p]
           cleared == IF c = NoPath THEN loc ELSE Deleted(c)
           moved == IF c # NoPath /\ cleared[c].kind = "none" /\ loc[p].kind = "file"
                    THEN [cleared EXCEPT ![c] = loc[p], ![p] = Absent] ELSE cleared
<1>1. loc' \in {loc, cleared, moved}
  BY DEF KeepConflictCopy
<1>2. Tree(cleared)
  BY Places, TreeDeleted
<1>3. Tree(moved)
  <2>1. CASE ~(c # NoPath /\ cleared[c].kind = "none" /\ loc[p].kind = "file")
    BY <1>2, <2>1
  <2>2. CASE c # NoPath /\ cleared[c].kind = "none" /\ loc[p].kind = "file"
    <3>1. c \in Path /\ Parent[c] = Parent[p] /\ Rank[p] < Rank[c]
      BY <2>2, Places, TreeAssumption
    <3>2. Rank[p] \in Nat /\ c # p
      BY <3>1, TreeAssumption
    <3>3. /\ cleared \in [Path -> LocalNode]
          /\ \A q \in Path : cleared[q].kind = "dir" => loc[q].kind = "dir"
      <4>1. cleared = Deleted(c)
        BY <2>2
      <4>2. Deleted(c) \in [Path -> LocalNode]
        BY <3>1, LocalOperations
      <4>3. \A q \in Path : Deleted(c)[q].kind = "dir" => loc[q].kind = "dir"
        BY DEF Deleted, Absent, Typed
      <4> QED BY <4>1, <4>2, <4>3
    <3>4. \A q \in Path : moved[q] = IF q = p THEN Absent
                                     ELSE IF q = c THEN loc[p] ELSE cleared[q]
      <4> HIDE DEF cleared, c
      <4> QED BY <2>2, <3>1, <3>2, <3>3
    <3>5. ASSUME NEW q \in Path, moved[q].kind # "none", Parent[q] # Root
          PROVE  moved[Parent[q]].kind = "dir"
      <4>1. Parent[q] \in Path
        BY <3>5, Places
      <4>2. cleared[Parent[q]].kind = "dir"
        <5>1. CASE q = c
          <6>1. cleared[p].kind # "none" \/ q # c
            <7>1. CASE cleared = loc
              BY <2>2, <7>1
            <7>2. CASE cleared # loc
              BY <2>2, <3>2, <7>2 DEF Deleted, Typed
            <7> QED BY <7>1, <7>2
          <6> QED BY <1>2, <3>1, <3>5, <5>1, <6>1 DEF Tree, IsDir
        <5>2. CASE q # c
          <6>1. cleared[q].kind # "none"
            BY <3>4, <3>5, <5>2 DEF Absent
          <6> QED BY <1>2, <3>5, <6>1 DEF Tree, IsDir
        <5> QED BY <5>1, <5>2
      <4>3. Parent[q] # p /\ Parent[q] # c
        BY <2>2, <3>3, <4>1, <4>2
      <4> QED BY <3>4, <4>1, <4>2, <4>3
    <3> HIDE DEF moved
    <3> QED BY <1>2, <3>5, TreeKept
  <2> QED BY <2>1, <2>2
<1> HIDE DEF cleared, moved
<1> QED BY <1>1, <1>2, <1>3

\* What the users do to the trees.
LEMMA UsersTree ==
  ASSUME Typed, Tree(loc), Tree(rem), Users
  PROVE  Tree(loc)' /\ Tree(rem)'
<1>1. ASSUME NEW p \in Path, LocalWrite(p) PROVE Tree(loc)' /\ Tree(rem)'
  <2>1. PICK s : loc' = [loc EXCEPT ![p] = File(clock, s)]
    BY <1>1 DEF LocalWrite
  <2>2. loc \in [Path -> LocalNode]
    BY DEF Typed
  <2>3. Tree([loc EXCEPT ![p] = File(clock, s)])
    BY <1>1, <2>2, TreeWithNode DEF LocalWrite
  <2> QED BY <1>1, <2>1, <2>3 DEF LocalWrite
<1>2. ASSUME NEW p \in Path, LocalMakeDrawer(p) PROVE Tree(loc)' /\ Tree(rem)'
  <2>1. loc \in [Path -> LocalNode]
    BY DEF Typed
  <2>2. Tree([loc EXCEPT ![p] = Drawer])
    BY <1>2, <2>1, TreeWithNode DEF LocalMakeDrawer, Drawer
  <2> QED BY <1>2, <2>2 DEF LocalMakeDrawer
<1>3. ASSUME NEW p \in Path, LocalRemove(p) PROVE Tree(loc)' /\ Tree(rem)'
  <2>1. Tree([q \in Path |-> IF q \in Under(p) THEN Absent ELSE loc[q]])
    BY TreeWithout DEF Absent
  <2> QED BY <1>3, <2>1 DEF LocalRemove
<1>4. ASSUME NEW p \in Path, RemoteWrite(p) PROVE Tree(loc)' /\ Tree(rem)'
  <2>1. PICK m : rem' = [rem EXCEPT ![p] = Resource(clock, clock, m)]
    BY <1>4 DEF RemoteWrite
  <2>2. rem \in [Path -> RemoteNode]
    BY DEF Typed
  <2>3. Tree([rem EXCEPT ![p] = Resource(clock, clock, m)])
    BY <1>4, <2>2, TreeWithNode DEF RemoteWrite
  <2> QED BY <1>4, <2>1, <2>3 DEF RemoteWrite
<1>5. ASSUME NEW p \in Path, RemoteMakeFolder(p) PROVE Tree(loc)' /\ Tree(rem)'
  <2>1. rem \in [Path -> RemoteNode]
    BY DEF Typed
  <2>2. Tree([rem EXCEPT ![p] = Folder])
    BY <1>5, <2>1, TreeWithNode DEF RemoteMakeFolder, Folder
  <2> QED BY <1>5, <2>2 DEF RemoteMakeFolder
<1>6. ASSUME NEW p \in Path, RemoteRemove(p) PROVE Tree(loc)' /\ Tree(rem)'
  <2>1. Tree(RemoteWithout(p))
    BY TreeWithout DEF RemoteWithout, Missing
  <2> QED BY <1>6, <2>1 DEF RemoteRemove
<1> QED BY <1>1, <1>2, <1>3, <1>4, <1>5, <1>6 DEF Users

\* The steps of the engine that touch the drawer.
LEMMA EngineLocalStep ==
  ASSUME Engine
  PROVE  \/ UNCHANGED loc
         \/ \E d \in Path \cup {Root} : ScanLocal(d)
         \/ \E p \in Path : \/ MakeDrawer(p) \/ Download(p) \/ DeleteLocal(p)
                            \/ Swap(p) \/ RemoveDrawer(p) \/ Install(p)
                            \/ Stamp(p) \/ KeepConflictCopy(p)
<1>1. Scan => UNCHANGED loc \/ \E d \in Path \cup {Root} : ScanLocal(d)
  BY DEF Scan, ScanRemoteDone, LoadState, ScanRemote, ScanRemoteFails, ScanRemoteEmpty,
         ScanLocalFails, disk
<1>2. Directories => UNCHANGED loc \/ \E p \in Path : MakeDrawer(p)
  BY DEF Directories, KeepDir, DeferRemoval, MakeFolder, disk
<1>3. Files => UNCHANGED loc \/ \E p \in Path : DeleteLocal(p)
  BY DEF Files, SkipBadName, Abort, KeepFile, Forget, DeleteRemote, disk
<1>4. Downloads => \/ UNCHANGED loc
                   \/ \E p \in Path : \/ Download(p) \/ Swap(p) \/ Install(p)
                                      \/ Stamp(p) \/ KeepConflictCopy(p)
  BY DEF Downloads, Get, GetFails, InstallFails
<1>5. Uploads => UNCHANGED loc
  BY DEF Uploads, Upload, UploadFails, Tag, disk
<1>6. Finish => UNCHANGED loc \/ \E p \in Path : RemoveDrawer(p)
  BY DEF Finish, LeaveLoop, LeaveRemovals, Save, RemoveFolder, disk
<1> QED BY <1>1, <1>2, <1>3, <1>4, <1>5, <1>6 DEF Engine

\* The steps of the engine that touch the folder on the server.
LEMMA EngineRemoteStep ==
  ASSUME Engine
  PROVE  \/ UNCHANGED rem
         \/ \E p \in Path : \/ MakeFolder(p) \/ DeleteRemote(p) \/ RemoveFolder(p)
                            \/ Upload(p) \/ UploadFails(p)
<1>1. Scan => UNCHANGED rem
  BY DEF Scan, ScanRemoteDone, LoadState, ScanRemote, ScanRemoteFails, ScanRemoteEmpty,
         ScanLocal, ScanLocalFails, server
<1>2. Directories => UNCHANGED rem \/ \E p \in Path : MakeFolder(p)
  BY DEF Directories, KeepDir, DeferRemoval, MakeDrawer, server
<1>3. Files => UNCHANGED rem \/ \E p \in Path : DeleteRemote(p)
  BY DEF Files, SkipBadName, Abort, KeepFile, Forget, DeleteLocal, server
<1>4. Downloads => UNCHANGED rem
  BY DEF Downloads, Download, KeepConflictCopy, Get, GetFails, Swap, Install,
         InstallFails, Stamp, server
<1>5. Uploads => UNCHANGED rem \/ \E p \in Path : Upload(p) \/ UploadFails(p)
  BY DEF Uploads, Tag, server
<1>6. Finish => UNCHANGED rem \/ \E p \in Path : RemoveFolder(p)
  BY DEF Finish, LeaveLoop, LeaveRemovals, Save, RemoveDrawer, server
<1> QED BY <1>1, <1>2, <1>3, <1>4, <1>5, <1>6 DEF Engine

\* What the engine does to the drawer's tree.
LEMMA EngineLocalTree ==
  ASSUME Typed, Tree(loc), Engine
  PROVE  Tree(loc)'
<1>1. CASE UNCHANGED loc
  BY <1>1 DEF Tree, IsDir
<1>2. ASSUME NEW d, ScanLocal(d) PROVE Tree(loc)'
  <2>1. \A q \in Path : loc'[q] = IF Parent[q] = d /\ Class[q] = "part" /\ Deletable(q)
                                  THEN Absent ELSE loc[q]
    BY <1>2 DEF ScanLocal
  <2>2. ASSUME NEW q \in Path, loc'[q].kind # "none", Parent[q] # Root
        PROVE  loc[q].kind # "none" /\ loc'[Parent[q]] = loc[Parent[q]]
    <3>1. loc[q].kind # "none" /\ Parent[q] \in Path
      BY <2>1, <2>2, Places DEF Absent
    <3>2. ~Deletable(Parent[q])
      BY <3>1 DEF Deletable, Inside
    <3> QED BY <2>1, <3>1, <3>2
  <2> QED BY <2>2, TreeKept
<1>3. ASSUME NEW p \in Path, MakeDrawer(p) PROVE Tree(loc)'
  <2>1. Above[p] \cup {p} \in SUBSET Path
    BY Places
  <2>2. Tree(EnsureDrawers(Above[p] \cup {p}, p))
    BY TreeEnsured
  <2>3. \A t \in EnsureDrawersFails(Above[p] \cup {p}) : Tree(t)
    BY <2>1, TreeEnsuredFails
  <2> QED BY <1>3, <2>2, <2>3 DEF MakeDrawer
<1>4. ASSUME NEW p \in Path, Download(p) PROVE Tree(loc)'
  <2>1. Above[p] \in SUBSET Path
    BY Places
  <2>2. Tree(EnsureDrawers(Above[p], p))
    BY TreeEnsured
  <2>3. \A t \in EnsureDrawersFails(Above[p]) : Tree(t)
    BY <2>1, TreeEnsuredFails
  <2> QED BY <1>4, <2>2, <2>3 DEF Download
<1>5. ASSUME NEW p \in Path, DeleteLocal(p) \/ Swap(p) \/ RemoveDrawer(p)
      PROVE  Tree(loc)'
  <2>1. loc' = Deleted(p) \/ loc' = loc
    BY <1>5 DEF DeleteLocal, Swap, RemoveDrawer
  <2> QED BY <2>1, TreeDeleted
<1>6. ASSUME NEW p \in Path, Install(p) PROVE Tree(loc)'
  <2>1. loc \in [Path -> LocalNode]
    BY DEF Typed
  <2>2. Tree([loc EXCEPT ![p] = File(dl.data, clock)])
    BY <1>6, <2>1, TreeWithNode DEF Install, CanInstall
  <2> QED BY <1>6, <2>2 DEF Install
<1>7. ASSUME NEW p \in Path, Stamp(p) PROVE Tree(loc)'
  <2>1. \A q \in Path : loc'[q].kind = loc[q].kind
    BY <1>7 DEF Stamp, Typed, LocalNode
  <2> QED BY <2>1, Places, TreeKept
<1>8. CASE \E p \in Path : KeepConflictCopy(p)
  BY <1>8, TreeConflictCopy
<1> QED BY <1>1, <1>2, <1>3, <1>4, <1>5, <1>6, <1>7, <1>8, EngineLocalStep

\* What the engine's requests do to the folder's tree.
LEMMA EngineRemoteTree ==
  ASSUME Typed, Tree(rem), Engine
  PROVE  Tree(rem)'
<1>0. rem \in [Path -> RemoteNode]
  BY DEF Typed
<1>1. CASE UNCHANGED rem
  BY <1>1 DEF Tree, IsDir
<1>2. ASSUME NEW p \in Path, MakeFolder(p) PROVE Tree(rem)'
  <2>1. IsDir(rem, Parent[p]) => Tree([rem EXCEPT ![p] = Folder])
    BY <1>0, TreeWithNode DEF Folder
  <2> QED BY <1>2, <2>1 DEF MakeFolder
<1>3. ASSUME NEW p \in Path, RequestDelete(p) PROVE Tree(rem)'
  <2>1. Tree(RemoteWithout(p))
    BY TreeWithout DEF RemoteWithout, Missing
  <2> QED BY <1>3, <2>1 DEF RequestDelete
<1>4. ASSUME NEW p \in Path, Upload(p) \/ UploadFails(p) PROVE Tree(rem)'
  <2>1. PutAccepted(p) => Tree(Stored(p))
    BY <1>0, TreeWithNode DEF PutAccepted, Stored
  <2> QED BY <1>4, <2>1 DEF Upload, UploadFails
<1> QED BY <1>1, <1>2, <1>3, <1>4, EngineRemoteStep DEF DeleteRemote, RemoveFolder

\* The first state, path by path: nothing, a directory, or a file that is
\* the same on both sides and in the state file, in directories that are.
LEMMA InitShape ==
  ASSUME Init
  PROVE  /\ loc = [p \in Path |-> loc[p]]
         /\ rem = [p \in Path |-> rem[p]]
         /\ st = [p \in Path |-> st[p]]
         /\ \A p \in Path :
              \/ loc[p] = Absent /\ rem[p] = Missing /\ st[p] = NoEntry
              \/ loc[p] = Drawer /\ rem[p] = Folder /\ st[p] = Entry(0, 0)
              \/ /\ loc[p] = File(Rank[p], Rank[p])
                 /\ rem[p] = Resource(Rank[p], Rank[p], Rank[p])
                 /\ st[p] = Entry(Rank[p], Rank[p])
         /\ \A p \in Path : loc[p].kind # "none" /\ Parent[p] # Root =>
              loc[Parent[p]] = Drawer /\ rem[Parent[p]] = Folder
<1>1. PICK S \in Folders :
        LET Drawers == {p \in S : InitKind(p) = "dir"}
            Content == S \ Drawers
            Place(p, dir, file, none) ==
              IF p \in Drawers THEN dir ELSE IF p \in Content THEN file ELSE none
        IN /\ loc = [p \in Path |-> Place(p, Drawer, File(Rank[p], Rank[p]), Absent)]
           /\ rem = [p \in Path |->
                Place(p, Folder, Resource(Rank[p], Rank[p], Rank[p]), Missing)]
           /\ st = [p \in Path |-> Place(p, Entry(0, 0), Entry(Rank[p], Rank[p]), NoEntry)]
  BY DEF Init
<1>2. S \subseteq Path
  BY DEF Folders
<1>3. ASSUME NEW p \in Path
      PROVE  /\ loc[p] = IF p \in S THEN IF InitKind(p) = "dir" THEN Drawer
                                         ELSE File(Rank[p], Rank[p])
                         ELSE Absent
             /\ rem[p] = IF p \in S THEN IF InitKind(p) = "dir" THEN Folder
                                         ELSE Resource(Rank[p], Rank[p], Rank[p])
                         ELSE Missing
             /\ st[p] = IF p \in S THEN IF InitKind(p) = "dir" THEN Entry(0, 0)
                                        ELSE Entry(Rank[p], Rank[p])
                        ELSE NoEntry
  BY <1>1
<1>4. ASSUME NEW p \in Path, loc[p].kind # "none", Parent[p] # Root
      PROVE  loc[Parent[p]] = Drawer /\ rem[Parent[p]] = Folder
  <2>1. p \in S
    BY <1>3, <1>4 DEF Absent
  <2>2. Parent[p] \in S /\ InitKind(Parent[p]) = "dir"
    BY <1>4, <2>1 DEF Folders
  <2> QED BY <1>2, <1>3, <2>2
<1>5. /\ loc = [p \in Path |-> loc[p]]
      /\ rem = [p \in Path |-> rem[p]]
      /\ st = [p \in Path |-> st[p]]
  BY <1>1
<1> QED BY <1>3, <1>4, <1>5

\* What lies in conflict copies are numbers.
LEMMA CopiedTypes ==
  ASSUME NEW l \in [Path -> LocalNode], NEW r \in [Path -> RemoteNode]
  PROVE  CopiesHold(l, r) \subseteq Nat
<1>1. \A q \in Path : l[q].data \in Nat /\ r[q].data \in Nat
  BY DEF LocalNode, RemoteNode
<1> QED BY <1>1, VersionTypes DEF CopiesHold, Copies

\* Ranks are numbers below the first version the clock gives out.
LEMMA Ranks ==
  /\ Cardinality(Path) \in Nat
  /\ \A p \in Path : Rank[p] \in Nat /\ Rank[p] # 0 /\ Rank[p] < Cardinality(Path) + 1
<1>1. IsFiniteSet(Path) /\ Rank \in [Path -> 1..Cardinality(Path)]
  BY TreeAssumption
<1>2. Cardinality(Path) \in Nat
  BY <1>1, FS_CardinalityType
<1> QED BY <1>1, <1>2

\* The first state: types and trees.
LEMMA InitTypeOK ==
  ASSUME Init
  PROVE  TypeOK
<1>1. \A p \in Path : loc[p] \in LocalNode /\ rem[p] \in RemoteNode /\ st[p] \in StateEntry
  BY InitShape, NodeTypes, Ranks
<1>2. loc \in [Path -> LocalNode] /\ rem \in [Path -> RemoteNode] /\ st \in [Path -> StateEntry]
  BY <1>1, InitShape
<1>3. owed \subseteq Nat
  <2>1. PICK S \in Folders : owed = {Rank[p] : p \in S \ {q \in S : InitKind(q) = "dir"}}
    BY DEF Init
  <2>2. S \subseteq Path
    BY DEF Folders
  <2> QED BY <2>1, <2>2, Ranks
<1>4. /\ part \subseteq Path /\ pc \in PCs /\ tab \subseteq Path
      /\ todo \subseteq Path \cup {Root}
      /\ sr \in [Path -> RemoteNode] /\ sl \in [Path -> LocalNode]
      /\ ss \in [Path -> StateEntry] /\ rmd \in [Path -> {"no", "local", "remote"}]
      /\ dl \in [data : Nat, of : Nat, etag : Nat]
  BY NodeTypes DEF Init, PCs, NoBody, Body
<1>5. /\ clock \in Nat /\ edits \in Nat /\ faults \in Nat /\ calm \in Nat
      /\ razed \subseteq Nat
  BY Ranks DEF Init
<1>6. Typed
  BY <1>2, <1>3, <1>4, <1>5 DEF Typed
<1>7. Tree(loc) /\ Tree(rem)
  <2>1. \A p \in Path : rem[p].kind # "none" => loc[p].kind # "none"
    BY InitShape DEF Absent, Drawer, File, Missing, Folder
  <2>2. Drawer.kind = "dir" /\ Folder.kind = "dir"
    BY DEF Drawer, Folder
  <2>3. \A p \in Path : Parent[p] # Root => Parent[p] \in Path
    BY Places
  <2> QED BY <2>1, <2>2, <2>3, InitShape DEF Tree, IsDir
<1>8. copied \subseteq Nat /\ mangled \subseteq Nat \X Nat
  BY <1>6, CopiedTypes DEF Init, Typed
<1> QED BY <1>6, <1>7, <1>8 DEF TypeOK

\* Every step keeps the shape of all there is.
LEMMA TypeOKStep ==
  ASSUME TypeOK, [Next]_vars
  PROVE  TypeOK'
<1>1. Typed'
  BY TypedStep DEF TypeOK
<1>2. copied' \subseteq Nat /\ mangled' \subseteq Nat \X Nat
  <2>1. CASE Notes
    <3>1. CopiesHold(loc', rem') \subseteq Nat
      BY <1>1, CopiedTypes DEF Typed
    <3>2. dl'.of \in Nat /\ dl'.data \in Nat
      BY <1>1 DEF Typed
    <3>3. copied' \subseteq Nat
      BY <2>1, <3>1 DEF Notes, TypeOK
    <3>4. mangled' \subseteq mangled \cup {<<dl'.of, dl'.data>>}
      BY <2>1 DEF Notes
    <3> QED BY <3>2, <3>3, <3>4 DEF TypeOK
  <2> QED BY <2>1 DEF TypeOK, Next, vars
<1>3. CASE UNCHANGED <<loc, rem>>
  BY <1>1, <1>2, <1>3 DEF TypeOK, Tree, IsDir
<1>4. CASE Users
  BY <1>1, <1>2, <1>4, UsersTree DEF TypeOK
<1>5. CASE Engine
  BY <1>1, <1>2, <1>5, EngineLocalTree, EngineRemoteTree DEF TypeOK
<1>6. Start \/ Crash \/ DropState \/ UNCHANGED vars => UNCHANGED <<loc, rem>>
  BY DEF Start, Crash, DropState, vars, disk, server
<1> QED BY <1>3, <1>4, <1>5, <1>6 DEF Next

\* The two file systems, the state file and the table always have the shape
\* they should, and both file systems are trees: whatever edits, faults and
\* crashes come between, no step of nssync_run() leaves an orphan.
THEOREM TypeInvariant == Spec => []TypeOK
<1>1. Init => TypeOK
  BY InitTypeOK
<1>2. TypeOK /\ [Next]_vars => TypeOK'
  BY TypeOKStep
<1> QED BY <1>1, <1>2, PTL DEF Spec

(***************************************************************************)
(* What a step can do to one path                                          *)
(***************************************************************************)
\* The clock only ever moves on.
LEMMA ClockStep ==
  ASSUME Typed, [Next]_vars
  PROVE  clock' = clock \/ clock' = clock + 1
<1>1. Users => clock' = clock \/ clock' = clock + 1
  BY DEF Users, LocalWrite, LocalMakeDrawer, LocalRemove, RemoteWrite,
         RemoteMakeFolder, RemoteRemove
<1>2. Scan => clock' = clock
  BY DEF Scan, ScanRemoteDone, LoadState, ScanRemote, ScanRemoteFails, ScanRemoteEmpty,
         ScanLocal, ScanLocalFails
<1>3. Directories => clock' = clock
  BY DEF Directories, KeepDir, DeferRemoval, MakeDrawer, MakeFolder
<1>4. Files => clock' = clock
  BY DEF Files, SkipBadName, Abort, KeepFile, Forget, DeleteRemote, DeleteLocal
<1>5. Downloads => clock' = clock \/ clock' = clock + 1
  BY DEF Downloads, Download, KeepConflictCopy, Get, GetFails, Swap, Install,
         InstallFails, Stamp
<1>6. Uploads => clock' = clock \/ clock' = clock + 1
  BY DEF Uploads, Upload, UploadFails, Tag
<1>7. Finish => clock' = clock
  BY DEF Finish, LeaveLoop, LeaveRemovals, Save, RemoveFolder, RemoveDrawer
<1>8. Start \/ Crash \/ DropState \/ UNCHANGED vars => clock' = clock
  BY DEF Start, Crash, DropState, vars
<1> QED BY <1>1, <1>2, <1>3, <1>4, <1>5, <1>6, <1>7, <1>8 DEF Next, Engine

Drawn(n) == n = clock /\ clock' = clock + 1

\* What becomes of a path on the Amiga: it stays, goes or becomes a drawer;
\* it is written; it is dated by a download; or a conflict copy takes it.
LEMMA LocalStep ==
  ASSUME Typed, [Next]_vars, NEW q \in Path
  PROVE  \/ loc'[q] = loc[q]
         \/ loc'[q].kind # "file" /\ loc'[q].stamp = 0
         \/ Drawn(loc'[q].stamp)
         \/ Stamp(q) /\ loc'[q].stamp = sr[q].mtime
         \/ \E p \in Path : Conflict[p] = q /\ loc'[q] = loc[p]
         \/ "quick" \in Events /\ loc'[q].stamp = loc[q].stamp
<1> DEFINE Goes == loc'[q].kind # "file" /\ loc'[q].stamp = 0
<1>0. /\ loc \in [Path -> LocalNode]
      /\ Absent.kind = "none" /\ Absent.stamp = 0
      /\ Drawer.kind = "dir" /\ Drawer.stamp = 0
      /\ \A d, s : File(d, s).stamp = s
  BY DEF Typed, Absent, Drawer, File
<1>1. ASSUME NEW p \in Path, LocalWrite(p)
      PROVE  \/ loc'[q] = loc[q] \/ Drawn(loc'[q].stamp)
             \/ "quick" \in Events /\ loc'[q].stamp = loc[q].stamp
  <2>1. PICK s \in {clock} \cup {t \in {loc[p].stamp} : "quick" \in Events /\ t # 0} :
          loc' = [loc EXCEPT ![p] = File(clock, s)]
    BY <1>1 DEF LocalWrite
  <2>2. clock' = clock + 1
    BY <1>1 DEF LocalWrite
  <2> QED BY <1>0, <2>1, <2>2 DEF Drawn
<1>2. ASSUME NEW p \in Path, LocalMakeDrawer(p) PROVE loc'[q] = loc[q] \/ Goes
  BY <1>0, <1>2 DEF LocalMakeDrawer
<1>3. ASSUME NEW p \in Path, LocalRemove(p) PROVE loc'[q] = loc[q] \/ Goes
  BY <1>0, <1>3 DEF LocalRemove
<1>4. ASSUME NEW p \in Path, loc' = Deleted(p)
      PROVE  loc'[q] = loc[q] \/ Goes
  BY <1>0, <1>4 DEF Deleted
<1>5. ASSUME NEW D, NEW k, loc' = EnsureDrawers(D, k)
      PROVE  loc'[q] = loc[q] \/ Goes
  BY <1>0, <1>5 DEF EnsureDrawers
<1>6. ASSUME NEW D, loc' \in EnsureDrawersFails(D)
      PROVE  loc'[q] = loc[q] \/ Goes
  BY <1>5, <1>6 DEF EnsureDrawersFails
<1>7. ASSUME NEW d, ScanLocal(d) PROVE loc'[q] = loc[q] \/ Goes
  BY <1>0, <1>7 DEF ScanLocal
<1>8. ASSUME NEW p \in Path, MakeDrawer(p) \/ Download(p)
      PROVE  loc'[q] = loc[q] \/ Goes
  BY <1>5, <1>6, <1>8 DEF MakeDrawer, Download
<1>9. ASSUME NEW p \in Path, DeleteLocal(p) \/ Swap(p) \/ RemoveDrawer(p)
      PROVE  loc'[q] = loc[q] \/ Goes
  BY <1>4, <1>9 DEF DeleteLocal, Swap, RemoveDrawer
<1>10. ASSUME NEW p \in Path, Install(p)
       PROVE  loc'[q] = loc[q] \/ Drawn(loc'[q].stamp)
  BY <1>0, <1>10 DEF Install, Drawn
<1>11. ASSUME NEW p \in Path, Stamp(p)
       PROVE  loc'[q] = loc[q] \/ (Stamp(q) /\ loc'[q].stamp = sr[q].mtime)
  <2>1. CASE p = q
    <3>1. loc'[q] = loc[q] \/ loc'[q].stamp = sr[q].mtime
      BY <1>0, <1>11, <2>1 DEF Stamp, LocalNode
    <3> QED BY <1>11, <2>1, <3>1
  <2>2. CASE p # q
    BY <1>0, <1>11, <2>2 DEF Stamp
  <2> QED BY <2>1, <2>2
<1>12. ASSUME NEW p \in Path, KeepConflictCopy(p)
       PROVE  loc'[q] = loc[q] \/ Goes \/ (Conflict[p] = q /\ loc'[q] = loc[p])
  <2> DEFINE c == Conflict[p]
             cleared == IF c = NoPath THEN loc ELSE Deleted(c)
             moved == IF c # NoPath /\ cleared[c].kind = "none" /\ loc[p].kind = "file"
                      THEN [cleared EXCEPT ![c] = loc[p], ![p] = Absent] ELSE cleared
  <2>1. loc' \in {loc, cleared, moved}
    BY <1>12 DEF KeepConflictCopy
  <2>2. /\ cleared \in [Path -> LocalNode]
        /\ cleared[q] = loc[q] \/ cleared[q] = Absent
    <3>1. CASE c = NoPath
      BY <1>0, <3>1
    <3>2. CASE c # NoPath
      BY <1>0, <3>2, Places, LocalOperations DEF Deleted
    <3> QED BY <3>1, <3>2
  <2> HIDE DEF cleared, c
  <2>3. moved[q] \in {cleared[q], Absent} \/ (c = q /\ moved[q] = loc[p])
    <3>1. CASE q = p \/ q # c
      BY <2>2, <3>1
    <3>2. CASE q = c /\ q # p
      BY <2>2, <3>2
    <3> QED BY <3>1, <3>2
  <2>4. c = Conflict[p]
    BY DEF c
  <2> HIDE DEF moved
  <2>5. loc'[q] \in {loc[q], cleared[q], moved[q]}
    BY <2>1
  <2> QED BY <1>0, <2>2, <2>3, <2>4, <2>5
<1>13. CASE UNCHANGED loc
  BY <1>13
<1>14. Users => \/ UNCHANGED loc
                \/ \E p \in Path : LocalWrite(p) \/ LocalMakeDrawer(p) \/ LocalRemove(p)
  BY DEF Users, RemoteWrite, RemoteMakeFolder, RemoteRemove
<1>15. Start \/ Crash \/ DropState \/ UNCHANGED vars => UNCHANGED loc
  BY DEF Start, Crash, DropState, vars, disk
<1>16. CASE Users
  BY <1>1, <1>2, <1>3, <1>13, <1>14, <1>16
<1>17. CASE Engine
  BY <1>7, <1>8, <1>9, <1>10, <1>11, <1>12, <1>13, <1>17, EngineLocalStep
<1> QED BY <1>13, <1>15, <1>16, <1>17 DEF Next

\* What becomes of a path on the server: it stays, goes or becomes a folder,
\* or it is written.
LEMMA RemoteStep ==
  ASSUME Typed, [Next]_vars, NEW q \in Path
  PROVE  \/ rem'[q] = rem[q]
         \/ rem'[q].kind # "file" /\ rem'[q].etag = 0 /\ rem'[q].mtime = 0
         \/ Drawn(rem'[q].etag) /\ rem'[q].mtime \in {0, clock, sl[q].stamp}
<1> DEFINE Goes == rem'[q].kind # "file" /\ rem'[q].etag = 0 /\ rem'[q].mtime = 0
           Written == Drawn(rem'[q].etag) /\ rem'[q].mtime \in {0, clock, sl[q].stamp}
<1>0. /\ rem \in [Path -> RemoteNode]
      /\ Missing.kind = "none" /\ Missing.etag = 0 /\ Missing.mtime = 0
      /\ Folder.kind = "dir" /\ Folder.etag = 0 /\ Folder.mtime = 0
      /\ \A d, e, m : Resource(d, e, m).etag = e /\ Resource(d, e, m).mtime = m
  BY DEF Typed, Missing, Folder, Resource
<1>1. ASSUME NEW p \in Path, RemoteWrite(p) PROVE rem'[q] = rem[q] \/ Written
  <2>1. PICK m \in {clock, 0} : rem' = [rem EXCEPT ![p] = Resource(clock, clock, m)]
    BY <1>1 DEF RemoteWrite
  <2>2. clock' = clock + 1
    BY <1>1 DEF RemoteWrite
  <2> QED BY <1>0, <2>1, <2>2 DEF Drawn
<1>2. ASSUME NEW p \in Path, RemoteMakeFolder(p) PROVE rem'[q] = rem[q] \/ Goes
  BY <1>0, <1>2 DEF RemoteMakeFolder
<1>3. ASSUME NEW p \in Path, rem' = RemoteWithout(p) PROVE rem'[q] = rem[q] \/ Goes
  BY <1>0, <1>3 DEF RemoteWithout
<1>4. ASSUME NEW p \in Path, RemoteRemove(p) \/ RequestDelete(p)
      PROVE  rem'[q] = rem[q] \/ Goes
  BY <1>3, <1>4 DEF RemoteRemove, RequestDelete
<1>5. ASSUME NEW p \in Path, MakeFolder(p) PROVE rem'[q] = rem[q] \/ Goes
  BY <1>0, <1>5 DEF MakeFolder
<1>6. ASSUME NEW p \in Path, Upload(p) \/ UploadFails(p)
      PROVE  rem'[q] = rem[q] \/ Written
  <2>1. rem' = rem \/ (rem' = Stored(p) /\ clock' = clock + 1)
    BY <1>6 DEF Upload, UploadFails
  <2>2. CASE rem' = Stored(p) /\ clock' = clock + 1 /\ p = q
    <3>1. rem'[q] = Resource(loc[q].data, clock, sl[q].stamp)
      BY <1>0, <2>2 DEF Stored
    <3> QED BY <1>0, <2>2, <3>1 DEF Drawn
  <2>3. CASE rem' = Stored(p) /\ p # q
    BY <1>0, <2>3 DEF Stored
  <2> QED BY <2>1, <2>2, <2>3
<1>7. CASE UNCHANGED rem
  BY <1>7
<1>8. CASE Users
  <2>1. \/ UNCHANGED rem
        \/ \E p \in Path : RemoteWrite(p) \/ RemoteMakeFolder(p) \/ RemoteRemove(p)
    BY <1>8 DEF Users, LocalWrite, LocalMakeDrawer, LocalRemove
  <2> QED BY <1>1, <1>2, <1>4, <1>7, <2>1
<1>9. CASE Engine
  BY <1>4, <1>5, <1>6, <1>7, <1>9, EngineRemoteStep DEF DeleteRemote, RemoveFolder
<1>10. Start \/ Crash \/ DropState \/ UNCHANGED vars => UNCHANGED rem
  BY DEF Start, Crash, DropState, vars, server
<1> QED BY <1>7, <1>8, <1>9, <1>10 DEF Next

\* What becomes of an entry of the state file.
LEMMA StateStep ==
  ASSUME Typed, [Next]_vars, NEW q \in Path
  PROVE  st'[q] \in {st[q], ss[q], NoEntry} /\ (st' = st \/ pc' = "idle")
<1>1. Users => st' = st
  BY DEF Users, LocalWrite, LocalMakeDrawer, LocalRemove, RemoteWrite,
         RemoteMakeFolder, RemoteRemove, Edit
<1>2. Scan => st' = st
  BY DEF Scan, ScanRemoteDone, LoadState, ScanRemote, ScanRemoteFails, ScanRemoteEmpty,
         ScanLocal, ScanLocalFails, disk
<1>3. Directories => st' = st
  BY DEF Directories, KeepDir, DeferRemoval, MakeDrawer, MakeFolder, disk
<1>4. Files => st' = st
  BY DEF Files, SkipBadName, Abort, KeepFile, Forget, DeleteRemote, DeleteLocal, disk
<1>5. Downloads => st' = st
  BY DEF Downloads, Download, KeepConflictCopy, Get, GetFails, Swap, Install,
         InstallFails, Stamp
<1>6. Uploads => st' = st
  BY DEF Uploads, Upload, UploadFails, Tag, disk
<1>7. Finish => st' = st \/ Save
  BY DEF Finish, LeaveLoop, LeaveRemovals, RemoveFolder, RemoveDrawer, disk
<1>8. Start \/ UNCHANGED vars => st' = st
  BY DEF Start, vars, disk
<1>9. CASE Save
  BY <1>9 DEF Save, FreeTable
<1>10. CASE Crash
  BY <1>10 DEF Crash, FreeTable
<1>11. CASE DropState
  BY <1>11 DEF DropState
<1> QED BY <1>1, <1>2, <1>3, <1>4, <1>5, <1>6, <1>7, <1>8, <1>9, <1>10, <1>11
        DEF Next, Engine

\* What becomes of an entry of the table: it keeps its etag and stamp, or it
\* has no etag, or it comes from the state file, or a transfer recorded it.
LEMMA EntryStep ==
  ASSUME Typed, [Next]_vars, NEW q \in Path
  PROVE  \/ ss'[q].etag = ss[q].etag /\ ss'[q].stamp = ss[q].stamp
         \/ ss'[q].etag = 0 /\ ss'[q].stamp \in {0, ss[q].stamp}
         \/ ss'[q] = st[q]
         \/ Stamp(q) \/ Upload(q) \/ Tag(q)
<1> DEFINE Same == ss'[q].etag = ss[q].etag /\ ss'[q].stamp = ss[q].stamp
           Bare == ss'[q].etag = 0 /\ ss'[q].stamp \in {0, ss[q].stamp}
<1>0. /\ ss \in [Path -> StateEntry]
      /\ NoEntry.etag = 0 /\ NoEntry.stamp = 0
      /\ \A e, s : Entry(e, s).etag = e /\ Entry(e, s).stamp = s
  BY DEF Typed, NoEntry, Entry
<1>1. ASSUME NEW p \in Path, Known(p) PROVE Same
  BY <1>0, <1>1 DEF Known, Record, StateEntry
<1>2. ASSUME NEW p \in Path, KnownDir(p) PROVE Same \/ Bare
  BY <1>0, <1>2 DEF KnownDir, Record
<1>3. ASSUME NEW p \in Path, Record(p, NoEntry) PROVE Same \/ Bare
  BY <1>0, <1>3 DEF Record
<1>4. ASSUME NEW p \in Path, NEW e, Record(p, e), p # q PROVE Same
  BY <1>0, <1>4 DEF Record
<1>5. CASE UNCHANGED ss
  BY <1>5
<1>6. CASE FreeTable
  BY <1>0, <1>6 DEF FreeTable
<1>7. CASE LoadState
  <2>1. CASE \E A : ss' = [r \in Path |-> IF r \in A THEN st[r] ELSE NoEntry]
    BY <1>0, <2>1
  <2> QED BY <1>7, <1>5, <2>1 DEF LoadState
<1>8. Users => UNCHANGED ss
  BY DEF Users, LocalWrite, LocalMakeDrawer, LocalRemove, RemoteWrite,
         RemoteMakeFolder, RemoteRemove, Edit, table
<1>9. Scan => UNCHANGED ss \/ FreeTable \/ LoadState
  BY DEF Scan, ScanRemoteDone, ScanRemote, ScanRemoteFails, ScanRemoteEmpty, ScanLocal,
         ScanLocalFails, table
<1>10. CASE Directories
  <2>1. UNCHANGED ss \/ \E p \in Path : Known(p) \/ KnownDir(p)
    BY <1>10 DEF Directories, KeepDir, DeferRemoval, MakeDrawer, MakeFolder
  <2> QED BY <1>1, <1>2, <1>5, <2>1
<1>11. CASE Files
  <2>1. UNCHANGED ss \/ \E p \in Path : Known(p) \/ Record(p, NoEntry)
    BY <1>11 DEF Files, SkipBadName, Abort, KeepFile, Forget, DeleteRemote,
           RequestDelete, DeleteLocal, table
  <2> QED BY <1>1, <1>3, <1>5, <2>1
<1>12. CASE Downloads
  <2>1. UNCHANGED ss \/ \E p \in Path : Stamp(p)
    BY <1>12 DEF Downloads, Download, KeepConflictCopy, Get, GetFails, Swap,
           Install, InstallFails, table
  <2>2. ASSUME NEW p \in Path, Stamp(p) PROVE \E e : Record(p, e)
    BY <2>2 DEF Stamp
  <2> QED BY <1>4, <1>5, <2>1, <2>2
<1>13. CASE Uploads
  <2>1. UNCHANGED ss \/ \E p \in Path : Upload(p) \/ Tag(p)
    BY <1>13 DEF Uploads, UploadFails, table
  <2>2. ASSUME NEW p \in Path, Upload(p) \/ Tag(p)
        PROVE  UNCHANGED ss \/ \E e : Record(p, e)
    BY <2>2 DEF Upload, Tag
  <2> QED BY <1>4, <1>5, <2>1, <2>2
<1>14. CASE Finish
  <2>1. \/ UNCHANGED ss \/ FreeTable
        \/ \E p \in Path : Known(p) \/ Record(p, NoEntry)
    BY <1>14 DEF Finish, LeaveLoop, LeaveRemovals, Save, RemoveFolder,
           RequestDelete, RemoveDrawer, table
  <2> QED BY <1>1, <1>3, <1>5, <1>6, <2>1
<1>15. Start \/ Crash \/ DropState \/ UNCHANGED vars => UNCHANGED ss \/ FreeTable
  BY DEF Start, Crash, DropState, vars, table
<1> QED BY <1>5, <1>6, <1>7, <1>8, <1>9, <1>10, <1>11, <1>12, <1>13, <1>14, <1>15
        DEF Next, Engine

\* What becomes of what the scans saw.
LEMMA SeenStep ==
  ASSUME Typed, [Next]_vars, NEW q \in Path
  PROVE  /\ sl'[q] \in {Absent, sl[q], [loc[q] EXCEPT !.data = 0]}
         /\ sr'[q] \in {Missing, sr[q], [rem[q] EXCEPT !.data = 0]}
<1>1. CASE UNCHANGED <<sl, sr>>
  BY <1>1
<1>2. CASE FreeTable
  BY <1>2 DEF FreeTable
<1>3. ASSUME NEW d, ScanRemote(d)
      PROVE  sl' = sl /\ sr'[q] \in {sr[q], [rem[q] EXCEPT !.data = 0]}
  BY <1>3 DEF ScanRemote
<1>4. ASSUME NEW d, ScanLocal(d)
      PROVE  sr' = sr /\ sl'[q] \in {sl[q], [loc[q] EXCEPT !.data = 0]}
  BY <1>4 DEF ScanLocal
<1>5. Users => UNCHANGED <<sl, sr>>
  BY DEF Users, LocalWrite, LocalMakeDrawer, LocalRemove, RemoteWrite,
         RemoteMakeFolder, RemoteRemove, Edit, table
<1>6. Scan => \/ UNCHANGED <<sl, sr>> \/ FreeTable
              \/ \E d \in Path \cup {Root} : ScanRemote(d) \/ ScanLocal(d)
  BY DEF Scan, ScanRemoteDone, LoadState, ScanRemoteFails, ScanRemoteEmpty, ScanLocalFails, table
<1>7. Directories => UNCHANGED <<sl, sr>>
  BY DEF Directories, KeepDir, DeferRemoval, MakeDrawer, MakeFolder
<1>8. Files => UNCHANGED <<sl, sr>>
  BY DEF Files, SkipBadName, Abort, KeepFile, Forget, DeleteRemote, DeleteLocal, table
<1>9. Downloads => UNCHANGED <<sl, sr>>
  BY DEF Downloads, Download, KeepConflictCopy, Get, GetFails, Swap, Install,
         InstallFails, Stamp, table
<1>10. Uploads => UNCHANGED <<sl, sr>>
  BY DEF Uploads, Upload, UploadFails, Tag, table
<1>11. Finish => UNCHANGED <<sl, sr>> \/ FreeTable
  BY DEF Finish, LeaveLoop, LeaveRemovals, Save, RemoveFolder, RemoveDrawer, table
<1>12. Start \/ Crash \/ DropState \/ UNCHANGED vars =>
         UNCHANGED <<sl, sr>> \/ FreeTable
  BY DEF Start, Crash, DropState, vars, table
<1> QED BY <1>1, <1>2, <1>3, <1>4, <1>5, <1>6, <1>7, <1>8, <1>9, <1>10, <1>11, <1>12
        DEF Next, Engine

\* What becomes of the download under way.
LEMMA FetchStep ==
  ASSUME [Next]_vars
  PROVE  \/ UNCHANGED dl \/ (dl' = NoBody /\ dl'.etag = 0)
         \/ \E p \in Path : Get(p)
<1>1. Users => UNCHANGED dl
  BY DEF Users, LocalWrite, LocalMakeDrawer, LocalRemove, RemoteWrite,
         RemoteMakeFolder, RemoteRemove, Edit, table
<1>2. Scan => UNCHANGED dl \/ FreeTable
  BY DEF Scan, ScanRemoteDone, LoadState, ScanRemote, ScanRemoteFails, ScanRemoteEmpty,
         ScanLocal, ScanLocalFails, table
<1>3. Directories => UNCHANGED dl
  BY DEF Directories, KeepDir, DeferRemoval, MakeDrawer, MakeFolder
<1>4. Files => UNCHANGED dl
  BY DEF Files, SkipBadName, Abort, KeepFile, Forget, DeleteRemote, DeleteLocal, table
<1>5. Downloads => UNCHANGED dl \/ \E p \in Path : Get(p)
  BY DEF Downloads, Download, KeepConflictCopy, GetFails, Swap, Install,
         InstallFails, Stamp, table
<1>6. Uploads => UNCHANGED dl
  BY DEF Uploads, Upload, UploadFails, Tag, table
<1>7. Finish => UNCHANGED dl \/ FreeTable
  BY DEF Finish, LeaveLoop, LeaveRemovals, Save, RemoveFolder, RemoveDrawer, table
<1>8. Start \/ Crash \/ DropState \/ UNCHANGED vars => UNCHANGED dl \/ FreeTable
  BY DEF Start, Crash, DropState, vars, table
<1>9. FreeTable => dl' = NoBody /\ dl'.etag = 0
  BY DEF FreeTable, NoBody, Body
<1> QED BY <1>1, <1>2, <1>3, <1>4, <1>5, <1>6, <1>7, <1>8, <1>9 DEF Next, Engine

(***************************************************************************)
(* Freshness                                                               *)
(***************************************************************************)
\* No step lets a number catch up with the clock.
LEMMA FreshStep ==
  ASSUME Typed, Fresh, [Next]_vars
  PROVE  Fresh'
<1>0. clock \in Nat /\ clock # 0 /\ clock' \in Nat /\ clock <= clock' /\ clock' # 0
  BY ClockStep DEF Typed, Fresh
<1>1. ASSUME NEW q \in Path
      PROVE  /\ loc[q].stamp \in Nat /\ sl[q].stamp \in Nat
             /\ rem[q].etag \in Nat /\ rem[q].mtime \in Nat /\ sr[q].mtime \in Nat
             /\ st[q].etag \in Nat /\ st[q].stamp \in Nat
             /\ ss[q].etag \in Nat /\ ss[q].stamp \in Nat /\ dl.etag \in Nat
  BY DEF Typed, LocalNode, RemoteNode, StateEntry
<1>2. ASSUME NEW q \in Path
      PROVE  /\ loc[q].stamp < clock /\ sl[q].stamp < clock
             /\ rem[q].etag < clock /\ rem[q].mtime < clock /\ sr[q].mtime < clock
             /\ rem[q].kind = "file" => rem[q].etag # 0
             /\ st[q].etag < clock /\ st[q].stamp < clock
             /\ ss[q].etag < clock /\ ss[q].stamp < clock /\ dl.etag < clock
  BY DEF Fresh
<1>3. ASSUME NEW q \in Path PROVE loc'[q].stamp < clock'
  <2>1. \A p \in Path : Conflict[p] = q /\ loc'[q] = loc[p] => loc'[q].stamp < clock'
    BY <1>0, <1>1, <1>2
  <2>2. \/ loc'[q].stamp \in {0, loc[q].stamp, sr[q].mtime}
        \/ Drawn(loc'[q].stamp)
        \/ \E p \in Path : Conflict[p] = q /\ loc'[q] = loc[p]
    BY LocalStep
  <2>3. loc'[q].stamp \in {0, loc[q].stamp, sr[q].mtime} => loc'[q].stamp < clock'
    BY <1>0, <1>1, <1>2
  <2>4. Drawn(loc'[q].stamp) => loc'[q].stamp < clock'
    BY <1>0 DEF Drawn
  <2> QED BY <2>1, <2>2, <2>3, <2>4
<1>4. ASSUME NEW q \in Path
      PROVE  /\ rem'[q].etag < clock' /\ rem'[q].mtime < clock'
             /\ rem'[q].kind = "file" => rem'[q].etag # 0
  <2>1. CASE rem'[q] = rem[q]
    BY <1>0, <1>1, <1>2, <2>1
  <2>2. CASE rem'[q].kind # "file" /\ rem'[q].etag = 0 /\ rem'[q].mtime = 0
    BY <1>0, <2>2
  <2>3. CASE Drawn(rem'[q].etag) /\ rem'[q].mtime \in {0, clock, sl[q].stamp}
    BY <1>0, <1>1, <1>2, <2>3 DEF Drawn
  <2> QED BY <2>1, <2>2, <2>3, RemoteStep
<1>5. ASSUME NEW q \in Path PROVE sl'[q].stamp < clock' /\ sr'[q].mtime < clock'
  <2>1. /\ sl'[q].stamp \in {0, sl[q].stamp, loc[q].stamp}
        /\ sr'[q].mtime \in {0, sr[q].mtime, rem[q].mtime}
    BY SeenStep DEF Absent, Missing, Typed, LocalNode, RemoteNode
  <2> QED BY <1>0, <1>1, <1>2, <2>1
<1>6. ASSUME NEW q \in Path PROVE st'[q].etag < clock' /\ st'[q].stamp < clock'
  <2>1. st'[q] \in {st[q], ss[q], NoEntry}
    BY StateStep
  <2>2. NoEntry.etag = 0 /\ NoEntry.stamp = 0
    BY DEF NoEntry
  <2> QED BY <1>0, <1>1, <1>2, <2>1, <2>2
<1>7. ASSUME NEW q \in Path PROVE ss'[q].etag < clock' /\ ss'[q].stamp < clock'
  <2>1. ss' \in [Path -> StateEntry] /\ ss \in [Path -> StateEntry]
    BY TypedStep DEF Typed
  <2>2. \A e, s : Entry(e, s).etag = e /\ Entry(e, s).stamp = s
    BY DEF Entry
  <2>3. CASE ss'[q].etag = ss[q].etag /\ ss'[q].stamp = ss[q].stamp
    BY <1>0, <1>1, <1>2, <2>3
  <2>4. CASE ss'[q].etag = 0 /\ ss'[q].stamp \in {0, ss[q].stamp}
    BY <1>0, <1>1, <1>2, <2>4
  <2>5. CASE ss'[q] = st[q]
    BY <1>0, <1>1, <1>2, <2>5
  <2>6. CASE Stamp(q)
    <3>1. ss'[q] = Entry(dl.etag, loc'[q].stamp) \/ ss'[q] = Entry(dl.etag, 0)
      BY <2>1, <2>6 DEF Stamp, Record
    <3> QED BY <1>0, <1>1, <1>2, <1>3, <2>2, <3>1
  <2>7. CASE Upload(q)
    <3>1. clock' = clock + 1 /\ (ss' = ss \/ Record(q, Entry(clock, sl[q].stamp)))
      BY <2>7 DEF Upload
    <3>2. ss'[q] = ss[q] \/ ss'[q] = Entry(clock, sl[q].stamp)
      BY <2>1, <3>1 DEF Record
    <3> QED BY <1>0, <1>1, <1>2, <2>2, <3>1, <3>2
  <2>8. CASE Tag(q)
    <3>1. \/ ss'[q] = Entry(rem[q].etag, sl[q].stamp)
          \/ ss'[q] = Entry(0, sl[q].stamp)
      BY <2>1, <2>8 DEF Tag, Record
    <3> QED BY <1>0, <1>1, <1>2, <2>2, <3>1
  <2> QED BY <2>3, <2>4, <2>5, <2>6, <2>7, <2>8, EntryStep
<1>8. dl'.etag < clock'
  <2>1. CASE UNCHANGED dl
    <3>1. dl.etag \in Nat /\ dl.etag < clock
      BY DEF Typed, Fresh
    <3> QED BY <1>0, <2>1, <3>1
  <2>2. ASSUME NEW p \in Path, Get(p) PROVE dl'.etag < clock'
    <3>1. dl'.etag = rem[p].etag
      BY <2>2 DEF Get, Body
    <3> QED BY <1>0, <1>1, <1>2, <3>1
  <2> QED BY <1>0, <2>1, <2>2, FetchStep
<1> QED BY <1>0, <1>3, <1>4, <1>5, <1>6, <1>7, <1>8 DEF Fresh

(***************************************************************************)
(* Soundness of the entries                                                *)
(***************************************************************************)
\* What has been noted of a broken GET stays noted, and what is fetched is the
\* server's or noted.
LEMMA MangledStep ==
  ASSUME [Next]_vars
  PROVE  /\ mangled \subseteq mangled'
         /\ CopyOf(dl.data, dl.of) => CopyOf(dl.data, dl.of)'
         /\ Next => CopyOf(dl.data, dl.of)'
<1>1. mangled \subseteq mangled'
  BY DEF Next, Notes, vars
<1>2. ASSUME Next PROVE CopyOf(dl.data, dl.of)'
  <2>1. mangled' = mangled \cup ({<<dl'.of, dl'.data>>} \ {<<dl'.of, dl'.of>>})
    BY <1>2 DEF Next, Notes
  <2> QED BY <2>1 DEF CopyOf
<1>3. ASSUME UNCHANGED vars, CopyOf(dl.data, dl.of) PROVE CopyOf(dl.data, dl.of)'
  BY <1>3 DEF CopyOf, vars, table
<1> QED BY <1>1, <1>2, <1>3

\* SoundEntry, of a resource r, a file l and an entry e.
SoundOf(r, l, e) ==
  (r.kind = "file" /\ r.etag = e.etag /\ l.kind = "file" /\ l.stamp = e.stamp)
     => CopyOf(l.data, r.data)

\* A path stays sound for an entry that is older than the clock, when either
\* side stays, stops being a file or takes its number from the clock.
LEMMA SoundKept ==
  ASSUME NEW r, NEW rr, NEW l, NEW ll, NEW e, NEW n \in Nat,
         SoundOf(r, l, e),
         e.etag \in Nat, e.stamp \in Nat, e.etag < n, e.stamp < n,
         rr = r \/ rr.kind # "file" \/ rr.etag = n,
         ll = l \/ ll.kind # "file" \/ ll.stamp = n
  PROVE  SoundOf(rr, ll, e)
BY DEF SoundOf

\* There is one item the loop is at.
LEMMA FirstUnique ==
  ASSUME NEW p \in Path, NEW q \in Path, First(p), First(q)
  PROVE  p = q
<1>1. Rank[p] \in Nat /\ Rank[q] \in Nat
  BY Ranks
<1>2. Rank[p] <= Rank[q] /\ Rank[q] <= Rank[p]
  BY DEF First
<1>3. Rank[p] = Rank[q]
  BY <1>1, <1>2
<1> QED BY <1>3, TreeAssumption

\* During a transfer only that transfer and the users take steps, and what it
\* has begun with stays.
LEMMA WindowStep ==
  ASSUME Typed, [Next]_vars, pc' \in {"swap", "install", "stamp", "tag"}
  PROVE  /\ st' = st
         /\ \/ \E p \in Path : Get(p)
            \/ \E p \in Path : Upload(p) /\ pc' = "tag"
            \/ /\ UNCHANGED <<todo, dl, sl>>
               /\ \/ (Users \/ UNCHANGED vars) /\ pc' = pc
                  \/ \E p \in Path : Swap(p) \/ Install(p)
<1>1. CASE Users
  BY <1>1 DEF Users, LocalWrite, LocalMakeDrawer, LocalRemove, RemoteWrite,
         RemoteMakeFolder, RemoteRemove, Edit, table
<1>2. ~Scan
  BY DEF Scan, ScanRemoteDone, LoadState, ScanRemote, ScanRemoteFails, ScanRemoteEmpty,
         ScanLocal, ScanLocalFails, FreeTable
<1>3. ~Directories
  BY DEF Directories, KeepDir, DeferRemoval, MakeDrawer, MakeFolder, Advance
<1>4. ~Files
  BY DEF Files, SkipBadName, Abort, KeepFile, Forget, DeleteRemote, DeleteLocal, Advance
<1>5. CASE Downloads
  BY <1>5 DEF Downloads, Download, KeepConflictCopy, Get, GetFails, Swap, Install,
         InstallFails, Stamp, Advance, table
<1>6. CASE Uploads
  BY <1>6 DEF Uploads, Upload, UploadFails, Tag, Advance, disk
<1>7. ~Finish
  <2>1. ~LeaveLoop /\ ~LeaveRemovals /\ ~Save
    BY DEF LeaveLoop, LeaveRemovals, Save, FreeTable
  <2>2. ASSUME NEW p \in Path PROVE ~RemoveFolder(p) /\ ~RemoveDrawer(p)
    BY DEF RemoveFolder, RemoveDrawer
  <2> QED BY <2>1, <2>2 DEF Finish
<1>8. ~Start /\ ~Crash /\ ~DropState
  BY DEF Start, Crash, DropState, FreeTable
<1>9. CASE UNCHANGED vars
  BY <1>9 DEF vars, disk, table
<1> QED BY <1>1, <1>2, <1>3, <1>4, <1>5, <1>6, <1>7, <1>8, <1>9 DEF Next, Engine

\* The first state is sound.
LEMMA InitSound ==
  ASSUME Init
  PROVE  SoundInv
<1>1. /\ Absent.kind = "none" /\ Absent.stamp = 0
      /\ Drawer.kind = "dir" /\ Drawer.stamp = 0
      /\ \A d, s : /\ File(d, s).kind = "file" /\ File(d, s).stamp = s
                   /\ File(d, s).data = d
      /\ Missing.kind = "none" /\ Missing.etag = 0 /\ Missing.mtime = 0
      /\ Folder.kind = "dir" /\ Folder.etag = 0 /\ Folder.mtime = 0
      /\ \A d, e, m : /\ Resource(d, e, m).kind = "file"
                      /\ Resource(d, e, m).etag = e /\ Resource(d, e, m).mtime = m
                      /\ Resource(d, e, m).data = d
      /\ NoEntry.etag = 0 /\ NoEntry.stamp = 0
      /\ \A e, s : Entry(e, s).etag = e /\ Entry(e, s).stamp = s
  BY DEF Absent, Drawer, File, Missing, Folder, Resource, NoEntry, Entry
<1>2. /\ clock = Cardinality(Path) + 1 /\ dl.etag = 0 /\ pc = "idle"
      /\ dl.data = dl.of
      /\ \A p \in Path : sr[p] = Missing /\ sl[p] = Absent /\ ss[p] = NoEntry
  BY DEF Init, NoBody, Body
<1>3. clock # 0 /\ 0 < clock
  BY <1>2, Ranks
<1>4. ASSUME NEW p \in Path
      PROVE  /\ loc[p].stamp \in {0, Rank[p]}
             /\ rem[p].etag \in {0, Rank[p]} /\ rem[p].mtime \in {0, Rank[p]}
             /\ rem[p].kind = "file" => rem[p].etag = Rank[p] /\ rem[p].data = Rank[p]
             /\ loc[p].kind = "file" => loc[p].data = Rank[p]
             /\ st[p].etag \in {0, Rank[p]} /\ st[p].stamp \in {0, Rank[p]}
  BY <1>1, InitShape
<1>5. Fresh
  <2>1. ASSUME NEW p \in Path
        PROVE  /\ loc[p].stamp < clock /\ sl[p].stamp < clock
               /\ rem[p].etag < clock /\ rem[p].mtime < clock /\ sr[p].mtime < clock
               /\ rem[p].kind = "file" => rem[p].etag # 0
               /\ st[p].etag < clock /\ st[p].stamp < clock
               /\ ss[p].etag < clock /\ ss[p].stamp < clock
    BY <1>1, <1>2, <1>3, <1>4, Ranks
  <2> QED BY <1>2, <1>3, <2>1 DEF Fresh
<1>6. Sound
  <2>1. ASSUME NEW p \in Path PROVE SoundEntry(st[p], p) /\ SoundEntry(ss[p], p)
    BY <1>4 DEF SoundEntry, CopyOf
  <2> QED BY <1>2, <2>1 DEF Sound, CopyOf
<1> QED BY <1>5, <1>6 DEF SoundInv

\* Outside the stamping of a download either side of an original stays, stops
\* being a file, or takes its number from the clock.
LEMMA PlainStep ==
  ASSUME Typed, [Next]_vars, "quick" \notin Events,
         NEW q \in Path, Original(q), ~Stamp(q)
  PROVE  /\ loc'[q] = loc[q] \/ loc'[q].kind # "file" \/ loc'[q].stamp = clock
         /\ rem'[q] = rem[q] \/ rem'[q].kind # "file" \/ rem'[q].etag = clock
BY LocalStep, RemoteStep DEF Original, Drawn

\* The same for an edit, on any path.
LEMMA UsersPlain ==
  ASSUME Typed, Users \/ UNCHANGED vars, "quick" \notin Events, NEW q \in Path
  PROVE  loc'[q] = loc[q] \/ loc'[q].kind # "file" \/ loc'[q].stamp = clock
<1>0. /\ loc \in [Path -> LocalNode]
      /\ Absent.kind = "none" /\ Drawer.kind = "dir" /\ \A d, s : File(d, s).stamp = s
  BY DEF Typed, Absent, Drawer, File
<1>1. ASSUME NEW p \in Path, LocalWrite(p)
      PROVE  loc'[q] = loc[q] \/ loc'[q].stamp = clock
  <2>1. loc' = [loc EXCEPT ![p] = File(clock, clock)]
    BY <1>1 DEF LocalWrite
  <2> QED BY <1>0, <2>1
<1>2. ASSUME NEW p \in Path, LocalMakeDrawer(p) \/ LocalRemove(p)
      PROVE  loc'[q] = loc[q] \/ loc'[q].kind # "file"
  BY <1>0, <1>2 DEF LocalMakeDrawer, LocalRemove
<1>3. Users \/ UNCHANGED vars =>
        \/ loc' = loc
        \/ \E p \in Path : LocalWrite(p) \/ LocalMakeDrawer(p) \/ LocalRemove(p)
  BY DEF Users, RemoteWrite, RemoteMakeFolder, RemoteRemove, vars, disk
<1> QED BY <1>1, <1>2, <1>3

\* A download leaves the server as it is.
LEMMA StampStep ==
  ASSUME Typed, NEW q \in Path, Stamp(q)
  PROVE  /\ rem' = rem /\ st' = st /\ pc = "stamp" /\ First(q)
         /\ loc'[q].kind = loc[q].kind /\ loc'[q].data = loc[q].data
         /\ ss'[q].etag = dl.etag
<1>1. loc'[q].kind = loc[q].kind /\ loc'[q].data = loc[q].data
  BY DEF Stamp, Typed, LocalNode
<1>2. ss'[q].etag = dl.etag
  BY DEF Stamp, Record, Entry, Typed
<1> QED BY <1>1, <1>2 DEF Stamp, At, server

\* Every step keeps the entries sound.
LEMMA SoundStep ==
  ASSUME Typed, SoundInv, Orderly, [Next]_vars
  PROVE  Sound'
<1>0. /\ clock \in Nat /\ Fresh /\ Sound /\ Fresh' /\ "quick" \notin Events
      /\ "stamp" \notin LocalWindow /\ "tag" \notin RemoteWindow
  BY FreshStep DEF Typed, SoundInv, Orderly
<1>1. ASSUME NEW q \in Path, Original(q)
      PROVE  /\ SoundOf(rem[q], loc[q], st[q]) /\ SoundOf(rem[q], loc[q], ss[q])
             /\ st[q].etag \in Nat /\ st[q].stamp \in Nat
             /\ ss[q].etag \in Nat /\ ss[q].stamp \in Nat
             /\ st[q].etag < clock /\ st[q].stamp < clock
             /\ ss[q].etag < clock /\ ss[q].stamp < clock
  BY <1>0, <1>1 DEF Sound, SoundEntry, SoundOf, Fresh, Typed, StateEntry
<1>2. ASSUME NEW q \in Path, Original(q), ~Stamp(q)
      PROVE  /\ SoundOf(rem'[q], loc'[q], st[q])
             /\ SoundOf(rem'[q], loc'[q], ss[q])
  BY <1>0, <1>1, <1>2, PlainStep, SoundKept
<1>3. ASSUME NEW q \in Path, Stamp(q)
      PROVE  /\ rem'[q].kind = "file" => Fetched(q)
             /\ loc'[q].kind = "file" => loc'[q].data = dl.data
             /\ rem'[q] = rem[q] /\ CopyOf(dl.data, dl.of)
  BY <1>0, <1>3, StampStep DEF Sound
<1>4. ASSUME NEW q \in Path, NEW e, e.etag = 0
      PROVE  SoundOf(rem'[q], loc'[q], e)
  <2>1. rem'[q].kind = "file" => rem'[q].etag # 0
    BY <1>0 DEF Fresh
  <2> QED BY <1>4, <2>1 DEF SoundOf
<1>5. ASSUME NEW q \in Path, Original(q)
      PROVE  SoundOf(rem'[q], loc'[q], ss'[q])
  <2>1. CASE Stamp(q)
    BY <1>3, <2>1, StampStep DEF SoundOf, Fetched
  <2>2. CASE Upload(q)
    <3>1. rem'[q].data = loc[q].data /\ loc' = loc
      BY <2>2 DEF Upload, Stored, Resource, Typed, disk
    <3> QED BY <3>1 DEF SoundOf, CopyOf
  <2>3. CASE Tag(q)
    <3>1. /\ First(q) /\ pc = "tag" /\ rem' = rem /\ loc' = loc
          /\ ss'[q] = Entry(rem[q].etag, sl[q].stamp) \/ ss'[q] = Entry(0, sl[q].stamp)
      BY <2>3 DEF Tag, At, Record, Typed, disk, server
    <3>2. Sent(q)
      BY <1>0, <3>1 DEF Sound
    <3>3. CASE ss'[q] = Entry(rem[q].etag, sl[q].stamp)
      BY <3>1, <3>2, <3>3 DEF SoundOf, Sent, Entry, CopyOf
    <3>4. CASE ss'[q] = Entry(0, sl[q].stamp)
      BY <1>4, <3>4 DEF Entry
    <3> QED BY <3>1, <3>3, <3>4
  <2>4. CASE ~Stamp(q) /\ ss'[q].etag = ss[q].etag /\ ss'[q].stamp = ss[q].stamp
    BY <1>2, <1>5, <2>4 DEF SoundOf
  <2>5. CASE ss'[q].etag = 0
    BY <1>4, <2>5
  <2>6. CASE ~Stamp(q) /\ ss'[q] = st[q]
    BY <1>2, <1>5, <2>6
  <2> QED BY <2>1, <2>2, <2>3, <2>4, <2>5, <2>6, EntryStep
<1>6. ASSUME NEW q \in Path, Original(q)
      PROVE  SoundOf(rem'[q], loc'[q], st'[q])
  <2>1. CASE Stamp(q)
    <3>1. st' = st /\ loc'[q].kind = loc[q].kind
      BY <2>1, StampStep
    <3> QED BY <1>3, <2>1, <3>1 DEF SoundOf, Fetched
  <2>2. CASE ~Stamp(q)
    <3>1. st'[q] \in {st[q], ss[q], NoEntry}
      BY StateStep
    <3>2. NoEntry.etag = 0
      BY DEF NoEntry
    <3> QED BY <1>2, <1>4, <1>6, <2>2, <3>1, <3>2
  <2> QED BY <2>1, <2>2
<1>7. ASSUME NEW q \in Path, First(q)', pc' \in {"swap", "install", "stamp", "tag"}
      PROVE  /\ pc' \in {"swap", "install", "stamp"} => Fetched(q)'
             /\ pc' = "stamp" => (loc'[q].kind = "file" => loc'[q].data = dl'.data)
             /\ pc' = "tag" => Sent(q)'
  <2>1. st' = st
    BY <1>7, WindowStep
  <2>2. ASSUME NEW p \in Path, Get(p) PROVE Fetched(q)' /\ pc' = "swap"
    <3>1. /\ First(p) /\ todo' = todo /\ rem' = rem /\ pc' = "swap"
          /\ dl'.of = rem[p].data /\ dl'.etag = rem[p].etag
      BY <2>2 DEF Get, At, server, Body
    <3>2. q = p
      BY <1>7, <3>1, FirstUnique DEF First
    <3> QED BY <2>1, <3>1, <3>2 DEF Fetched
  <2>3. ASSUME NEW p \in Path, Upload(p), pc' = "tag" PROVE Sent(q)'
    <3>1. /\ First(p) /\ todo' = todo /\ rem' = Stored(p) /\ loc' = loc
      BY <2>3 DEF Upload, Advance, FileItem, At, disk
    <3>2. q = p
      BY <1>7, <3>1, FirstUnique DEF First
    <3>3. rem'[p] = Resource(loc[p].data, clock, sl[p].stamp)
      BY <3>1 DEF Stored, Typed
    <3> QED BY <3>1, <3>2, <3>3 DEF Sent, Resource
  <2>4. ASSUME UNCHANGED <<todo, dl, sl>>
        PROVE  First(q)
    BY <1>7, <2>4 DEF First
  <2>5. \/ rem'[q] = rem[q] \/ rem'[q].kind # "file" \/ rem'[q].etag = clock
    BY RemoteStep DEF Drawn
  <2>6. ASSUME UNCHANGED <<todo, dl, sl>>, pc \in {"swap", "install", "stamp"}
        PROVE  Fetched(q)'
    <3>1. Fetched(q)
      BY <1>0, <2>4, <2>6 DEF Sound
    <3>2. dl.etag < clock /\ dl.etag \in Nat /\ st[q].etag < clock /\ st[q].etag \in Nat
      BY <1>0 DEF Fresh, Typed, StateEntry
    <3> QED BY <1>0, <2>1, <2>5, <2>6, <3>1, <3>2 DEF Fetched
  <2>7. ASSUME NEW p \in Path, Swap(p) \/ Install(p), UNCHANGED <<todo, dl, sl>>
        PROVE  /\ Fetched(q)' /\ pc' \in {"install", "stamp"}
               /\ pc' = "stamp" => loc'[q].data = dl'.data
    <3>1. pc \in {"swap", "install"} /\ pc' \in {"install", "stamp"} /\ First(p)
      BY <2>7 DEF Swap, Install, At
    <3>2. q = p
      BY <2>4, <2>7, <3>1, FirstUnique
    <3>3. pc' = "stamp" => loc'[p] = File(dl.data, clock)
      BY <2>7 DEF Swap, Install, Typed
    <3> QED BY <2>6, <2>7, <3>1, <3>2, <3>3 DEF File
  <2>8. ASSUME Users \/ UNCHANGED vars, pc' = pc, UNCHANGED <<todo, dl, sl>>
        PROVE  /\ pc' \in {"swap", "install", "stamp"} => Fetched(q)'
               /\ pc' = "stamp" => (loc'[q].kind = "file" => loc'[q].data = dl'.data)
               /\ pc' = "tag" => Sent(q)'
    <3>1. First(q)
      BY <2>4, <2>8
    <3>2. pc = "stamp" => loc' = loc
      BY <1>0, <2>8 DEF Users, LocalWrite, LocalMakeDrawer, LocalRemove,
         RemoteWrite, RemoteMakeFolder, RemoteRemove, vars, disk
    <3>3. pc = "tag" => rem' = rem
      BY <1>0, <2>8 DEF Users, LocalWrite, LocalMakeDrawer, LocalRemove,
         RemoteWrite, RemoteMakeFolder, RemoteRemove, vars, server
    <3>4. pc = "tag" => Sent(q)'
      <4>1. SUFFICES ASSUME pc = "tag" PROVE Sent(q)'
        OBVIOUS
      <4>2. Sent(q)
        BY <1>0, <3>1, <4>1 DEF Sound
      <4>3. loc'[q] = loc[q] \/ loc'[q].kind # "file" \/ loc'[q].stamp = clock
        BY <1>0, <2>8, UsersPlain
      <4>4. sl[q].stamp < clock /\ sl[q].stamp \in Nat
        BY <1>0 DEF Fresh, Typed, LocalNode
      <4> QED BY <1>0, <2>8, <3>3, <4>1, <4>2, <4>3, <4>4 DEF Sent
    <3>5. pc = "stamp" => (loc[q].kind = "file" => loc[q].data = dl.data)
      BY <1>0, <3>1 DEF Sound
    <3> QED BY <2>6, <2>8, <3>2, <3>4, <3>5
  <2> QED BY <1>7, <2>2, <2>3, <2>7, <2>8, WindowStep
<1>8. ASSUME NEW q \in Path, Original(q)
      PROVE  SoundEntry(st[q], q)' /\ SoundEntry(ss[q], q)'
  <2>1. mangled \subseteq mangled'
    BY MangledStep
  <2> QED BY <1>5, <1>6, <1>8, <2>1 DEF SoundEntry, SoundOf, CopyOf
<1>9. CopyOf(dl.data, dl.of)'
  BY <1>0, MangledStep DEF Sound
<1> QED BY <1>7, <1>8, <1>9 DEF Sound, Original

\* SoundInv is inductive, once the types are right.
THEOREM SoundInvariant ==
  ASSUME Orderly
  PROVE  Spec => []SoundInv
<1>1. Init => SoundInv
  BY InitSound
<1>2. TypeOK /\ SoundInv /\ [Next]_vars => SoundInv'
  BY FreshStep, SoundStep DEF TypeOK, SoundInv
<1> QED BY <1>1, <1>2, TypeInvariant, PTL DEF Spec

\* What the state file takes for "unchanged on both sides" is the same on
\* both sides, or what a broken GET has made here of the server's, in every
\* state of every run, whatever fails and whoever edits in between -- as long
\* as nobody edits here while a download is dated, or there while an upload is
\* asked for its etag, or within the 2 seconds.
THEOREM StateSoundness ==
  ASSUME Orderly
  PROVE  Spec => []StateSound
<1>1. SoundInv => StateSound
  BY DEF SoundInv, Sound, SoundEntry, StateSound, Agrees
<1> QED BY <1>1, SoundInvariant, PTL
=============================================================================
