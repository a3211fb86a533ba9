----------------------------- MODULE BackupsProofs -----------------------------
(***************************************************************************)
(* Backups keeps its files whole, implements Snapshots and prunes only old *)
(* snapshots, for every number of snapshots kept and every number of       *)
(* commits, crashes, power losses and lost databases.                      *)
(*                                                                         *)
(* TypeOK is not inductive: that the file which is renamed is whole        *)
(* depends on the steps before.  Intact adds what holds at each step of a  *)
(* restore (Restoring) and of a backup (Writing), and that a directory     *)
(* with snapshots has a newest one, in use and on disk, which no step may  *)
(* lose: a power loss goes back to the directory on disk.                  *)
(***************************************************************************)
EXTENDS Backups, FiniteSetTheorems, TLAPS

BackupStepsWriting == {"vacuum", "sync", "rename"}

\* The restore is of a lost database and of the newest snapshot.
Restoring ==
    /\ pc \in {"copy", "sync", "publish"} => db = NoFile /\ LatestBackup # {}
    /\ pc \in {"sync", "publish"} =>
          restore.content \in Content /\ \A n \in LatestBackup : restore.content = dir[n].content
    /\ pc = "publish" => restore \in Whole
    /\ pc = "open" /\ db = NoFile => dir = NoFiles
    /\ pc = "serving" => db \in Whole

\* The file being written is there and newer than every snapshot.
Writing ==
    /\ step \in BackupStepsWriting => name \in DOMAIN tmps /\ \A n \in DOMAIN dir : n <= name
    /\ step = "sync" => tmps[name].content \in Content
    /\ step = "rename" => tmps[name] \in Whole

HasNewest ==
    /\ DOMAIN dir # {} => LatestBackup # {}
    /\ DOMAIN disk # {} => Newest(disk) # {}

Intact == TypeOK /\ Restoring /\ Writing /\ HasNewest

--------------------------------------------------------------------------------
(* Files and directories *)

\* Whole files have a content; no file has none.
LEMMA WholeFiles ==
    /\ Whole \subseteq File /\ NoFile \in File /\ NoFile \notin Whole
    /\ \A f \in Whole : f.content \in Content /\ Exists(f) /\ f.content # Torn /\ Settle(f) = f
    /\ ~ Exists(NoFile) /\ Settle(NoFile) = NoFile
    /\ \A c \in Content : syncFile(Written(c)) \in Whole /\ Written(c) \in File
    /\ Written(Torn) \in File
BY BackupsAssumption DEF Whole, File, NoFile, Exists, Settle, Content, syncFile, Written

\* A sync leaves the content; what settles is a file.
LEMMA FileSteps ==
    ASSUME NEW f \in File
    PROVE  /\ syncFile(f) \in File /\ syncFile(f).content = f.content /\ syncFile(f).synced = TRUE
           /\ Settle(f) \in File
           /\ f.content \in Content => syncFile(f) \in Whole
BY DEF File, Whole, syncFile, Settle

\* What Put and Without do to a directory.
LEMMA Directories ==
    ASSUME NEW map, NEW key
    PROVE  /\ \A value : /\ DOMAIN Put(map, key, value) = DOMAIN map \cup {key}
                         /\ Put(map, key, value)[key] = value
                         /\ \A k \in DOMAIN map \ {key} : Put(map, key, value)[k] = map[k]
           /\ DOMAIN Without(map, key) = DOMAIN map \ {key}
           /\ \A k \in DOMAIN map \ {key} : Without(map, key)[k] = map[k]
BY DEF Put, Without, Restrict

\* The last of the sorted list is the newest of the directory.
LEMMA LatestIsNewest == LatestBackup = Newest(dir) /\ LatestBackup' = Newest(dir')
BY DEF LatestBackup, listBackups, Newest

\* There is at most one newest snapshot.
LEMMA OneNewest ==
    ASSUME TypeOK, NEW m \in LatestBackup
    PROVE  LatestBackup = {m}
BY DEF LatestBackup, IsNewest, listBackups, TypeOK

\* The oldest of two or more is not the newest.
LEMMA OldestIsOld ==
    ASSUME TypeOK, NEW n \in DOMAIN dir, tooMany, IsOldest(n, listBackups)
    PROVE  n \notin LatestBackup
<1>. SUFFICES ASSUME n \in LatestBackup PROVE FALSE
  OBVIOUS
<1>1. listBackups = {n}
  BY DEF LatestBackup, IsNewest, IsOldest, listBackups, TypeOK
<1>2. Cardinality(listBackups) = 1
  BY <1>1, FS_Singleton
<1>. QED BY <1>2, BackupsAssumption DEF tooMany

\* Pruning one leaves the newest what it was.
LEMMA PruneKeepsNewest ==
    ASSUME Intact, NEW n \in DOMAIN dir, PruneOne(n)
    PROVE  /\ LatestBackup' = LatestBackup
           /\ \A m \in LatestBackup : dir'[m] = dir[m]
           /\ DOMAIN dir' = DOMAIN dir \ {n}
           /\ \A m \in DOMAIN dir' : dir'[m] = dir[m]
<1>1. tooMany /\ IsOldest(n, listBackups) /\ dir' = Without(dir, n)
  BY DEF PruneOne
<1>2. n \notin LatestBackup
  BY <1>1, OldestIsOld DEF Intact
<1>3. DOMAIN dir' = DOMAIN dir \ {n} /\ \A m \in DOMAIN dir' : dir'[m] = dir[m]
  BY <1>1 DEF Without, Restrict
<1>4. PICK m \in LatestBackup : TRUE
  BY DEF Intact, HasNewest
<1>5. LatestBackup = {m}
  BY <1>4, OneNewest DEF Intact
<1>6. LatestBackup' = {m}
  BY <1>2, <1>3, <1>4, <1>5 DEF LatestBackup, IsNewest, listBackups, Intact, TypeOK
<1>. QED BY <1>2, <1>3, <1>4, <1>5, <1>6 DEF LatestBackup, IsNewest, listBackups
--------------------------------------------------------------------------------
(* Every step keeps the files whole *)

\* Nothing is there at first.
LEMMA InitIntact == Init => Intact
<1>. SUFFICES ASSUME Init PROVE Intact
  OBVIOUS
<1>1. unsettled \in BOOLEAN
  BY DEF Init
<1>2. DOMAIN dir = {} /\ DOMAIN disk = {} /\ DOMAIN tmps = {}
  BY DEF Init, NoFiles
<1>3. TypeOK
  BY <1>1, <1>2, BackupsAssumption, WholeFiles DEF Init, TypeOK, NoFiles
<1>4. HasNewest
  BY <1>2 DEF HasNewest
<1>. QED BY <1>3, <1>4 DEF Init, Intact, Restoring, Writing, BackupStepsWriting

\* What a step that leaves the directory alone leaves of the newest snapshot.
LEMMA SameNewest == ASSUME dir' = dir PROVE LatestBackup' = LatestBackup
BY DEF LatestBackup, IsNewest, listBackups

\* What a copy that is cut short leaves is a file.
LEMMA LeftIsFile == ASSUME restore \in File PROVE leftBehind \subseteq File
<1>1. Written(Torn) \in File
  BY DEF Written, File
<1>. QED BY <1>1 DEF leftBehind

\* The boot publishes a synced copy of the newest snapshot, or creates an empty
\* database when there is none.
LEMMA BootIntact == Intact /\ (BootStep \/ RestoreFails) => Intact'
<1>. SUFFICES ASSUME Intact, BootStep \/ RestoreFails PROVE Intact'
  OBVIOUS
<1>. USE DEF Intact, Restoring, Writing, HasNewest, TypeOK
<1>1. CASE Boot
  <2>1. db = NoFile /\ LatestBackup = {} => dir = NoFiles
    BY DEF NoFiles
  <2>. QED BY <1>1, <2>1, SameNewest, WholeFiles DEF Boot
<1>2. CASE CopySnapshot
  <2>1. PICK latest \in LatestBackup : restore' = Written(dir[latest].content)
    BY <1>2 DEF CopySnapshot
  <2>2. LatestBackup = {latest} /\ dir[latest].content \in Content
    BY <2>1, OneNewest, WholeFiles DEF LatestBackup, IsNewest, listBackups
  <2>3. restore' \in File /\ restore'.content = dir[latest].content
    BY <2>1, <2>2, WholeFiles DEF Written
  <2>. QED BY <1>2, <2>2, <2>3, SameNewest DEF CopySnapshot
<1>3. CASE SyncRestored
  BY <1>3, SameNewest, FileSteps DEF SyncRestored
<1>4. CASE PublishRestored
  BY <1>4, SameNewest, WholeFiles DEF PublishRestored
<1>5. CASE RestoreFails
  <2>1. restore' \in File
    BY <1>5, LeftIsFile DEF RestoreFails
  <2>. QED BY <1>5, <2>1, SameNewest, BackupsAssumption DEF RestoreFails, Fault
<1>6. CASE OpenSQLite
  <2>1. [content |-> Empty, synced |-> TRUE] \in Whole
    BY DEF Whole, Empty, Content
  <2>. QED BY <1>6, <2>1, SameNewest, WholeFiles DEF OpenSQLite
<1>. QED BY <1>1, <1>2, <1>3, <1>4, <1>5, <1>6 DEF BootStep

\* The steps of Backup before the rename.
LEMMA WriteIntact == Intact /\ (BeginBackup \/ Vacuumed \/ SyncSnapshot \/ BackupFails) => Intact'
<1>. SUFFICES ASSUME Intact, BeginBackup \/ Vacuumed \/ SyncSnapshot \/ BackupFails PROVE Intact'
  OBVIOUS
<1>. USE DEF Intact, Restoring, Writing, HasNewest, TypeOK, BackupStepsWriting
<1>1. CASE BeginBackup
  BY <1>1, SameNewest, WholeFiles DEF BeginBackup, Put
<1>2. CASE Vacuumed
  BY <1>2, SameNewest, WholeFiles DEF Vacuumed, Written
<1>3. CASE SyncSnapshot
  BY <1>3, SameNewest, FileSteps DEF SyncSnapshot
<1>4. CASE BackupFails
  BY <1>4, SameNewest, BackupsAssumption DEF BackupFails, Without, Restrict, Fault
<1>. QED BY <1>1, <1>2, <1>3, <1>4

\* The rename makes the file the newest snapshot.
LEMMA RenameMakesNewest ==
    ASSUME Intact, RenameSnapshot
    PROVE  /\ LatestBackup' = {name}
           /\ dir'[name] = tmps[name]
           /\ DOMAIN dir' = DOMAIN dir \cup {name}
           /\ \A n \in DOMAIN dir \ {name} : dir'[n] = dir[n]
<1>1. dir' = Put(dir, name, tmps[name]) /\ \A n \in DOMAIN dir : n <= name
  BY DEF RenameSnapshot, Intact, Writing, BackupStepsWriting
<1>2. /\ DOMAIN dir' = DOMAIN dir \cup {name} /\ dir'[name] = tmps[name]
      /\ \A n \in DOMAIN dir \ {name} : dir'[n] = dir[n]
  BY <1>1 DEF Put
<1>3. name \in Nat /\ DOMAIN dir \subseteq Nat
  BY DEF Intact, TypeOK
<1>. QED BY <1>1, <1>2, <1>3 DEF LatestBackup, IsNewest, listBackups

\* The rename and the pruning after it.
LEMMA PublishIntact ==
    Intact /\ (RenameSnapshot \/ PruneEnds \/ \E n \in DOMAIN dir : PruneOne(n)) => Intact'
<1>. SUFFICES ASSUME Intact, RenameSnapshot \/ PruneEnds \/ \E n \in DOMAIN dir : PruneOne(n)
              PROVE  Intact'
  OBVIOUS
<1>1. CASE RenameSnapshot
  <2>1. tmps[name] \in Whole
    BY <1>1 DEF RenameSnapshot, Intact, Writing
  <2>2. dir' \in [DOMAIN dir' -> Whole] /\ DOMAIN dir' \subseteq 0 .. clock
    BY <1>1, <2>1, RenameMakesNewest DEF RenameSnapshot, Put, Intact, TypeOK
  <2>3. DOMAIN tmps' \subseteq 0 .. clock /\ tmps' \in [DOMAIN tmps' -> File]
    BY <1>1 DEF RenameSnapshot, Without, Restrict, Intact, TypeOK
  <2>4. pc = "serving"
    BY <1>1 DEF RenameSnapshot, Intact, TypeOK
  <2>. QED BY <1>1, <2>2, <2>3, <2>4, RenameMakesNewest
           DEF RenameSnapshot, Intact, TypeOK, Restoring, Writing, HasNewest, BackupStepsWriting
<1>2. CASE PruneEnds
  BY <1>2, SameNewest, BackupsAssumption
     DEF PruneEnds, Fault, Intact, TypeOK, Restoring, Writing, HasNewest, BackupStepsWriting
<1>3. ASSUME NEW n \in DOMAIN dir, PruneOne(n) PROVE Intact'
  <2>1. dir' \in [DOMAIN dir' -> Whole] /\ DOMAIN dir' \subseteq 0 .. clock
    BY <1>3, PruneKeepsNewest DEF PruneOne, Without, Restrict, Intact, TypeOK
  <2>2. pc = "serving" /\ step = "prune"
    BY <1>3 DEF PruneOne, Intact, TypeOK
  <2>3. HasNewest'
    BY <1>3, PruneKeepsNewest DEF Intact, HasNewest, PruneOne
  <2>. QED BY <1>3, <2>1, <2>2, <2>3
           DEF PruneOne, Intact, TypeOK, Restoring, Writing, BackupStepsWriting
<1>. QED BY <1>1, <1>2, <1>3

\* A power loss leaves whole files, which it takes from the directory on disk.
LEMMA PowerLossLeaves ==
    ASSUME Intact, PowerLoss
    PROVE  /\ dir' = disk /\ disk' = disk
           /\ db' \in {db, NoFile} /\ restore' \in File
           /\ DOMAIN tmps' \subseteq 0 .. clock /\ tmps' \in [DOMAIN tmps' -> File]
<1>1. dir' = disk /\ disk' = disk
  BY WholeFiles DEF PowerLoss, Intact, TypeOK
<1>2. db' \in {db, NoFile} /\ restore' \in File
  BY WholeFiles, FileSteps DEF PowerLoss, Intact, TypeOK
<1>3. undone \subseteq DOMAIN dir
  BY DEF undone
<1>4. \A n \in undone : dir[n] \in File
  BY <1>3, WholeFiles DEF Intact, TypeOK
<1>5. \A n \in DOMAIN tmps : tmps[n] \in File
  BY DEF Intact, TypeOK
<1>6. \A n \in DOMAIN tmps \cup undone : Settle(IF n \in undone THEN dir[n] ELSE tmps[n]) \in File
  BY <1>4, <1>5, FileSteps
<1>7. DOMAIN tmps \cup undone \subseteq 0 .. clock
  BY <1>3 DEF Intact, TypeOK
<1>8. tmps' = [n \in DOMAIN tmps \cup undone |-> Settle(IF n \in undone THEN dir[n] ELSE tmps[n])]
  BY DEF PowerLoss
<1>. QED BY <1>1, <1>2, <1>6, <1>7, <1>8

\* Commits, the clock, the file system and the faults.
LEMMA OtherIntact ==
    Intact /\ (Commit \/ Tick \/ Flush \/ Crash \/ PowerLoss \/ LoseDatabase) => Intact'
<1>. SUFFICES ASSUME Intact, Commit \/ Tick \/ Flush \/ Crash \/ PowerLoss \/ LoseDatabase
              PROVE  Intact'
  OBVIOUS
<1>. USE BackupsAssumption
         DEF Intact, TypeOK, Restoring, Writing, HasNewest, BackupStepsWriting
<1>1. CASE Commit
  <2>. DEFINE c == commits + 1
  <2>1. db \in Whole /\ c \in Nat /\ db' = [db EXCEPT !.content = c]
    BY <1>1 DEF Commit
  <2>. HIDE DEF c
  <2>2. db' \in Whole
    BY <2>1 DEF Whole, Content
  <2>3. unsettled' \in BOOLEAN
    BY <1>1 DEF Commit
  <2>4. commits' \in 0 .. MaxCommits /\ pc = "serving" /\ pc' = pc
    BY <1>1 DEF Commit
  <2>5. TypeOK'
    BY <1>1, <2>2, <2>3, <2>4 DEF Commit
  <2>. QED BY <1>1, <2>2, <2>4, <2>5, SameNewest DEF Commit
<1>2. CASE Tick
  BY <1>2, SameNewest DEF Tick
<1>3. CASE Crash
  <2>1. restore' \in File
    BY <1>3, LeftIsFile DEF Crash
  <2>. QED BY <1>3, <2>1, SameNewest DEF Crash, Fault
<1>4. CASE PowerLoss
  <2>1. pc' = "down" /\ step' = "idle" /\ unsettled' = FALSE /\ UNCHANGED <<name, clock, commits>>
    BY <1>4 DEF PowerLoss
  <2>2. faults' \in 0 .. MaxFaults
    BY <1>4 DEF PowerLoss, Fault
  <2>3. TypeOK'
    BY <1>4, <2>1, <2>2, PowerLossLeaves
  <2>4. HasNewest'
    BY <1>4, PowerLossLeaves, LatestIsNewest
  <2>. QED BY <2>1, <2>3, <2>4
<1>5. CASE LoseDatabase
  <2>1. unsettled' \in BOOLEAN
    BY <1>5 DEF LoseDatabase
  <2>2. faults' \in 0 .. MaxFaults
    BY <1>5 DEF LoseDatabase, Fault
  <2>3. TypeOK'
    BY <1>5, <2>1, <2>2 DEF LoseDatabase
  <2>. QED BY <1>5, <2>3, SameNewest DEF LoseDatabase
<1>6. CASE Flush
  <2>1. HasNewest'
    BY <1>6, SameNewest, LatestIsNewest DEF Flush
  <2>. QED BY <1>6, <2>1, SameNewest DEF Flush
<1>. QED BY <1>1, <1>2, <1>3, <1>4, <1>5, <1>6

\* Intact is an invariant.
LEMMA AlwaysIntact == Spec => []Intact
<1>1. Intact /\ UNCHANGED vars => Intact'
  BY SameNewest DEF vars, Intact, TypeOK, Restoring, Writing, HasNewest
<1>2. Intact /\ [Next]_vars => Intact'
  BY <1>1, BootIntact, WriteIntact, PublishIntact, OtherIntact DEF Next, BackupStep, FaultStep
<1>. QED BY <1>2, InitIntact, PTL DEF Spec

\* Whatever crashes and power losses interrupt, the database and the snapshots are
\* whole files (Backup, RestoreIfMissing).
THEOREM FilesAreWhole == Spec => []TypeOK
<1>1. Intact => TypeOK
  BY DEF Intact
<1>. QED BY <1>1, AlwaysIntact, PTL

--------------------------------------------------------------------------------
(* Backups implements Snapshots *)

\* The newest snapshot's content is on offer.
LEMMA NewestOnOffer ==
    ASSUME NEW map, NEW n, Newest(map) = {n}
    PROVE  OnOffer(map) = map[n].content
BY DEF OnOffer

\* In a directory in use as well.
LEMMA Offered ==
    ASSUME TypeOK, NEW n \in LatestBackup
    PROVE  OnOffer(dir) = dir[n].content
<1>1. Newest(dir) = {n}
  BY OneNewest, LatestIsNewest
<1>. QED BY <1>1, NewestOnOffer

\* A boot replaces a lost database by what is on offer, in one visible step.
LEMMA BootImplements ==
    ASSUME Intact, BootStep \/ RestoreFails
    PROVE  [Abstract!SnapshotsNext]_(Abstract!snapshotVars)
<1>. USE DEF Abstract!snapshotVars
<1>1. CASE Boot \/ CopySnapshot \/ SyncRestored \/ RestoreFails
  BY <1>1 DEF Boot, CopySnapshot, SyncRestored, RestoreFails
<1>2. CASE PublishRestored
  <2>1. PICK n \in LatestBackup : TRUE
    BY <1>2 DEF PublishRestored, Intact, Restoring
  <2>2. /\ db = NoFile /\ restore.content \in Content
        /\ OnOffer(dir) = restore.content
    BY <1>2, <2>1, Offered DEF PublishRestored, Intact, Restoring
  <2>3. /\ db' = restore /\ dir' = dir /\ UNCHANGED <<step, tmps, name, disk>>
    BY <1>2 DEF PublishRestored
  <2>4. db.content = Missing /\ restore.content # Missing
    BY <2>2, BackupsAssumption DEF NoFile, Content
  <2>5. Abstract!Replace
    BY <2>2, <2>3, <2>4 DEF Abstract!Replace
  <2>. QED BY <2>5 DEF Abstract!SnapshotsNext
<1>3. CASE OpenSQLite /\ Exists(db)
  BY <1>3 DEF OpenSQLite
<1>4. CASE OpenSQLite /\ ~ Exists(db)
  <2>1. db = NoFile /\ dir = NoFiles
    BY <1>4, WholeFiles DEF OpenSQLite, Intact, TypeOK, Restoring
  <2>2. Newest(dir) = {}
    BY <2>1 DEF Newest, NoFiles
  <2>3. OnOffer(dir) = Missing /\ db.content = Missing
    BY <2>1, <2>2 DEF OnOffer, NoFile
  <2>4. db'.content = Empty /\ dir' = dir /\ UNCHANGED <<step, tmps, name, disk>>
    BY <1>4 DEF OpenSQLite
  <2>5. Abstract!Replace
    BY <2>3, <2>4 DEF Abstract!Replace, Abstract!Empty, Empty
  <2>. QED BY <2>5 DEF Abstract!SnapshotsNext
<1>. QED BY <1>1, <1>2, <1>3, <1>4 DEF BootStep

\* A snapshot is taken when VACUUM INTO is done, and on offer from the rename on.
LEMMA BackupImplements ==
    ASSUME Intact, BackupStep \/ BackupFails
    PROVE  [Abstract!SnapshotsNext]_(Abstract!snapshotVars)
<1>. USE DEF Abstract!snapshotVars
<1>1. CASE BeginBackup \/ PruneEnds
  BY <1>1 DEF BeginBackup, PruneEnds
<1>2. CASE Vacuumed
  <2>1. /\ db.content \in Content /\ name \in DOMAIN tmps
        /\ tmps' = [tmps EXCEPT ![name] = Written(db.content)]
        /\ step' = "sync" /\ UNCHANGED <<db, dir, name, disk>>
    BY <1>2, WholeFiles
       DEF Vacuumed, Intact, TypeOK, Restoring, Writing, BackupStepsWriting
  <2>2. tmps'[name].content = db.content
    BY <2>1 DEF Intact, TypeOK, Written
  <2>3. Abstract!Take
    BY <2>1, <2>2, BackupsAssumption DEF Abstract!Take, Content
  <2>. QED BY <2>3 DEF Abstract!SnapshotsNext
<1>3. CASE SyncSnapshot
  <2>1. /\ name \in DOMAIN tmps /\ tmps[name] \in File
        /\ tmps' = [tmps EXCEPT ![name] = syncFile(tmps[name])]
        /\ step = "sync" /\ step' = "rename" /\ UNCHANGED <<db, dir, name, disk>>
    BY <1>3 DEF SyncSnapshot, Intact, TypeOK, Writing, BackupStepsWriting
  <2>2. tmps'[name].content = tmps[name].content
    BY <2>1, FileSteps
  <2>. QED BY <2>1, <2>2
<1>4. CASE RenameSnapshot
  <2>1. /\ step = "rename" /\ step' = "prune" /\ UNCHANGED <<db, name, disk>>
        /\ tmps[name].content \in Content
    BY <1>4, WholeFiles DEF RenameSnapshot, Intact, Writing
  <2>2. OnOffer(dir') = tmps[name].content
    <3>1. Newest(dir') = {name} /\ dir'[name] = tmps[name]
      BY <1>4, RenameMakesNewest, LatestIsNewest
    <3>. QED BY <3>1, NewestOnOffer
  <2>3. Abstract!Offer
    BY <2>1, <2>2, BackupsAssumption DEF Abstract!Offer, Content
  <2>. QED BY <2>3 DEF Abstract!SnapshotsNext
<1>5. CASE BackupFails
  <2>1. Abstract!Abandon
    BY <1>5 DEF BackupFails, Abstract!Abandon
  <2>. QED BY <2>1 DEF Abstract!SnapshotsNext
<1>6. ASSUME NEW n \in DOMAIN dir, PruneOne(n)
      PROVE  UNCHANGED Abstract!snapshotVars
  <2>1. OnOffer(dir') = OnOffer(dir)
    <3>1. PICK m \in LatestBackup : TRUE
      BY DEF Intact, HasNewest
    <3>2. LatestBackup = {m} /\ LatestBackup' = {m} /\ dir'[m] = dir[m]
      BY <1>6, <3>1, OneNewest, PruneKeepsNewest DEF Intact
    <3>3. Newest(dir) = {m} /\ Newest(dir') = {m}
      BY <3>2, LatestIsNewest
    <3>4. OnOffer(dir) = dir[m].content /\ OnOffer(dir') = dir'[m].content
      BY <3>3, NewestOnOffer
    <3>. QED BY <3>2, <3>4
  <2>. QED BY <1>6, <2>1 DEF PruneOne
<1>. QED BY <1>1, <1>2, <1>3, <1>4, <1>5, <1>6 DEF BackupStep

\* Commits change the state, crashes abandon what is being written, and power losses
\* take back what the file system has not made durable.
LEMMA OtherImplements ==
    ASSUME Intact, Commit \/ Tick \/ Flush \/ Crash \/ PowerLoss \/ LoseDatabase
    PROVE  [Abstract!SnapshotsNext]_(Abstract!snapshotVars)
<1>. USE DEF Abstract!snapshotVars
<1>1. CASE Commit
  <2>1. /\ db \in Whole /\ commits + 1 \in Nat /\ db' = [db EXCEPT !.content = commits + 1]
        /\ UNCHANGED <<dir, disk, tmps, step, name>>
    BY <1>1 DEF Commit, Intact, TypeOK, Restoring
  <2>2. db'.content \in Nat /\ db.content # Missing
    BY <2>1, BackupsAssumption DEF Whole, Content
  <2>3. Abstract!Change
    BY <2>1, <2>2 DEF Abstract!Change
  <2>. QED BY <2>3 DEF Abstract!SnapshotsNext
<1>2. CASE Tick
  BY <1>2 DEF Tick
<1>3. CASE Crash
  <2>1. Abstract!Abandon
    BY <1>3 DEF Crash, Abstract!Abandon
  <2>. QED BY <2>1 DEF Abstract!SnapshotsNext
<1>4. CASE PowerLoss
  <2>1. OnOffer(dir') = OnOffer(disk) /\ OnOffer(disk') = OnOffer(disk)
    BY <1>4, PowerLossLeaves
  <2>2. db'.content \in {db.content, Missing}
    BY <1>4, PowerLossLeaves DEF NoFile
  <2>3. step' = "idle"
    BY <1>4 DEF PowerLoss
  <2>4. Abstract!Recede
    BY <2>1, <2>2, <2>3 DEF Abstract!Recede
  <2>. QED BY <2>4 DEF Abstract!SnapshotsNext
<1>5. CASE LoseDatabase
  <2>1. Abstract!Lose
    BY <1>5 DEF LoseDatabase, Abstract!Lose, NoFile
  <2>. QED BY <2>1 DEF Abstract!SnapshotsNext
<1>6. CASE Flush
  <2>1. Abstract!Settle
    BY <1>6 DEF Flush, Abstract!Settle
  <2>. QED BY <2>1 DEF Abstract!SnapshotsNext
<1>. QED BY <1>1, <1>2, <1>3, <1>4, <1>5, <1>6

\* A half-written file is never mistaken for a snapshot and a lost database comes
\* back as the last snapshot completed, whichever file operation a crash comes after; a
\* power loss goes back to a snapshot completed before (Backup, RestoreIfMissing).
THEOREM BackupsImplementSnapshots == Spec => ImplementsSnapshots
<1>1. Init => Abstract!SnapshotsInit
  BY DEF Init, Abstract!SnapshotsInit, NoFile, NoFiles, OnOffer, Newest
<1>2. Intact /\ [Next]_vars => [Abstract!SnapshotsNext]_(Abstract!snapshotVars)
  <2>1. UNCHANGED vars => UNCHANGED Abstract!snapshotVars
    BY DEF vars, Abstract!snapshotVars
  <2>. QED BY <2>1, BootImplements, BackupImplements, OtherImplements DEF Next, BackupStep, FaultStep
<1>. QED BY <1>1, <1>2, AlwaysIntact, PTL DEF Spec, ImplementsSnapshots, Abstract!SnapshotsSpec

--------------------------------------------------------------------------------
(* Pruning *)

\* Of a finite directory that holds too many, the others are enough.
LEMMA PruneLeavesEnough ==
    ASSUME Intact, NEW n \in DOMAIN dir, PruneOne(n)
    PROVE  Keep > 0 /\ Cardinality({m \in DOMAIN dir' : m > n}) >= Keep
<1>1. IsFiniteSet(DOMAIN dir)
  <2>1. DOMAIN dir \subseteq 0 .. clock /\ 0 \in Int /\ clock \in Int
    BY DEF Intact, TypeOK
  <2>2. IsFiniteSet(0 .. clock)
    BY <2>1, FS_Interval
  <2>. QED BY <2>1, <2>2, FS_Subset
<1>2. DOMAIN dir' = DOMAIN dir \ {n}
  BY PruneKeepsNewest
<1>3. {m \in DOMAIN dir' : m > n} = DOMAIN dir \ {n}
  BY <1>2 DEF PruneOne, IsOldest, listBackups, Intact, TypeOK
<1>4. Cardinality(DOMAIN dir \ {n}) = Cardinality(DOMAIN dir) - 1
  BY <1>1, FS_RemoveElement
<1>5. Keep > 0 /\ Cardinality(DOMAIN dir) > Keep
  BY DEF PruneOne, tooMany, listBackups
<1>6. Cardinality(DOMAIN dir) \in Nat
  BY <1>1, FS_CardinalityType
<1>. QED BY <1>3, <1>4, <1>5, <1>6, BackupsAssumption

\* A snapshot is removed only when there are -backup-keep newer ones (pruneBackups).
THEOREM PruningKeepsNewest == Spec => KeepsNewest
<1>1. Intact /\ [Next]_vars => [PrunesOldest]_vars
  <2>. SUFFICES ASSUME Intact, Next PROVE PrunesOldest
    OBVIOUS
  <2>1. ASSUME NEW n \in DOMAIN dir, PruneOne(n) PROVE PrunesOldest
    BY <2>1, PruneKeepsNewest, PruneLeavesEnough DEF PrunesOldest
  <2>2. CASE RenameSnapshot
    BY <2>2, RenameMakesNewest DEF PrunesOldest
  <2>3. CASE PowerLoss
    BY <2>3 DEF PowerLoss, PrunesOldest
  <2>4. ASSUME dir' = dir PROVE PrunesOldest
    BY <2>4 DEF PrunesOldest
  <2>. QED BY <2>1, <2>2, <2>3, <2>4
           DEF Next, BootStep, BackupStep, FaultStep, Boot, CopySnapshot, SyncRestored,
               PublishRestored, RestoreFails, OpenSQLite, Commit, BeginBackup, Vacuumed,
               SyncSnapshot, BackupFails, PruneEnds, Tick, Flush, Crash, LoseDatabase
<1>. QED BY <1>1, AlwaysIntact, PTL DEF Spec, KeepsNewest
================================================================================
