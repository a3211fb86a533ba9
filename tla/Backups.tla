-------------------------------- MODULE Backups --------------------------------
(***************************************************************************)
(* The files of internal/store/backup.go: the controller process opens or  *)
(* restores state.db at boot, its backup goroutine writes snapshots into   *)
(* -backup-dir and prunes them, and it may die or lose power between any   *)
(* two file operations.                                                    *)
(*                                                                         *)
(* The content of a database is a number, a new one for every commit.  A   *)
(* snapshot's name is the second of the clock it was begun in, so that     *)
(* names sort as numbers.  A file that was written and not synced is torn  *)
(* by a power loss.  No directory is ever synced: renames and removals     *)
(* reach the disk in the order they are made, but when is up to the file   *)
(* system, and a power loss takes back those that have not.  The database  *)
(* has one connection: while VACUUM INTO runs nothing commits.  The clock  *)
(* does not go back.                                                       *)
(***************************************************************************)
EXTENDS FiniteSets, Functions, Naturals

CONSTANTS
    Missing, Torn,   \* no such file; a file with part of its content
    Keep,            \* the -backup-keep flag
    MaxClock,        \* bound: seconds that pass
    MaxCommits,      \* bound: changes of the database
    MaxFaults        \* bound: crashes, power losses, lost databases, failed calls

Empty == 0
Content == Nat

ASSUME BackupsAssumption ==
    /\ Keep \in Nat /\ MaxClock \in Nat /\ MaxCommits \in Nat /\ MaxFaults \in Nat
    /\ Missing \notin Nat /\ Torn \notin Nat /\ Missing # Torn

VARIABLES
    pc,        \* what the main goroutine does next; the backup goroutine has its own
    step,      \* what the backup goroutine does next
    name,      \* Backup's final, the name of the snapshot being written
    db,        \* state.db with its WAL
    restore,   \* state.db.restore
    dir,       \* name -> the file state-<name>.db
    tmps,      \* name -> the file state-<name>.db.tmp
    disk,      \* dir as far as its renames and removals have reached the disk
    unsettled, \* whether state.db was renamed into place since its directory was synced
    clock, commits, faults

vars == <<pc, step, name, db, restore, dir, tmps, disk, unsettled, clock, commits, faults>>

Put(map, key, value) == [k \in DOMAIN map \cup {key} |-> IF k = key THEN value ELSE map[k]]
Without(map, key) == Restrict(map, DOMAIN map \ {key})

\* A file has a content, and all of it may have been synced to disk.
File == [content : Content \cup {Missing, Torn}, synced : BOOLEAN]
NoFile == [content |-> Missing, synced |-> TRUE]
NoFiles == [n \in {} |-> NoFile]
Written(content) == [content |-> content, synced |-> FALSE]
Exists(file) == file.content # Missing

\* Slip: the sync is left out.
syncNothing(file) == file

syncFile(file) == [file EXCEPT !.synced = TRUE]

Fault == faults < MaxFaults /\ faults' = faults + 1

Init ==
    /\ pc = "down" /\ step = "idle" /\ name = 0
    /\ db = NoFile /\ restore = NoFile
    /\ dir = NoFiles /\ tmps = NoFiles /\ disk = NoFiles /\ unsettled = FALSE
    /\ clock = 0 /\ commits = 0 /\ faults = 0

--------------------------------------------------------------------------------
(* Boot: RestoreIfMissing, then OpenSQLite *)

listBackups == DOMAIN dir

IsNewest(n, names) == n \in names /\ \A m \in names : m <= n
IsOldest(n, names) == n \in names /\ \A m \in names : n <= m

\* Slip: the first of the sorted list.
OldestBackup == {n \in listBackups : IsOldest(n, listBackups)}

\* The last of the sorted list; none if there is no snapshot.
LatestBackup == {n \in listBackups : IsNewest(n, listBackups)}

\* Stat and LatestBackup.
Boot ==
    /\ pc = "down"
    /\ pc' = IF ~ Exists(db) /\ LatestBackup # {} THEN "copy" ELSE "open"
    /\ UNCHANGED <<step, name, db, restore, dir, tmps, disk, unsettled, clock, commits, faults>>

\* Slip: a copy that an earlier boot left behind is an error.
CopySnapshotExclusively ==
    /\ pc = "copy"
    /\ \/ /\ ~ Exists(restore)
          /\ \E latest \in LatestBackup : restore' = Written(dir[latest].content)
          /\ pc' = "sync"
       \/ Exists(restore) /\ pc' = "down" /\ UNCHANGED restore
    /\ UNCHANGED <<step, name, db, dir, tmps, disk, unsettled, clock, commits, faults>>

\* The file is truncated first, so what an earlier boot left there does not matter.
CopySnapshot ==
    /\ pc = "copy"
    /\ \E latest \in LatestBackup : restore' = Written(dir[latest].content)
    /\ pc' = "sync"
    /\ UNCHANGED <<step, name, db, dir, tmps, disk, unsettled, clock, commits, faults>>

SyncRestored ==
    /\ pc = "sync"
    /\ restore' = syncFile(restore)
    /\ pc' = "publish"
    /\ UNCHANGED <<step, name, db, dir, tmps, disk, unsettled, clock, commits, faults>>

PublishRestored ==
    /\ pc = "publish"
    /\ db' = restore
    /\ restore' = NoFile
    /\ unsettled' = TRUE
    /\ pc' = "open"
    /\ UNCHANGED <<step, name, dir, tmps, disk, clock, commits, faults>>

\* What stays behind when the copy is cut short, before or in the writing.
leftBehind == IF pc = "copy" THEN {restore, Written(Torn)} ELSE {restore}

\* An error ends the process; the copy stays behind.
RestoreFails ==
    /\ pc \in {"copy", "sync", "publish"}
    /\ restore' \in leftBehind
    /\ pc' = "down"
    /\ Fault
    /\ UNCHANGED <<step, name, db, dir, tmps, disk, unsettled, clock, commits>>

\* A missing database is created empty; one that fails quick_check ends the process.
OpenSQLite ==
    /\ pc = "open"
    /\ db' = IF Exists(db) THEN db ELSE [content |-> Empty, synced |-> TRUE]
    /\ pc' = IF db.content = Torn THEN "down" ELSE "serving"
    /\ UNCHANGED <<step, name, restore, dir, tmps, disk, unsettled, clock, commits, faults>>

--------------------------------------------------------------------------------
(* The database in use *)

\* The first commit syncs the WAL and, the WAL being new, its directory.
Commit ==
    /\ pc = "serving" /\ step # "vacuum"
    /\ commits < MaxCommits
    /\ commits' = commits + 1
    /\ db' = [db EXCEPT !.content = commits + 1]
    /\ unsettled' = FALSE
    /\ UNCHANGED <<pc, step, name, restore, dir, tmps, disk, clock, faults>>

--------------------------------------------------------------------------------
(* Backup *)

\* A tick of the backup loop: MkdirAll, Remove(tmp), and VACUUM INTO begins.
BeginBackup ==
    /\ pc = "serving" /\ step = "idle"
    /\ name' = clock
    /\ tmps' = Put(tmps, clock, Written(Torn))
    /\ step' = "vacuum"
    /\ UNCHANGED <<pc, db, restore, dir, disk, unsettled, clock, commits, faults>>

Vacuumed ==
    /\ step = "vacuum"
    /\ tmps' = [tmps EXCEPT ![name] = Written(db.content)]
    /\ step' = "sync"
    /\ UNCHANGED <<pc, name, db, restore, dir, disk, unsettled, clock, commits, faults>>

SyncSnapshot ==
    /\ step = "sync"
    /\ tmps' = [tmps EXCEPT ![name] = syncFile(@)]
    /\ step' = "rename"
    /\ UNCHANGED <<pc, name, db, restore, dir, disk, unsettled, clock, commits, faults>>

RenameSnapshot ==
    /\ step = "rename"
    /\ dir' = Put(dir, name, tmps[name])
    /\ tmps' = Without(tmps, name)
    /\ step' = "prune"
    /\ UNCHANGED <<pc, name, db, restore, disk, unsettled, clock, commits, faults>>

\* VACUUM INTO, the sync or the rename fails: the temporary file is removed.
BackupFails ==
    /\ step \in {"vacuum", "sync", "rename"}
    /\ tmps' = Without(tmps, name)
    /\ step' = "idle"
    /\ Fault
    /\ UNCHANGED <<pc, name, db, restore, dir, disk, unsettled, clock, commits>>

\* Slip: the last of the snapshots may go too.
tooManyByOne == Keep > 0 /\ Cardinality(listBackups) >= Keep

tooMany == Keep > 0 /\ Cardinality(listBackups) > Keep

\* The goroutine's own list is the directory's: nobody else changes it.
PruneOne(n) ==
    /\ step = "prune" /\ tooMany
    /\ IsOldest(n, listBackups)
    /\ dir' = Without(dir, n)
    /\ UNCHANGED <<pc, step, name, db, restore, tmps, disk, unsettled, clock, commits, faults>>

\* All old ones are gone, or one could not be removed, which is only logged.
PruneEnds ==
    /\ step = "prune"
    /\ \/ ~ tooMany /\ UNCHANGED faults
       \/ tooMany /\ Fault
    /\ step' = "idle"
    /\ UNCHANGED <<pc, name, db, restore, dir, tmps, disk, unsettled, clock, commits>>

--------------------------------------------------------------------------------
(* Time and faults *)

Tick ==
    /\ clock < MaxClock
    /\ clock' = clock + 1
    /\ UNCHANGED <<pc, step, name, db, restore, dir, tmps, disk, unsettled, commits, faults>>

\* The process dies; what it wrote stays.
Crash ==
    /\ pc # "down"
    /\ pc' = "down" /\ step' = "idle"
    /\ restore' \in leftBehind
    /\ Fault
    /\ UNCHANGED <<name, db, dir, tmps, disk, unsettled, clock, commits>>

Settle(file) == IF file.synced THEN file ELSE [file EXCEPT !.content = Torn]

\* What the file system does with its directories when it likes.
Flush ==
    /\ disk # dir
    /\ disk' = dir
    /\ UNCHANGED <<pc, step, name, db, restore, dir, tmps, unsettled, clock, commits, faults>>

\* Snapshots whose rename has not reached the disk.
undone == {n \in DOMAIN dir : n \notin DOMAIN disk \/ disk[n] # dir[n]}

\* Power fails: what was not synced is lost with the process, files that were
\* renamed have their temporary names again, and removed ones are back.
PowerLoss ==
    /\ pc' = "down" /\ step' = "idle"
    /\ dir' = [n \in DOMAIN disk |-> Settle(disk[n])]
    /\ disk' = dir'
    /\ tmps' = [n \in DOMAIN tmps \cup undone |-> Settle(IF n \in undone THEN dir[n] ELSE tmps[n])]
    /\ \/ db' = Settle(db) /\ restore' = Settle(restore)
       \/ unsettled /\ db' = NoFile /\ restore' = Settle(db)
    /\ unsettled' = FALSE
    /\ Fault
    /\ UNCHANGED <<name, clock, commits>>

\* state.db is lost, its WAL with it.
LoseDatabase ==
    /\ pc = "down" /\ Exists(db)
    /\ db' = NoFile /\ unsettled' = FALSE
    /\ Fault
    /\ UNCHANGED <<pc, step, name, restore, dir, tmps, disk, clock, commits>>

--------------------------------------------------------------------------------
BootStep == Boot \/ CopySnapshot \/ SyncRestored \/ PublishRestored \/ OpenSQLite

BackupStep ==
    \/ BeginBackup \/ Vacuumed \/ SyncSnapshot \/ RenameSnapshot
    \/ PruneEnds \/ \E n \in DOMAIN dir : PruneOne(n)

FaultStep == RestoreFails \/ BackupFails \/ Crash \/ PowerLoss \/ LoseDatabase

Next == BootStep \/ BackupStep \/ Commit \/ Tick \/ Flush \/ FaultStep

\* The supervisor starts a dead controller; its boot goes on.
Spec == Init /\ [][Next]_vars /\ WF_vars(BootStep)

--------------------------------------------------------------------------------
(* Properties *)

Whole == [content : Content, synced : {TRUE}]

\* Whatever a crash or power loss interrupted, the database and the snapshots are
\* whole files on disk; only temporary ones are ever torn.  The backup goroutine
\* runs while the controller serves, and names are not of the future.
TypeOK ==
    /\ pc \in {"down", "copy", "sync", "publish", "open", "serving"}
    /\ step \in {"idle", "vacuum", "sync", "rename", "prune"}
    /\ step # "idle" => pc = "serving"
    /\ db \in Whole \cup {NoFile} /\ restore \in File
    /\ name \in 0 .. clock
    /\ DOMAIN dir \subseteq 0 .. clock /\ dir \in [DOMAIN dir -> Whole]
    /\ DOMAIN disk \subseteq 0 .. clock /\ disk \in [DOMAIN disk -> Whole]
    /\ unsettled \in BOOLEAN
    /\ DOMAIN tmps \subseteq 0 .. clock /\ tmps \in [DOMAIN tmps -> File]
    /\ clock \in 0 .. MaxClock /\ commits \in 0 .. MaxCommits /\ faults \in 0 .. MaxFaults

\* The content of the newest snapshot in a directory.
Newest(map) == {n \in DOMAIN map : IsNewest(n, DOMAIN map)}
OnOffer(map) == IF Newest(map) = {} THEN Missing ELSE map[CHOOSE n \in Newest(map) : TRUE].content

Abstract == INSTANCE Snapshots WITH
    state <- db.content,
    taken <- IF step \in {"sync", "rename"} THEN tmps[name].content ELSE Missing,
    offered <- OnOffer(dir),
    durable <- OnOffer(disk)

\* A half-written file is never mistaken for a snapshot, a lost database comes back
\* as the last snapshot completed and as nothing else, and pruning leaves that one
\* alone, whichever file operation a crash comes after; a power loss may take back
\* the last snapshots, never tear or mix them, and what is left is an earlier one
\* (Backup, RestoreIfMissing).
ImplementsSnapshots == Abstract!SnapshotsSpec

PrunesOldest ==
    pc' # "down" =>
        \A n \in DOMAIN dir \ DOMAIN dir' :
            Keep > 0 /\ Cardinality({m \in DOMAIN dir' : m > n}) >= Keep

\* Only the newest snapshots are kept, but these are (Backup): the controller removes
\* one only when there are -backup-keep newer ones, also after crashes and power
\* losses have left more of them.
KeepsNewest == [][PrunesOldest]_vars

\* A controller whose disk was lost comes back: once faults cease it serves, with a
\* database.
StateReturns == ~ Exists(db) ~> (pc = "serving" /\ Exists(db))
================================================================================
