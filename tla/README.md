# A TLA+ model of the k8 control plane

k8 is a small container orchestrator: one controller with its state in SQLite,
one agent per node that drives containerd, and a command-line client.  This
directory models the parts that decide or keep something (the reconcile loop, the
scheduler, the store, the HTTP handlers, the agent and its containerd executor,
the backup files, the boot of the controller and the join of nodes), checks them
with TLC on small instances and proves their safety properties with TLAPS.

## 1. The system

| Component | State | Operations |
| --- | --- | --- |
| `internal/api` | none | objects, phases (`Pending`, `Running` active; `Succeeded`, `Failed`, `Stopped`, `Lost` terminal) |
| `internal/scheduler` | none | `ChooseNode`: a live node that matches the placement, has room and free ports |
| `internal/store` | four tables: nodes, services, jobs, assignments | upsert, touch, update status, delete, save; `Backup`, `RestoreIfMissing` |
| `internal/controller`, loop | local variables of a pass, `startedAt` | `Reconcile` every 2 s: mark work on dead nodes Lost, scale services, retry jobs, write statuses |
| `internal/controller`, handlers | none of their own | post and delete services and jobs; register, heartbeat, list and report for nodes |
| `cmd/controller` | `state.db`, snapshots | restore, open, CA, token and `admin.conf` at boot; reconcile goroutine, backup goroutine |
| `internal/agent` | `tracked` | register, then heartbeat and `syncAssignments` every 2 s |
| `internal/runtime` (containerd) | `watching`; containers and tasks in containerd | `Start`, `Stop`, `List`; goroutines that start a container and wait for its exit |
| `internal/pki`, join, auth | `ca.key`, `ca.crt`, `token`, `admin.conf`; on a node `ca.crt`, `node.key`, `node.crt` | load or create; join with a token, renew, authenticate |
| `cmd/k8ctl`, `internal/client`, `deploy` | none | single API calls; drills |

How they interact.  Clients and agents call the handlers over HTTP; handlers and
the loop share only the store.  Each store operation is atomic, but a pass of the
loop is some ten of them with no lock across, so handlers run between any two.
Agents pull: they fetch the active assignments of their node, stop what the
runtime holds beyond these and start what is new, and report phases with single
calls that are not retried.  Containers belong to containerd and outlive the
agent; the database outlives the controller, and a snapshot may take its place.

What is hard: a pass that works from lists the handlers have overtaken; a check
(ports, capacity, other attempts) in one store call and the write in a later
one; reports that arrive after a node was given up; crashes between two store
calls; restarts, when every stored heartbeat is stale; restores, when IDs drawn
since are unknown; in the agent three kinds of goroutines over one assignment,
lost reports, containerd or the agent dying between any two calls, reboots; power
that fails between the write, the sync and the rename of a file; a boot or a join
that dies between two files that belong together; files, flags and tokens that
are lost or changed between two starts.

What makes it correct: no two active assignments share a port on a node and none
exceed its capacity; a job has one attempt at a time and none after a success;
terminal phases are final; nobody is declared Lost early; the loop converges;
agents stop only what was given up, reap it in the end, run an attempt once and
tell the truth about it; a lost database comes back as the last complete snapshot;
the CA never changes and everybody's credentials agree with it.  `PROJECT.json` lists the hazards line by line.

## 2. The modules

| Module | Models |
| --- | --- |
| `Api` | the fields of the API objects that decisions depend on |
| `Scheduler` | `ChooseNode` as operators: `Occupants`, `Fits`, `Eligible`, `ChooseNode` |
| `Store` | the tables and every store operation that changes them |
| `Controller` | the loop, one step per store call; the handlers; clock, backup, crash, restart, restore |
| `Lifecycle` | abstract: what agents are promised about an assignment |
| `ControllerLifecycle` | the mapping from `Controller` to `Lifecycle` |
| `Agent` | one node: agent, containerd executor and containerd, against `Lifecycle` |
| `Snapshots` | abstract: what backups promise about the database |
| `Backups` | the file operations of `Backup`, `pruneBackups`, `RestoreIfMissing` and `OpenSQLite` |
| `Bootstrap` | the controller's boot files, the agents' credentials, the join |
| `MCController` | instances of `Controller` for TLC |
| `ControllerProofs`, `ControllerSafety`, `ControllerCounts`, `ControllerRefinement` | theorems about `Controller` |
| `SchedulerProofs` | what the scheduler's sums are and how they change |
| `AgentProofs`, `BackupsProofs`, `BootstrapProofs` | theorems about the others |

`Controller` EXTENDS `Store` EXTENDS `Scheduler` EXTENDS `Api`; `Agent` EXTENDS
`Lifecycle`.  `Lifecycle` is the interface between the two halves: `Controller`
implements it, `Agent` relies on it and on nothing else of the controller.
`Snapshots` stands in the same way between `Backups`, which implements it, and
`Controller`, whose `Backup` and `RestoreIfMissing` are single steps.

`Controller`.  `pc` names the store call the loop makes next; the loop's local
variables are `live`, `batch`, `todo`, `liveNodes`, `have`, `target`, `status`
(the module's header says which Go variable each one is).  `ReconcileBegin`,
`ListLost`, `MarkLost` are `markLostAssignments`; `ReconcileService` to
`WriteServiceStatus` are `reconcileService`; `ReconcileJob` to `WriteJobStatus`
are `reconcileJob`.  Each handler that changes the store is an action.  Requests
that are refused and reads change nothing and are left out.  `Crash` is the
store's fail-stop or any other death, between two store calls.

`Agent`.  `loop` is the main goroutine (`Run`, `syncAssignments`, `Stop` up to its
return); `worker[i]` the goroutine of `Start` (`run`, `create`, `attach`,
`startTask`); `watcher[i]` is `watchExit` and `rewait`.  A step is one critical
section under the executor's or the agent's mutex, or one call to containerd or
to the controller.  containerd, processes, reboots and the supervisor are
external: they are modelled as the code uses them (a task is none, created,
running or exited; a container with a task cannot be deleted; exit streams break
with containerd while processes live on; a reboot leaves containers without
tasks).  `Stop` is `Kill` (SIGTERM), `Waited` or, after the grace period, `KillHard`
(SIGKILL), and `Reap` (the task is deleted).  What a process does about SIGTERM is
up to it: it may exit with 0, with another code or not at all, also after the agent
that sent it has died.  `attach` is two steps, `Attach` (the lookup of the task) and
`Subscribe` (`Wait` and `Status`, which find the task gone if a `Stop` came between).
History variables tell the exits apart: `finished` are the jobs that exited with 0 of
their own accord, `yielded` those that did so after SIGTERM, `signalled` those that
were sent SIGTERM and whose task is still there, `abandoned` those whose `Stop` sent
it and then failed or died.

`Backups`.  `pc` is the main goroutine's next file operation at boot, `step` the
backup goroutine's.  A file is its content and whether it is synced.  `Crash`
leaves what was written; `LoseDatabase` takes `state.db` with its WAL; each call may
fail.  The code syncs files and no directory, so `disk` is the directory of
snapshots as far as its renames and removals have reached the disk; `Flush` writes
them out, when the file system likes.  `PowerLoss` tears what was not synced and
takes back what was not flushed: finished snapshots are gone and pruned ones are
there again.  The same goes for the rename that ends a restore, until the first
commit (`unsettled`).

`Bootstrap`.  `pc` walks through `LoadOrCreateCA`, `LoadOrCreateToken` and
`writeAdminConfig`; `agent[n]` through `BootstrapNode` up to the registration.  A
step is one file written or one request answered.  CAs, keys and secrets are
numbers that are never drawn twice; a certificate is its CA and its key.
Operators give and take tokens and change the `-token` flag; data directories are
lost, wholly or without the token file.  Certificates end: a node's comes near its
end, when it counts as none, and passes it (`age`); the controller's serving
certificate (`serverCert`) is issued at boot only and ends a year later, and from
then until the next boot no agent trusts the controller.

Definitions marked *Slip* are plausible bugs.  They are used by no specification;
they document, as mutations, that each property can fail.

### Abstractions

* Names are numbers, so that lists are ordered; images, commands, environments,
  volumes, messages and times are carried along unread and left out.
* Times.  A row holds the age of its last heartbeat; ages are compared only with
  the timeout and stop just above it.  `now` of a pass is fixed, so the set of
  live nodes is fixed but for nodes that check in.  The clock does not go back.
  A tick that `time.Ticker` buffered while a pass was slow is a `now` slightly in
  the past, which only makes a pass more lenient; it is not modelled.
  `createdAt` is the number of IDs drawn before the pass: equal within a pass
  and growing from pass to pass, as far as assignments are compared by it.
* IDs carry five random characters; a fresh ID is the next number.  That they
  are never drawn again, not even after a restore, is assumed of the randomness.
  Where the code orders by ID to break ties, every order is allowed.
* Reads of different tables in a row are one step, and `ownsAssignment` with the
  update after it is one (a row never changes its node, as `IDsKeepTheirWork`
  proves, and the update ignores a row that has gone).  Assignments are marked Lost, and excess ones deleted, in
  any order.
* Posted statuses are taken to be empty, as `k8ctl` sends them.  Resources are not
  negative.
* A snapshot is what `VACUUM INTO` sees.  The wall clock in the names of snapshots
  does not go back, which is the code's assumption too; SQLite keeps its own
  promises (a commit is on disk and whole).  Renames and removals reach the disk in
  the order they are made, at any later time and all up to one point together.  The
  first commit to a restored database settles its name, since SQLite syncs the
  directory when it creates the WAL.  To `Controller`, a snapshot that a power loss
  takes back is one that was never made.
* `pki.WriteFile` is one step: the temporary file it may leave is never read and
  the next write truncates it.  A node's ID does not change, and the CA's own
  validity of 10 years does not end (those of leaf certificates do).  An agent that runs keeps the credentials it
  started with, in memory; a refused call ends a starting agent and is logged by a
  running one.
* Reports of the agent: the call and the `untrack` after it are one step.  A call
  that times out after it took effect is a delivered one.  Fetches and
  registrations that fail change nothing.  `Executor.Start` never returns an error,
  so the branch for it in `syncAssignments` is unreachable with containerd, and so
  is `Stop` on a container that is gone, since only the main goroutine deletes.
* After a restore an ID may become active again while goroutines of its earlier
  start are still there.  `Start` waits for them to finish (a named bound); two
  that wait for one exit count as one.  Without restores this cannot happen.

## 3. What TLC checks

| Run | Checks | Instance |
| --- | --- | --- |
| `scale` | `TypeOK`, `CapacityRespected`, `NoSurplusReplicas`, `PortsExclusive`, `TerminalIsFinal` | one service posted with 0 (stored as 1) or 2 replicas and one with two replicas that want a port, on a node that comes and goes |
| `jobs` | `OneAttemptPerJob`, `RetriesBounded`, `JobProgresses` | a job with one retry, two nodes that may die |
| `converge` | `ServiceConverges`, `StatusCatchesUp` | two nodes, failures reported at any time |
| `recover` | `DeadNodesDrain`, `ServiceConverges`, `LostAfterSilence`, `ImplementsLifecycle` | crashes between any two store calls, restarts, restores, a node that re-registers with other labels |
| `agent` | `TypeOK`, `JobRunsOnce`, `SuccessIsReal`, `StopsOnlyUnwanted`, `ActiveMeansTask`, `Reaped` | a replica or a job's attempt, two faults, snapshots and restores |
| `backup` | `TypeOK`, `ImplementsSnapshots`, `KeepsNewest`, `StateReturns` | one snapshot kept of up to three, three faults |
| `boot` | `TypeOK`, `ServesWhatItStores`, `CredentialsAgree`, `CANeverChanges`, `ControllerBoots`, `NodesJoin` | a controller and a node, four faults |

The comment above each property states it.  `scale`, `jobs` and `converge` are
without crashes (`SteadySpec`, `SteadyFairSpec`); the others use the full
specification.

Bounds.  `MaxAssignments` IDs are ever drawn (3 or 4: enough for a replica, its
replacement and one more, or an attempt, its retry and one too many); one or two
nodes; `NodeTimeout` 1 in the liveness runs (with 0 no node could stay alive across
a tick, and nothing would ever be settled) and 0 in `scale` (any tick without a
heartbeat kills a node).  An agent is checked with one assignment: assignments
share nothing but the main goroutine, which takes them one after the other, and
the safety properties are proved for any number.  `MaxFaults` is the number of
faults in a behaviour: two reach a failed `Stop` followed by a restore; three a
snapshot left behind by one fault, a database lost by another and a restore cut
short by a third; four a lost data directory with crashes in the boot and in the
join that follow.  `MaxClock` 2 makes three names, two more than are kept, and
`MaxCommits` 2 tells an old snapshot from a new one.  `boot` has one node: nodes
share nothing but the controller, which keeps no state about them here.

Fairness.  Controller: the reconcile goroutine keeps being scheduled, time passes,
a supervisor restarts a dead controller (`Restart=always` in the unit files).
Clients, agents and backups owe nothing.  Agent: its goroutines run, the
supervisor restarts it, containerd comes back; processes may run for ever, and
the controller owes nothing.  Backups, Bootstrap: the supervisor restarts the
processes and a boot or a join goes on; no operator owes anything, and the backup
goroutine need not run.  Faults are finitely many, so the liveness properties say
what happens once they cease.  What they are conditional on is stated in them:
`ControllerBoots` excludes the three kinds of files a boot refuses (half a CA, a
token for another CA, a flag with another secret), `NodesJoin` speaks of nodes
whose credentials or token are good for the controller that serves, while the
certificates of both are valid.  A node whose certificate is near its end needs the
token again: the code counts such credentials as none, where the repository's README
(line 91) says that the token is only needed for the first join.  `NodesJoin` asks
for the token there; `PROJECT.json` has this among the hazards.

### Disagreements found

Five runs are expected to find a violation; each quotes a statement of the
repository that the code does not keep.  `PROJECT.json` has the details.

* `orphan` (`DeletedServiceDrains`): a service deleted after the running pass listed
  it gets new replicas, which no later pass looks at; only their own exit or the loss
  of their node ends them.
* `unreported` (`RunningIsReported`): a lost Running report is never repeated.
* `unstarted` (`ActiveMeansRunning`): an agent that dies between creating and
  starting a task leaves a replica that is reported Running and never runs.
* `unknown` (`RunningNodeIsKnown`): a node that a restore has forgotten does not
  register again while its agent runs.
* `diskloss` (`NodesReturn`): backups do not hold the CA; a controller that lost its
  disk makes another, and agents whose stored credentials look good never try the
  token they are given.

## 4. What is proved

All theorems hold for every value of the constants, from named assumptions on them.

`Controller`, for every number of nodes, services, jobs, ports and assignments and
every timeout (`NamesAssumption`, `NodeTimeoutAssumption`, `PostsAssumption`: names
are numbers, posted objects are of their types):

* `TypeCorrect`: `Spec => []TypeOK`.  `TypeOK` is inductive as it stands, because
  it says at which steps `todo`, `target` and `status` can be trusted.
* `PortsAreExclusive`, `JobsRunOnce`: `Spec => []PortsExclusive` and
  `Spec => []OneAttemptPerJob`.  Neither is inductive.  `Inv` adds: while a replica
  is about to be saved its ports are still free on the chosen node
  (`TargetPortsFree`: between check and save, reports, deletions and Lost marks
  only shrink the table, and nobody but the loop adds to it); while an attempt is
  about to be saved the job has none and no success (`NoOtherAttempt`); once
  `markLostAssignments` is done, all active work is on nodes the pass holds live
  (`AllOnLiveNodes`: so `reconcileJob`, which looks at live nodes only, overlooks
  none); and the newest snapshot satisfies what the table does, since a restore
  replaces one by the other.
* `TerminalPhasesAreFinal`: `Spec => TerminalIsFinal`, from `TypeOK` (a saved
  assignment has a fresh ID).
* `LostOnlyAfterSilence`: `Spec => LostAfterSilence`, from `GraceInv`: work is only on
  registered nodes (`OnRegisteredNodes`), and during `markLostAssignments` the
  nodes outside `live` have been silent, and the controller up, for more than a
  timeout (`SilenceSeen`).
* `IDsKeepTheirWork`: `Spec => [][KeepsWork]_vars`: only the phase of an assignment
  changes while it has a row, restores included.  It rests on `BackupAgrees`: the
  newest snapshot holds no other assignment under an ID the database has, because
  a saved assignment has an ID that neither of them has seen.
* `NoSurplusIsLeft`, `RetriesAreBounded`, `CapacityIsRespected`:
  `Spec => []NoSurplusReplicas`, `[]RetriesBounded`, `[]CapacityRespected`
  (`ControllerCounts`).  In each, the loop takes a count in one store call and relies
  on it in a later one, so none is inductive.  What carries the count across is
  that meanwhile the table is only `Released`: rows go or become terminal, and no
  row asks for more or turns into an attempt that counts.  The invariants say at
  each step of a pass what the count still bounds:
  - `ReplicaInv`: while a service is scaled up, its active replicas on all nodes are
    at most `have`, and while the excess is deleted those outside the batch are at
    most as many as wanted.  Counting looks at live nodes only; that this misses
    none is `AllOnLiveNodes` of `Inv`.
  - `RetryInv`: active and failed attempts together are at most one more than the
    retries posted (`TriesBoundedIn`, of the database and of the snapshot), and while
    a new attempt is on its way at most as many as the retries (`TryLeft`).  It
    counts active attempts too, since each may fail before the loop looks again,
    uses `NoOtherAttempt`, and needs that the retry limits the pass works with were
    posted (`AllPosted`).
  - `CapacityInv`: a node's row has a capacity it registered with, the work on a node
    that always registers the same fits into it (`RegisteredIn`, `FitsIn`, of the
    database and of the snapshot), and while an assignment is about to be saved
    there is room for it on the chosen node (`RoomLeft`).
* The sums of `CapacityRespected` are folds, recursive functions over sets.
  `SchedulerProofs` shows that such a sum is the number of elements of a set, the
  units requested (`Slots`, `SumsAgree`; the induction picks a least set on which sum
  and number differ).  The library's theorems on cardinalities then say how sums
  change when rows go (`FewerUseLess`) or come (`OneMoreUsesMore`).  `FirstFit` adds
  that `ChooseNode` finds a node whenever one is eligible, the least one.
* `ControllerImplementsLifecycle`: `Spec => ImplementsLifecycle`, from `TypeOK`.

`Agent`, for every number of assignments, jobs and faults, with restores
(`AgentAssumption`: the node is one of the nodes, the bound a number):

* `TypeCorrect`, `SuccessesAreReal`, `OnlyUnwantedIsStopped`, `AttemptsRunOnce`:
  `RollbackSpec => []TypeOK`, `[]SuccessIsReal`, `[]StopsOnlyUnwanted`,
  `[]JobRunsOnce`.  One inductive invariant, `Careful`, gives all four.  For each
  assignment it adds: before it is made nobody knows of it (`Fresh`: IDs are new, so
  no container is adopted by mistake); a success that is stored, saved in the
  snapshot, remembered for a repeat or on its way is real (`Honest`); a `Stop` that
  sent SIGTERM goes on to delete the task unless it is abandoned, and while it does,
  the watch says so (`Followed`: so no watcher reads the exit it caused); without a
  restore no process of an active assignment was told to stop (`Unforced`); what is
  marked to be stopped is not active, and what became active
  since the list was fetched has no container yet (`Sparing`); and an active
  attempt has at most one goroutine that can start it, which has not if it still
  can (`Single`).  The last three hold while no snapshot has been restored.
  `SuccessIsReal` has one exception, which the code has too: a job that exits with 0
  on SIGTERM, whose `Stop` then died with its agent or failed, and which a restore
  makes active again, is taken for a success by the next `attach`.  The theorem says
  that this is the only one.
* `AgentKeepsToLifecycle`: `RollbackSpec => LifecycleSpec`, from `Careful`, which says
  that what is repeated is a phase an agent may report.  The agent is proved against
  an environment that takes steps of `Lifecycle`; this says that it causes no others
  itself, so the two halves meet in the same interface.

`Backups`, for every number of snapshots kept, commits and faults
(`BackupsAssumption`: the bounds are numbers, a missing and a torn file are no
contents):

* `FilesAreWhole`: `Spec => []TypeOK`.  `TypeOK` is not inductive: that a file is
  whole when it is renamed depends on the steps before.  `Intact` adds what a
  restore (`Restoring`) and a backup (`Writing`) have in hand at each step, and that
  a directory with snapshots has a newest one, in use and on disk (`HasNewest`).
* `BackupsImplementSnapshots`: `Spec => ImplementsSnapshots`, from `Intact`.  A name is
  at least as new as every snapshot there, so a rename makes the newest; and the
  oldest of more than one is not the newest, so pruning leaves that alone.  A flush is
  a step of `Snapshots` (`Settle`: what is on offer becomes durable), and so is a power
  loss (`Recede`: what is durable is on offer again).
* `PruningKeepsNewest`: `Spec => KeepsNewest`, by counting the newer names.

`Bootstrap`, for every set of nodes and number of faults (`BootstrapAssumption`: no
value is mistaken for a missing one):

* `TypeCorrect`, `ServedIsStored`, `StoredCredentialsAgree`: `Spec => []TypeOK`,
  `[]ServesWhatItStores`, `[]CredentialsAgree`.  The properties depend on the order in
  which files are written, so `Consistent` says what holds at each step of a boot
  (`Booted`) and of a join (`Joining`: what a joining agent had on disk was of no
  use, the certificate is written after its CA, and no certificate is for a key yet
  to be drawn).
* `CAStays`: `Spec => CANeverChanges`, from `Consistent`.

Only model-checked: the properties under fairness (`ServiceConverges`,
`StatusCatchesUp`, `JobProgresses`, `DeadNodesDrain`, `ActiveMeansTask`, `Reaped`,
`StateReturns`, `ControllerBoots`, `NodesJoin`), which the prover does not cover, and
that the loop never stops, which is `ENABLED`.  Every safety property a passing run
checks is proved.

## 5. What is not modelled

* The simulated runtime (`runtime/sim.go`): it runs nothing, its containers are a
  map in the agent's process, and none of the promises about containers that
  outlive the agent apply to it.
* `cmd/k8ctl` and the rest of `internal/client`: flags, tables and single requests,
  without state.  `api/clone.go`: deep copies, which values of the model are.
* Cryptography, encodings, subject alternative names.
* A WAL file that outlives its database, a wall clock that goes back, and the two
  durations of 10 s (a slow `Stop` against the node timeout): see the hazards in
  `PROJECT.json`, which say what is assumed instead.
* Deployment files; the drills' expectations are sources of properties.

## 6. Plan

Done: the core (`Api` to `Controller`), the abstract `Lifecycle`, the agent with its
executor, backup files against the abstract `Snapshots`, boot and join, and the
theorems above.  Controller and agent are composed through `Lifecycle`: one
implements it, the other is checked and proved against it, so no joint state space
is needed.

Left: a model of partitions with several agents at once, for the number of copies of
a replica that run meanwhile; a proof that no pass can get stuck between two store
calls, stated without `ENABLED`.
