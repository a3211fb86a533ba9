------------------------------- MODULE Controller -------------------------------
(***************************************************************************)
(* The control plane of cmd/controller and internal/controller: one        *)
(* reconcile loop, HTTP handlers that run beside it on the same store, a   *)
(* backup loop, crashes, restarts and restores.                            *)
(*                                                                         *)
(* The reconcile loop takes no lock across store calls, so handlers run    *)
(* between any two of them.  Each store call of the loop is a step; what   *)
(* the loop carries in local variables between its calls is state here:    *)
(*   pc         the store call the loop makes next                         *)
(*   live       the nodes whose heartbeat is recent at the pass's `now`.   *)
(*              `now` is fixed for a pass, so this set is fixed but for    *)
(*              nodes that check in during the pass, which join it         *)
(*   batch      assignment IDs listed and still to be marked or deleted    *)
(*   todo       the services or jobs listed and not yet reconciled, with   *)
(*              the specification read at listing time; the one being      *)
(*              reconciled is the first                                    *)
(*   liveNodes  reconcileService's own copy of live, which does not grow   *)
(*   have       len(active) in reconcileService                            *)
(*   target     the node chosen for the assignment about to be saved       *)
(*   status     the status about to be written back                        *)
(* Two reads the loop makes in a row of different tables (assignments and  *)
(* nodes) are one step: what handlers do to one table between the reads    *)
(* commutes with the read of the other.                                    *)
(*                                                                         *)
(* Agents and clients are the environment: a node may register, heartbeat, *)
(* fall silent and report any phase the API accepts for its assignments at *)
(* any time; a client may post and delete anything at any time.            *)
(***************************************************************************)
EXTENDS Store

CONSTANTS
    Registrations,   \* node ID -> the labels and capacities it may register with
    ServicePosts,    \* service name -> the specifications clients post for it
    JobPosts,        \* job name -> the specifications clients post for it
    ReportedPhases,  \* the phases agents report
    MaxAssignments   \* bound: how many assignment IDs are ever drawn

ASSUME PostsAssumption ==
    /\ Registrations \in [Node -> SUBSET NodeSpecs]
    /\ ServicePosts \in [ServiceName -> SUBSET ServiceSpecs]
    /\ JobPosts \in [JobName -> SUBSET JobSpecs]
    /\ ReportedPhases \subseteq AssignmentPhase
    /\ MaxAssignments \in Nat

VARIABLES
    pc, live, batch, todo, liveNodes, have, target, status,
    startedAge,   \* age of startedAt; Unset before the first Reconcile
    now,          \* createdAt of this pass's assignments: IDs drawn before it
    drawn,        \* IDs drawn so far; random suffixes, so never rolled back
    backup        \* the newest snapshot in -backup-dir

pass == <<pc, live, batch, todo, liveNodes, have, target, status>>
vars == <<tables, pass, startedAge, now, drawn, backup>>

Unset == -1
NoStatus == [none |-> TRUE]

ServiceSteps == {"reconcileService", "deleteExcess", "scaleUp", "saveReplica",
                 "listFinal", "serviceStatus"}
JobSteps == {"reconcileJob", "chooseJobNode", "saveAttempt", "jobStatus"}
PassSteps == {"listLost", "markLost"} \cup ServiceSteps \cup JobSteps

Up == pc # "down"
InPass == pc \in PassSteps

\* The service or job being reconciled: lists are ordered by name.
First(name) == name \in DOMAIN todo /\ \A m \in DOMAIN todo : name <= m

Specs(table) == [name \in DOMAIN table |-> table[name].spec]

ActiveOf(kind, name) == {i \in OwnedBy(kind, name) : IsActivePhase(assignments[i].phase)}

\* Slip: finished replicas are counted too.
ActiveOnAnyPhase(kind, name, where) == {i \in OwnedBy(kind, name) : assignments[i].node \in where}

\* Active assignments of an owner on a given set of nodes.
ActiveOn(kind, name, where) == {i \in ActiveOf(kind, name) : assignments[i].node \in where}

WithPhase(ids, phase) == {i \in ids : assignments[i].phase = phase}

\* The last and the first of a set of assignments in the order of their creation.
Latest(ids) == {i \in ids : \A k \in ids : assignments[k].createdAt <= assignments[i].createdAt}
Earliest(ids) == {i \in ids : \A k \in ids : assignments[i].createdAt <= assignments[k].createdAt}

Init ==
    /\ nodes = EmptyTable /\ services = EmptyTable /\ jobs = EmptyTable
    /\ assignments = EmptyTable
    /\ pc = "idle"
    /\ live = {} /\ batch = {} /\ todo = EmptyTable
    /\ liveNodes = {} /\ have = 0 /\ target = {} /\ status = NoStatus
    /\ startedAge = Unset
    /\ now = 0
    /\ drawn = 0
    /\ backup = EmptyDatabase

--------------------------------------------------------------------------------
(* A pass begins; markLostAssignments *)

\* Slip: no grace.
ungraced(age, since) == age

\* Age of a heartbeat with startup grace: a node known at boot counts as heard
\* from when the controller made its first pass.
graced(age, since) == IF age > since THEN since ELSE age

\* Slip: a registered node is a live node.
registeredNodeSet(since) == DOMAIN nodes

liveNodeSet(since) == {n \in DOMAIN nodes : graced(nodes[n].age, since) <= NodeTimeout}

ReconcileBegin ==
    LET since == IF startedAge = Unset THEN 0 ELSE startedAge
    IN  /\ pc = "idle"
        /\ startedAge' = since
        /\ live' = liveNodeSet(since)
        /\ now' = drawn
        /\ pc' = "listLost"
        /\ UNCHANGED <<tables, batch, todo, liveNodes, have, target, status, drawn, backup>>

\* Slip: replicas that have not started yet are not marked.
ListLostRunningOnly ==
    /\ pc = "listLost"
    /\ batch' = {i \in DOMAIN assignments :
                   assignments[i].phase = Running /\ assignments[i].node \notin live}
    /\ pc' = "markLost"
    /\ UNCHANGED <<tables, live, todo, liveNodes, have, target, status, startedAge, now, drawn, backup>>

ListLost ==
    /\ pc = "listLost"
    /\ batch' = {i \in DOMAIN assignments :
                   IsActivePhase(assignments[i].phase) /\ assignments[i].node \notin live}
    /\ pc' = "markLost"
    /\ UNCHANGED <<tables, live, todo, liveNodes, have, target, status, startedAge, now, drawn, backup>>

MarkLost(i) ==
    /\ pc = "markLost"
    /\ i \in batch
    /\ UpdateAssignmentStatus(i, Lost)
    /\ batch' = batch \ {i}
    /\ UNCHANGED <<pc, live, todo, liveNodes, have, target, status, startedAge, now, drawn, backup>>

ListServices ==
    /\ pc = "markLost"
    /\ batch = {}
    /\ todo' = Specs(services)
    /\ pc' = "reconcileService"
    /\ UNCHANGED <<tables, live, batch, liveNodes, have, target, status, startedAge, now, drawn, backup>>

--------------------------------------------------------------------------------
(* reconcileService *)

\* Goes before the other in the removal order, whatever the IDs: Pending ones
\* first, then the newer ones.
removedBefore(a, b) ==
    \/ a.phase = Pending /\ b.phase # Pending
    \/ a.phase = b.phase /\ a.createdAt > b.createdAt

\* The sets the sort can put in front; IDs, which are random, break ties.
pickAssignmentsToRemove(ids, count) ==
    {picked \in SUBSET ids :
        /\ Cardinality(picked) = count
        /\ \A i \in picked, k \in ids \ picked : ~ removedBefore(assignments[k], assignments[i])}

ReconcileService(s) ==
    LET active == ActiveOn(Service, s, live)
        excess == Cardinality(active) - todo[s].replicas
    IN  /\ pc = "reconcileService"
        /\ First(s)
        /\ liveNodes' = live
        /\ \/ /\ excess > 0
              /\ batch' \in pickAssignmentsToRemove(active, excess)
              /\ pc' = "deleteExcess"
              /\ UNCHANGED have
           \/ /\ excess <= 0
              /\ have' = Cardinality(active)
              /\ pc' = "scaleUp"
              /\ UNCHANGED batch
        /\ UNCHANGED <<tables, live, todo, target, status, startedAge, now, drawn, backup>>

DeleteExcess(i) ==
    /\ pc = "deleteExcess"
    /\ i \in batch
    /\ DeleteAssignment(i)
    /\ batch' = batch \ {i}
    /\ UNCHANGED <<pc, live, todo, liveNodes, have, target, status, startedAge, now, drawn, backup>>

Relist(s) ==
    /\ pc = "deleteExcess"
    /\ batch = {}
    /\ First(s)
    /\ have' = Cardinality(ActiveOn(Service, s, liveNodes))
    /\ pc' = "scaleUp"
    /\ UNCHANGED <<tables, live, batch, todo, liveNodes, target, status, startedAge, now, drawn, backup>>

\* No node is chosen once the bound on IDs is reached.
ChooseFor(spec, ports) ==
    IF drawn < MaxAssignments
    THEN ChooseNode(live, nodes, assignments, spec.resources, spec.placement, ports)
    ELSE {}

ScaleUp(s) ==
    /\ pc = "scaleUp"
    /\ First(s)
    /\ have < todo[s].replicas
    /\ target' = ChooseFor(todo[s], todo[s].ports)
    /\ pc' = IF target' = {} THEN "listFinal" ELSE "saveReplica"
    /\ UNCHANGED <<tables, live, batch, todo, liveNodes, have, status, startedAge, now, drawn, backup>>

SaveReplica(s) ==
    /\ pc = "saveReplica"
    /\ First(s)
    /\ \E n \in target : SaveAssignment(drawn + 1,
           [kind |-> Service, owner |-> s, node |-> n,
            resources |-> todo[s].resources, ports |-> todo[s].ports,
            attempt |-> 1, phase |-> Pending, createdAt |-> now])
    /\ drawn' = drawn + 1
    /\ have' = have + 1
    /\ target' = {}
    /\ pc' = "scaleUp"
    /\ UNCHANGED <<live, batch, todo, liveNodes, status, startedAge, now, backup>>

ScaledUp(s) ==
    /\ pc = "scaleUp"
    /\ First(s)
    /\ have >= todo[s].replicas
    /\ pc' = "listFinal"
    /\ UNCHANGED <<tables, live, batch, todo, liveNodes, have, target, status, startedAge, now, drawn, backup>>

\* Slip: only running replicas are listed.
runningStatus(counted, replicas) ==
    [desired |-> replicas, pending |-> {}, running |-> WithPhase(counted, Running)]

serviceStatus(counted, replicas) ==
    [desired |-> replicas,
     pending |-> WithPhase(counted, Pending), running |-> WithPhase(counted, Running)]

ListFinal(s) ==
    /\ pc = "listFinal"
    /\ First(s)
    /\ status' = serviceStatus(ActiveOn(Service, s, liveNodes), todo[s].replicas)
    /\ pc' = "serviceStatus"
    /\ UNCHANGED <<tables, live, batch, todo, liveNodes, have, target, startedAge, now, drawn, backup>>

WriteServiceStatus(s) ==
    /\ pc = "serviceStatus"
    /\ First(s)
    /\ UpdateServiceStatus(s, status)
    /\ todo' = Without(todo, {s})
    /\ liveNodes' = {} /\ have' = 0 /\ status' = NoStatus
    /\ pc' = "reconcileService"
    /\ UNCHANGED <<live, batch, target, startedAge, now, drawn, backup>>

ListJobs ==
    /\ pc = "reconcileService"
    /\ DOMAIN todo = {}
    /\ todo' = Specs(jobs)
    /\ pc' = "reconcileJob"
    /\ UNCHANGED <<tables, live, batch, liveNodes, have, target, status, startedAge, now, drawn, backup>>

--------------------------------------------------------------------------------
(* reconcileJob *)

\* The scan stops at the first success; FailedAttempts counts those before it.
succeededStatus(owned, first) ==
    [succeeded |-> TRUE,
     failedAttempts |-> Cardinality({i \in WithPhase(owned, Failed) :
                            assignments[i].createdAt < assignments[first].createdAt}),
     active |-> {}, last |-> {first}]

larger(a, b) == IF a > b THEN a ELSE b

activeStatus(owned, current) ==
    [succeeded |-> FALSE,
     failedAttempts |-> larger(Cardinality(WithPhase(owned, Failed)), assignments[current].attempt - 1),
     active |-> {current}, last |-> {current}]

\* Slip: a lost node is a failure of the job.
idleStatusCountingLost(owned) ==
    [succeeded |-> FALSE,
     failedAttempts |-> Cardinality(WithPhase(owned, Failed) \cup WithPhase(owned, Lost)),
     active |-> {}, last |-> Latest({i \in owned : ~ IsActivePhase(assignments[i].phase)})]

idleStatus(owned) ==
    [succeeded |-> FALSE,
     failedAttempts |-> Cardinality(WithPhase(owned, Failed)),
     active |-> {}, last |-> Latest({i \in owned : ~ IsActivePhase(assignments[i].phase)})]

\* Slip: one retry too many.
outOfRetriesLate(failedAttempts, retries) == failedAttempts > retries + 1

outOfRetries(failedAttempts, retries) == failedAttempts > retries

\* Slip: the scan does not look for a success.
ReconcileJobIgnoringSuccess(j) ==
    LET owned == OwnedBy(Job, j)
        active == ActiveOn(Job, j, live)
    IN  /\ pc = "reconcileJob"
        /\ First(j)
        /\ \/ /\ \E current \in Latest(active) : status' = activeStatus(owned, current)
              /\ pc' = "jobStatus"
           \/ /\ active = {}
              /\ status' = idleStatus(owned)
              /\ pc' = IF outOfRetries(status'.failedAttempts, todo[j].retries)
                       THEN "jobStatus" ELSE "chooseJobNode"
        /\ UNCHANGED <<tables, live, batch, todo, liveNodes, have, target, startedAge, now, drawn, backup>>

ReconcileJob(j) ==
    LET owned == OwnedBy(Job, j)
        succeeded == WithPhase(owned, Succeeded)
        active == ActiveOn(Job, j, live)
    IN  /\ pc = "reconcileJob"
        /\ First(j)
        /\ \/ \E first \in Earliest(succeeded) :
                /\ status' = succeededStatus(owned, first)
                /\ pc' = "jobStatus"
           \/ /\ succeeded = {}
              /\ \E current \in Latest(active) : status' = activeStatus(owned, current)
              /\ pc' = "jobStatus"
           \/ /\ succeeded = {} /\ active = {}
              /\ status' = idleStatus(owned)
              /\ pc' = IF outOfRetries(status'.failedAttempts, todo[j].retries)
                       THEN "jobStatus" ELSE "chooseJobNode"
        /\ UNCHANGED <<tables, live, batch, todo, liveNodes, have, target, startedAge, now, drawn, backup>>

ChooseJobNode(j) ==
    /\ pc = "chooseJobNode"
    /\ First(j)
    /\ target' = ChooseFor(todo[j], {})
    /\ pc' = IF target' = {} THEN "jobStatus" ELSE "saveAttempt"
    /\ UNCHANGED <<tables, live, batch, todo, liveNodes, have, status, startedAge, now, drawn, backup>>

SaveAttempt(j) ==
    /\ pc = "saveAttempt"
    /\ First(j)
    /\ \E n \in target : SaveAssignment(drawn + 1,
           [kind |-> Job, owner |-> j, node |-> n,
            resources |-> todo[j].resources, ports |-> {},
            attempt |-> status.failedAttempts + 1, phase |-> Pending, createdAt |-> now])
    /\ drawn' = drawn + 1
    /\ status' = [status EXCEPT !.active = {drawn + 1}, !.last = {drawn + 1}]
    /\ target' = {}
    /\ pc' = "jobStatus"
    /\ UNCHANGED <<live, batch, todo, liveNodes, have, startedAge, now, backup>>

WriteJobStatus(j) ==
    /\ pc = "jobStatus"
    /\ First(j)
    /\ UpdateJobStatus(j, status)
    /\ todo' = Without(todo, {j})
    /\ status' = NoStatus
    /\ pc' = "reconcileJob"
    /\ UNCHANGED <<live, batch, liveNodes, have, target, startedAge, now, drawn, backup>>

ReconcileEnd ==
    /\ pc = "reconcileJob"
    /\ DOMAIN todo = {}
    /\ pc' = "idle"
    /\ live' = {} /\ now' = 0
    /\ UNCHANGED <<tables, batch, todo, liveNodes, have, target, status, startedAge, drawn, backup>>

--------------------------------------------------------------------------------
(* HTTP handlers *)

\* A node that checks in during a pass is live in the rest of it.
CheckedIn(n) == live' = IF InPass THEN live \cup {n} ELSE live

\* Slip: the posted count is stored as it is.
replicasAsPosted(replicas) == replicas

defaultReplicas(replicas) == IF replicas <= 0 THEN 1 ELSE replicas

PostService(s) ==
    /\ Up
    /\ \E spec \in ServicePosts[s] :
           UpsertService(s, [spec EXCEPT !.replicas = defaultReplicas(@)])
    /\ UNCHANGED <<pass, startedAge, now, drawn, backup>>

RemoveService(s) ==
    /\ Up
    /\ DeleteService(s)
    /\ UNCHANGED <<pass, startedAge, now, drawn, backup>>

PostJob(j) ==
    /\ Up
    /\ \E spec \in JobPosts[j] : UpsertJob(j, spec)
    /\ UNCHANGED <<pass, startedAge, now, drawn, backup>>

RemoveJob(j) ==
    /\ Up
    /\ DeleteJob(j)
    /\ UNCHANGED <<pass, startedAge, now, drawn, backup>>

RegisterNode(n) ==
    /\ Up
    /\ \E spec \in Registrations[n] : UpsertNode(n, spec)
    /\ CheckedIn(n)
    /\ UNCHANGED <<pc, batch, todo, liveNodes, have, target, status, startedAge, now, drawn, backup>>

Heartbeat(n) ==
    /\ Up
    /\ TouchNode(n)
    /\ CheckedIn(n)
    /\ UNCHANGED <<pc, batch, todo, liveNodes, have, target, status, startedAge, now, drawn, backup>>

isAgentReportablePhase(phase) == phase \in {Running, Succeeded, Failed, Stopped}

ownsAssignment(n, id) == id \in DOMAIN assignments /\ assignments[id].node = n

\* The check of the owner and the update are two store calls.  A row never moves
\* to another node and the update ignores a row that has gone, so they are one step.
ReportStatus(n, id, phase) ==
    /\ Up
    /\ isAgentReportablePhase(phase)
    /\ ownsAssignment(n, id)
    /\ UpdateAssignmentStatus(id, phase)
    /\ UNCHANGED <<pass, startedAge, now, drawn, backup>>

--------------------------------------------------------------------------------
(* The clock, backups, crashes and restarts *)

Tick ==
    /\ nodes' = AgedNodes(nodes)
    /\ backup' = [backup EXCEPT !.nodes = AgedNodes(@)]
    /\ startedAge' = IF startedAge = Unset THEN Unset ELSE Older(startedAge)
    /\ UNCHANGED <<services, jobs, assignments, pass, now, drawn>>

Backup ==
    /\ Up
    /\ backup' = Snapshot
    /\ UNCHANGED <<tables, pass, startedAge, now, drawn>>

\* The process dies, of a store error (failOn) or otherwise, between two store
\* calls; committed rows stay.
Crash ==
    /\ Up
    /\ pc' = "down"
    /\ live' = {} /\ batch' = {} /\ todo' = EmptyTable
    /\ liveNodes' = {} /\ have' = 0 /\ target' = {} /\ status' = NoStatus
    /\ startedAge' = Unset
    /\ now' = 0
    /\ UNCHANGED <<tables, drawn, backup>>

\* The supervisor starts the controller again on the database it left.
Boot ==
    /\ pc = "down"
    /\ pc' = "idle"
    /\ UNCHANGED <<tables, live, batch, todo, liveNodes, have, target, status,
                   startedAge, now, drawn, backup>>

\* Slip: IDs are counted, and the count comes back with the snapshot.
RestoreRollingBack ==
    /\ pc = "down"
    /\ Load(backup)
    /\ drawn' = Cardinality(DOMAIN backup.assignments)
    /\ pc' = "idle"
    /\ UNCHANGED <<live, batch, todo, liveNodes, have, target, status, startedAge, now, backup>>

\* state.db is gone: RestoreIfMissing copies the newest snapshot into place, or
\* leaves an empty database when there is none.
RestoreIfMissing ==
    /\ pc = "down"
    /\ Load(backup)
    /\ pc' = "idle"
    /\ UNCHANGED <<live, batch, todo, liveNodes, have, target, status, startedAge, now, drawn, backup>>

--------------------------------------------------------------------------------
ReconcileStep ==
    \/ ReconcileBegin \/ ListLost \/ ListServices \/ ListJobs \/ ReconcileEnd
    \/ \E i \in batch : MarkLost(i) \/ DeleteExcess(i)
    \/ \E s \in ServiceName :
          \/ ReconcileService(s) \/ Relist(s) \/ ScaleUp(s) \/ SaveReplica(s)
          \/ ScaledUp(s) \/ ListFinal(s) \/ WriteServiceStatus(s)
    \/ \E j \in JobName :
          \/ ReconcileJob(j) \/ ChooseJobNode(j) \/ SaveAttempt(j) \/ WriteJobStatus(j)

HandlerStep ==
    \/ \E s \in ServiceName : PostService(s) \/ RemoveService(s)
    \/ \E j \in JobName : PostJob(j) \/ RemoveJob(j)
    \/ \E n \in Node : RegisterNode(n) \/ Heartbeat(n)
    \/ \E n \in Node, id \in DOMAIN assignments, phase \in ReportedPhases :
          ReportStatus(n, id, phase)

Restart == Boot \/ RestoreIfMissing

Next == ReconcileStep \/ HandlerStep \/ Tick \/ Backup \/ Crash \/ Restart

Spec == Init /\ [][Next]_vars

\* The reconcile goroutine keeps running, the supervisor restarts a dead
\* controller and time passes; clients and agents owe nothing.
FairSpec ==
    Spec /\ WF_vars(ReconcileStep) /\ WF_vars(Restart) /\ WF_vars(Tick)

--------------------------------------------------------------------------------
(* Properties *)

IsTable(table, keys, rows) == DOMAIN table \subseteq keys /\ table \in [DOMAIN table -> rows]

NodeRow == [labels : Label, capacity : ResourceRequirements, age : 0 .. Stale]
StoredServiceSpec == {spec \in ServiceSpecs : spec.replicas > 0}
ServiceRow == [spec : StoredServiceSpec, status : ServiceStatus]
JobRow == [spec : JobSpecs, status : JobStatus]
DrawnID == 1 .. drawn

IsDatabase(database) ==
    /\ database = [nodes |-> database.nodes, services |-> database.services,
                   jobs |-> database.jobs, assignments |-> database.assignments]
    /\ IsTable(database.nodes, Node, NodeRow)
    /\ IsTable(database.services, ServiceName, ServiceRow)
    /\ IsTable(database.jobs, JobName, JobRow)
    /\ IsTable(database.assignments, DrawnID, Assignment)

\* The assignments that are active replicas of a service, wherever they are.
Replicas(s) ==
    {i \in DOMAIN assignments :
        /\ assignments[i].kind = Service /\ assignments[i].owner = s
        /\ assignments[i].phase \in {Pending, Running}}

\* The assignments of a job in some phase.
AttemptsOf(j, phases) ==
    {i \in DOMAIN assignments :
        assignments[i].kind = Job /\ assignments[i].owner = j /\ assignments[i].phase \in phases}

\* The tables and the loop's local variables hold rows of their types: stored
\* replica counts are positive (handleServices), IDs are drawn ones, and the
\* status about to be written is a service's or a job's as the step requires.
TypeOK ==
    /\ IsDatabase(Snapshot)
    /\ IsDatabase(backup)
    /\ pc \in {"down", "idle"} \cup PassSteps
    /\ live \subseteq IF pc \in PassSteps THEN DOMAIN nodes ELSE {}
    /\ batch \subseteq DrawnID
    /\ pc \in ServiceSteps => IsTable(todo, ServiceName, StoredServiceSpec)
    /\ pc \in JobSteps => IsTable(todo, JobName, JobSpecs)
    /\ liveNodes \subseteq Node
    /\ have \in Nat
    /\ target \subseteq IF pc \in {"saveReplica", "saveAttempt"} THEN live ELSE {}
    /\ target # {} => drawn < MaxAssignments
    /\ pc = "serviceStatus" => status \in ServiceStatus
    /\ pc \in JobSteps \ {"reconcileJob"} => status \in JobStatus
    /\ startedAge \in {Unset} \cup 0 .. Stale
    /\ now \in 0 .. drawn
    /\ drawn \in 0 .. MaxAssignments

\* Workloads use host networking (internal/api/types.go): no two active
\* assignments on a node share a port.  The scheduler checks ports in one store call and the assignment is
\* saved in a later one, with reports, deletions and re-posted services between.
PortsExclusiveIn(table) ==
    \A i, k \in DOMAIN table :
        /\ i # k
        /\ table[i].node = table[k].node
        /\ table[i].phase \in {Pending, Running} /\ table[k].phase \in {Pending, Running}
        => table[i].ports \cap table[k].ports = {}

PortsExclusive == PortsExclusiveIn(assignments)

\* ChooseNode's check still holds when the assignment is saved: no node that
\* always registers with the same capacity is ever committed beyond it.
CapacityRespected ==
    \A n \in DOMAIN nodes :
        (\E spec \in Registrations[n] : Registrations[n] = {spec}) =>
            /\ UsedCPU(assignments, n) <= nodes[n].capacity.cpu
            /\ UsedMemory(assignments, n) <= nodes[n].capacity.memory

\* A job has one attempt at a time and none after a success: of all its
\* assignments at most one is active or has succeeded, although the pass that
\* starts an attempt works from a list read before other handlers ran.
OneAttemptPerJobIn(table) ==
    \A i, k \in DOMAIN table :
        /\ table[i].kind = Job /\ table[k].kind = Job
        /\ table[i].owner = table[k].owner
        /\ table[i].phase \in {Pending, Running, Succeeded}
        /\ table[k].phase \in {Pending, Running, Succeeded}
        => i = k

OneAttemptPerJob == OneAttemptPerJobIn(assignments)

\* A job is attempted Retries + 1 times and not once more.  Lost attempts do
\* not count (reconcileJob counts Failed ones alone).  Re-posting a job may
\* change Retries, so the bound is the largest value ever posted.
RetriesBounded ==
    \A j \in JobName, spec \in UNION {JobPosts[k] : k \in JobName} :
        (\A other \in JobPosts[j] : other.retries <= spec.retries) =>
            Cardinality(AttemptsOf(j, {Failed})) <= Max({spec.retries + 1, 0})

\* When reconcileService has finished with a service it has no more active
\* replicas than the pass wanted, wherever they are: those left on nodes that
\* came back to life during the pass included.
NoSurplusReplicas ==
    \A s \in ServiceName :
        pc \in {"listFinal", "serviceStatus"} /\ First(s) =>
            Cardinality(Replicas(s)) <= todo[s].replicas

KeepsTerminal ==
    \A i \in DOMAIN assignments :
        Up /\ IsTerminalPhase(assignments[i].phase) /\ i \in DOMAIN assignments' =>
            assignments'[i].phase = assignments[i].phase

\* Terminal phases are final (applyStatus): no late report and no later pass
\* gives a Lost or finished assignment another phase.  Only restoring an older
\* database, which happens while the controller is down, does.
TerminalIsFinal == [][KeepsTerminal]_vars

LosesOnlySilent ==
    \A i \in DOMAIN assignments :
        /\ Up /\ i \in DOMAIN assignments'
        /\ assignments'[i].phase = Lost /\ assignments[i].phase # Lost
        => LET n == assignments[i].node
           IN  /\ startedAge > NodeTimeout
               /\ n \in DOMAIN nodes
               /\ nodes[n].age > NodeTimeout \/ n \in live

\* Work is only declared Lost when the controller has been up for more than a
\* timeout (startup grace) and its node, a registered one, has been silent for as
\* long.  The one exception is a heartbeat that arrived after markLostAssignments
\* had read the nodes (then the node is in live).
LostAfterSilence == [][LosesOnlySilent]_vars

--------------------------------------------------------------------------------
(* Liveness, under FairSpec *)

Silent(n) == n \in DOMAIN nodes => nodes[n].age > NodeTimeout

ActiveAt(n) == {i \in DOMAIN assignments : assignments[i].node = n /\ IsActivePhase(assignments[i].phase)}

\* A node that stays silent ends with no active work, whatever clients and the
\* other nodes do, provided the controller is not restarted for ever.
DeadNodesDrain ==
    \A n \in Node : <>[](Up /\ Silent(n)) => <>[](ActiveAt(n) = {})

\* There is room for one more replica of s on a node that is live right now.
RoomFor(s) ==
    ChooseNode(liveNodeSet(startedAge), nodes, assignments, services[s].spec.resources,
               services[s].spec.placement, services[s].spec.ports) # {}

Settled(s, replicas) ==
    /\ Up /\ drawn < MaxAssignments
    /\ s \in DOMAIN services /\ services[s].spec.replicas = replicas
    /\ Cardinality(Replicas(s)) < replicas => RoomFor(s)

\* The loop converges: a service whose replica count stops changing, and for
\* which there is room while it has too few replicas, gets exactly that many and
\* keeps them.
ServiceConverges ==
    \A s \in ServiceName : \A replicas \in {spec.replicas : spec \in ServicePosts[s]} :
        <>[]Settled(s, replicas) => <>[](Cardinality(Replicas(s)) = replicas)

\* The status clients see catches up with the assignments a settled service has,
\* time and again, although every pass writes a status it computed from lists
\* that handlers have since overtaken.
StatusCatchesUp ==
    \A s \in ServiceName : \A replicas \in {spec.replicas : spec \in ServicePosts[s]} :
        <>[]Settled(s, replicas) =>
            []<>(/\ s \in DOMAIN services
                 /\ services[s].status.pending \cup services[s].status.running = Replicas(s))

\* A job stays posted with the same retry limit, and there is room for an
\* attempt whenever none is under way.
SettledJob(j, retries) ==
    /\ Up /\ drawn < MaxAssignments
    /\ j \in DOMAIN jobs /\ jobs[j].spec.retries = retries
    /\ AttemptsOf(j, {Pending, Running}) = {} =>
          ChooseNode(liveNodeSet(startedAge), nodes, assignments, jobs[j].spec.resources,
                     jobs[j].spec.placement, {}) # {}

\* A job is never left alone while it has retries: it ends with a success, with
\* more failures than retries, or with an attempt under way.  Attempts lost with
\* their node use up no retry.
JobProgresses ==
    \A j \in JobName : \A retries \in {spec.retries : spec \in JobPosts[j]} :
        <>[]SettledJob(j, retries) =>
            <>[](\/ AttemptsOf(j, {Pending, Running, Succeeded}) # {}
                 \/ Cardinality(AttemptsOf(j, {Failed})) > retries)

\* Removing a service stops its containers: agents stop what is no longer
\* active, so its assignments must not stay active.
DeletedServiceDrains ==
    \A s \in ServiceName :
        <>[](Up /\ s \notin DOMAIN services) => <>[](Replicas(s) = {})
================================================================================
