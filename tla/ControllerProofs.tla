---------------------------- MODULE ControllerProofs ----------------------------
(***************************************************************************)
(* Type correctness of Controller, for every number of nodes, services,    *)
(* jobs and assignments.  TypeOK is inductive as it stands: it says of the *)
(* pass which lists and targets can be trusted at which step.              *)
(***************************************************************************)
EXTENDS Controller, FiniteSetTheorems, TLAPS

\* Adding or replacing a row of its type keeps a table a table.
LEMMA PutIsTable ==
    ASSUME NEW T, NEW K, NEW R, IsTable(T, K, R), NEW k \in K, NEW r \in R
    PROVE  IsTable(Put(T, k, r), K, R)
BY DEF IsTable, Put

\* Removing rows keeps a table a table.
LEMMA WithoutIsTable ==
    ASSUME NEW T, NEW K, NEW R, IsTable(T, K, R), NEW gone
    PROVE  IsTable(Without(T, gone), K, R)
BY DEF IsTable, Without, Restrict

\* A table stays one when more keys become possible.
LEMMA WiderTable ==
    ASSUME NEW T, NEW K, NEW L, NEW R, IsTable(T, K, R), K \subseteq L
    PROVE  IsTable(T, L, R)
BY DEF IsTable

\* An empty table is a table of anything.
LEMMA EmptyIsTable ==
    ASSUME NEW K, NEW R
    PROVE  IsTable(EmptyTable, K, R)
BY DEF IsTable, EmptyTable


\* TypeOK by its parts.
TablesOK ==
    /\ IsTable(nodes, Node, NodeRow)
    /\ IsTable(services, ServiceName, ServiceRow)
    /\ IsTable(jobs, JobName, JobRow)
    /\ IsTable(assignments, DrawnID, Assignment)

CountersOK ==
    /\ startedAge \in {Unset} \cup 0 .. Stale
    /\ now \in 0 .. drawn
    /\ drawn \in 0 .. MaxAssignments

PassOK ==
    /\ pc \in {"down", "idle"} \cup PassSteps
    /\ live \subseteq IF pc \in PassSteps THEN DOMAIN nodes ELSE {}
    /\ batch \subseteq DrawnID
    /\ pc \in ServiceSteps => IsTable(todo, ServiceName, StoredServiceSpec)
    /\ pc \in JobSteps => IsTable(todo, JobName, JobSpecs)
    /\ liveNodes \subseteq Node
    /\ have \in Nat
    /\ target \subseteq IF pc \in {"saveReplica", "saveAttempt"} THEN live ELSE {}
    /\ target # {} => drawn < MaxAssignments
    /\ pc = "serviceStatus" => status \in ServiceStatus
    /\ pc \in JobSteps \ {"reconcileJob"} => status \in JobStatus

\* TypeOK is the conjunction of its parts,
LEMMA TypeParts == TypeOK <=> TablesOK /\ IsDatabase(backup) /\ CountersOK /\ PassOK
BY DEF TypeOK, TablesOK, CountersOK, PassOK, IsDatabase, Snapshot

\* and so it is after a step.
LEMMA TypePartsNext == TypeOK' <=> TablesOK' /\ IsDatabase(backup)' /\ CountersOK' /\ PassOK'
BY DEF TypeOK, TablesOK, CountersOK, PassOK, IsDatabase, Snapshot

\* Sets of stored assignments are finite, so they can be counted.
LEMMA CountIsNat ==
    ASSUME TypeOK, NEW S, S \subseteq DOMAIN assignments
    PROVE  Cardinality(S) \in Nat
<1>1. S \subseteq 1 .. drawn /\ drawn \in Int
  BY DEF TypeOK, IsDatabase, Snapshot, IsTable, DrawnID
<1>2. IsFiniteSet(1 .. drawn)
  BY <1>1, FS_Interval
<1>3. QED
  BY <1>1, <1>2, FS_Subset, FS_CardinalityType

\* The names of the steps of a pass are all different.
LEMMA StepNames ==
    /\ "down" \notin PassSteps /\ "idle" \notin PassSteps
    /\ ServiceSteps \cap JobSteps = {}
    /\ "listLost" \notin ServiceSteps \cup JobSteps
    /\ "markLost" \notin ServiceSteps \cup JobSteps
BY DEF PassSteps, ServiceSteps, JobSteps

\* The tables and local variables are of their types when main starts the loop.
THEOREM InitTypeOK == Init => TypeOK
BY EmptyIsTable, PostsAssumption, NodeTimeoutAssumption
   DEF Init, TypeOK, IsDatabase, Snapshot, EmptyDatabase, ServiceSteps, JobSteps, PassSteps, Unset, DrawnID

\* A step that leaves the tables, the backup and the drawn IDs alone.
LEMMA QuietTables ==
    ASSUME TypeOK, UNCHANGED <<tables, drawn>>
    PROVE  TablesOK'
BY DEF TypeOK, TablesOK, IsDatabase, Snapshot, tables, DrawnID

\* A step that leaves the backup and the drawn IDs alone.
LEMMA QuietBackup ==
    ASSUME TypeOK, UNCHANGED <<backup, drawn>>
    PROVE  IsDatabase(backup)'
BY DEF TypeOK, IsDatabase, DrawnID

\* A step that leaves the clock values and the drawn IDs alone.
LEMMA QuietCounters ==
    ASSUME TypeOK, UNCHANGED <<startedAge, now, drawn>>
    PROVE  CountersOK'
BY DEF TypeOK, CountersOK

\* Reconcile begins and ends, and lists what a part of the pass works on.
LEMMA ReconcileListsTypeOK ==
    ASSUME TypeOK,
           ReconcileBegin \/ ListLost \/ ListServices \/ ListJobs \/ ReconcileEnd
    PROVE  TypeOK'
<1>. USE TypeParts, StepNames
<1>1. CASE ReconcileBegin
  <2>1. TablesOK' /\ IsDatabase(backup)'
    BY <1>1, QuietTables, QuietBackup DEF ReconcileBegin
  <2>2. CountersOK'
    BY <1>1, NodeTimeoutAssumption DEF ReconcileBegin, CountersOK, Unset, Stale
  <2>3. PassOK'
    BY <1>1 DEF ReconcileBegin, PassOK, liveNodeSet, tables, PassSteps, DrawnID
  <2>. QED BY <2>1, <2>2, <2>3, TypePartsNext
<1>2. CASE ListLost
  <2>1. TablesOK' /\ IsDatabase(backup)' /\ CountersOK'
    BY <1>2, QuietTables, QuietBackup, QuietCounters DEF ListLost
  <2>2. PassOK'
    BY <1>2 DEF ListLost, PassOK, TablesOK, IsTable, tables, PassSteps, DrawnID
  <2>. QED BY <2>1, <2>2, TypePartsNext
<1>3. CASE ListServices
  <2>1. TablesOK' /\ IsDatabase(backup)' /\ CountersOK'
    BY <1>3, QuietTables, QuietBackup, QuietCounters DEF ListServices
  <2>2. IsTable(Specs(services), ServiceName, StoredServiceSpec)
    BY DEF TablesOK, IsTable, Specs, ServiceRow
  <2>3. PassOK'
    BY <1>3, <2>2 DEF ListServices, PassOK, tables, PassSteps, ServiceSteps, JobSteps, DrawnID
  <2>. QED BY <2>1, <2>3, TypePartsNext
<1>4. CASE ListJobs
  <2>1. TablesOK' /\ IsDatabase(backup)' /\ CountersOK'
    BY <1>4, QuietTables, QuietBackup, QuietCounters DEF ListJobs
  <2>2. IsTable(Specs(jobs), JobName, JobSpecs)
    BY DEF TablesOK, IsTable, Specs, JobRow
  <2>3. PassOK'
    BY <1>4, <2>2 DEF ListJobs, PassOK, tables, PassSteps, ServiceSteps, JobSteps, DrawnID
  <2>. QED BY <2>1, <2>3, TypePartsNext
<1>5. CASE ReconcileEnd
  <2>1. TablesOK' /\ IsDatabase(backup)'
    BY <1>5, QuietTables, QuietBackup DEF ReconcileEnd
  <2>2. CountersOK'
    BY <1>5 DEF ReconcileEnd, CountersOK
  <2>3. PassOK'
    BY <1>5 DEF ReconcileEnd, PassOK, tables, PassSteps, DrawnID
  <2>. QED BY <2>1, <2>2, <2>3, TypePartsNext
<1>. QED BY <1>1, <1>2, <1>3, <1>4, <1>5

\* Changing one assignment's phase keeps the table typed.
LEMMA UpdateAssignmentTypeOK ==
    ASSUME TablesOK, NEW id, NEW phase \in AssignmentPhase,
           UpdateAssignmentStatus(id, phase), UNCHANGED drawn
    PROVE  TablesOK' /\ UNCHANGED <<nodes, services, jobs>>
<1>1. ASSUME NEW a \in Assignment PROVE applyStatus(a, phase) \in Assignment
  BY DEF applyStatus, Assignment
<1>2. IsTable(assignments', DrawnID, Assignment)
  BY <1>1 DEF UpdateAssignmentStatus, TablesOK, IsTable
<1>. QED BY <1>2 DEF UpdateAssignmentStatus, TablesOK, DrawnID

\* One assignment of a batch is marked Lost or deleted.
LEMMA BatchTypeOK ==
    ASSUME TypeOK, NEW i \in batch, MarkLost(i) \/ DeleteExcess(i)
    PROVE  TypeOK'
<1>. USE TypeParts
<1>1. CASE MarkLost(i)
  <2>1. IsDatabase(backup)' /\ CountersOK'
    BY <1>1, QuietBackup, QuietCounters DEF MarkLost
  <2>2. TablesOK' /\ UNCHANGED <<nodes, services, jobs>>
    BY <1>1, UpdateAssignmentTypeOK DEF MarkLost, AssignmentPhase
  <2>3. PassOK'
    BY <1>1, <2>2 DEF MarkLost, PassOK, DrawnID
  <2>. QED BY <2>1, <2>2, <2>3, TypePartsNext
<1>2. CASE DeleteExcess(i)
  <2>1. IsDatabase(backup)' /\ CountersOK'
    BY <1>2, QuietBackup, QuietCounters DEF DeleteExcess
  <2>2. TablesOK'
    BY <1>2, WithoutIsTable DEF DeleteExcess, DeleteAssignment, TablesOK, DrawnID
  <2>3. PassOK'
    BY <1>2 DEF DeleteExcess, DeleteAssignment, PassOK, DrawnID
  <2>. QED BY <2>1, <2>2, <2>3, TypePartsNext
<1>. QED BY <1>1, <1>2

\* Saving a new assignment under a fresh ID.
LEMMA SaveTypeOK ==
    ASSUME TypeOK, NEW a \in Assignment, SaveAssignment(drawn + 1, a),
           drawn' = drawn + 1, UNCHANGED <<startedAge, now, backup>>, drawn < MaxAssignments
    PROVE  /\ TablesOK' /\ IsDatabase(backup)' /\ CountersOK'
           /\ DrawnID \subseteq DrawnID'
           /\ UNCHANGED <<nodes, services, jobs>>
<1>. USE TypeParts
<1>1. /\ drawn + 1 \in DrawnID'
      /\ DrawnID \subseteq DrawnID'
  BY DEF CountersOK, DrawnID
<1>2. IsTable(assignments, DrawnID', Assignment)
  BY <1>1, WiderTable DEF TablesOK
<1>3. TablesOK'
  BY <1>1, <1>2, PutIsTable DEF SaveAssignment, TablesOK
<1>4. IsDatabase(backup)'
  <2>1. IsTable(backup.assignments, DrawnID, Assignment)
    BY DEF IsDatabase
  <2>2. IsTable(backup.assignments, DrawnID', Assignment)
    BY <1>1, <2>1, WiderTable
  <2>. QED BY <2>2 DEF IsDatabase
<1>5. CountersOK'
  BY PostsAssumption DEF CountersOK
<1>. QED BY <1>1, <1>3, <1>4, <1>5 DEF SaveAssignment

\* The steps of reconcileService.
LEMMA ServiceStepsTypeOK ==
    ASSUME TypeOK, NEW s \in ServiceName,
           \/ ReconcileService(s) \/ Relist(s) \/ ScaleUp(s) \/ SaveReplica(s)
           \/ ScaledUp(s) \/ ListFinal(s) \/ WriteServiceStatus(s)
    PROVE  TypeOK'
<1>. USE TypeParts, StepNames
<1>1. CASE ReconcileService(s)
  <2>1. TablesOK' /\ IsDatabase(backup)' /\ CountersOK'
    BY <1>1, QuietTables, QuietBackup, QuietCounters DEF ReconcileService
  <2>2. ActiveOn(Service, s, live) \subseteq DOMAIN assignments
    BY DEF ActiveOn, ActiveOf, OwnedBy
  <2>3. Cardinality(ActiveOn(Service, s, live)) \in Nat
    BY <2>2, CountIsNat
  <2>4. batch' \subseteq DrawnID /\ have' \in Nat /\ pc' \in {"deleteExcess", "scaleUp"}
    BY <1>1, <2>2, <2>3 DEF ReconcileService, pickAssignmentsToRemove, PassOK, TablesOK, IsTable
  <2>5. PassOK'
    BY <1>1, <2>4 DEF ReconcileService, PassOK, TablesOK, IsTable, tables, ServiceSteps, JobSteps, PassSteps, DrawnID
  <2>. QED BY <2>1, <2>5, TypePartsNext
<1>2. CASE Relist(s)
  <2>1. TablesOK' /\ IsDatabase(backup)' /\ CountersOK'
    BY <1>2, QuietTables, QuietBackup, QuietCounters DEF Relist
  <2>2. Cardinality(ActiveOn(Service, s, liveNodes)) \in Nat
    BY CountIsNat DEF ActiveOn, ActiveOf, OwnedBy
  <2>3. PassOK'
    BY <1>2, <2>2 DEF Relist, PassOK, tables, ServiceSteps, JobSteps, PassSteps, DrawnID
  <2>. QED BY <2>1, <2>3, TypePartsNext
<1>3. CASE ScaleUp(s)
  <2>1. TablesOK' /\ IsDatabase(backup)' /\ CountersOK'
    BY <1>3, QuietTables, QuietBackup, QuietCounters DEF ScaleUp
  <2>2. /\ ChooseFor(todo[s], todo[s].ports) \subseteq live
        /\ ChooseFor(todo[s], todo[s].ports) # {} => drawn < MaxAssignments
    BY DEF ChooseFor, ChooseNode, Eligible
  <2>3. PassOK'
    BY <1>3, <2>2 DEF ScaleUp, PassOK, tables, ServiceSteps, JobSteps, PassSteps, DrawnID
  <2>. QED BY <2>1, <2>3, TypePartsNext
<1>4. CASE SaveReplica(s)
  <2>1. PICK n \in target : SaveAssignment(drawn + 1,
           [kind |-> Service, owner |-> s, node |-> n,
            resources |-> todo[s].resources, ports |-> todo[s].ports,
            attempt |-> 1, phase |-> Pending, createdAt |-> now])
    BY <1>4 DEF SaveReplica
  <2>2. n \in Node /\ now \in Nat
    BY <1>4 DEF PassOK, TablesOK, IsTable, SaveReplica, CountersOK
  <2>3. todo[s].resources \in ResourceRequirements /\ todo[s].ports \in SUBSET Port
    BY <1>4 DEF SaveReplica, PassOK, IsTable, First, ServiceSteps, StoredServiceSpec, ServiceSpecs
  <2>4. [kind |-> Service, owner |-> s, node |-> n,
            resources |-> todo[s].resources, ports |-> todo[s].ports,
            attempt |-> 1, phase |-> Pending, createdAt |-> now] \in Assignment
    BY <2>2, <2>3, NamesAssumption DEF Assignment, WorkloadKind, AssignmentPhase
  <2>5. drawn < MaxAssignments
    BY <2>1 DEF PassOK
  <2>6. /\ TablesOK' /\ IsDatabase(backup)' /\ CountersOK' /\ DrawnID \subseteq DrawnID'
        /\ UNCHANGED <<nodes, services, jobs>>
    BY <1>4, <2>1, <2>4, <2>5, SaveTypeOK DEF SaveReplica
  <2>7. PassOK'
    BY <1>4, <2>6 DEF SaveReplica, PassOK, ServiceSteps, JobSteps, PassSteps
  <2>. QED BY <2>6, <2>7, TypePartsNext
<1>5. CASE ScaledUp(s)
  <2>1. TablesOK' /\ IsDatabase(backup)' /\ CountersOK'
    BY <1>5, QuietTables, QuietBackup, QuietCounters DEF ScaledUp
  <2>2. PassOK'
    BY <1>5 DEF ScaledUp, PassOK, tables, ServiceSteps, JobSteps, PassSteps, DrawnID
  <2>. QED BY <2>1, <2>2, TypePartsNext
<1>6. CASE ListFinal(s)
  <2>1. TablesOK' /\ IsDatabase(backup)' /\ CountersOK'
    BY <1>6, QuietTables, QuietBackup, QuietCounters DEF ListFinal
  <2>2. ActiveOn(Service, s, liveNodes) \subseteq AssignmentID
    BY DEF ActiveOn, ActiveOf, OwnedBy, TablesOK, IsTable, DrawnID, AssignmentID, CountersOK
  <2>3. todo[s].replicas \in Int
    BY <1>6 DEF ListFinal, PassOK, IsTable, First, ServiceSteps, StoredServiceSpec, ServiceSpecs
  <2>4. status' \in ServiceStatus
    BY <1>6, <2>2, <2>3 DEF ListFinal, serviceStatus, WithPhase, ServiceStatus
  <2>5. PassOK'
    BY <1>6, <2>4 DEF ListFinal, PassOK, tables, ServiceSteps, JobSteps, PassSteps, DrawnID
  <2>. QED BY <2>1, <2>5, TypePartsNext
<1>7. CASE WriteServiceStatus(s)
  <2>1. IsDatabase(backup)' /\ CountersOK'
    BY <1>7, QuietBackup, QuietCounters DEF WriteServiceStatus
  <2>2. TablesOK'
    BY <1>7 DEF WriteServiceStatus, UpdateServiceStatus, TablesOK, IsTable, PassOK, ServiceRow, DrawnID
  <2>3. IsTable(todo', ServiceName, StoredServiceSpec)
    BY <1>7, WithoutIsTable DEF WriteServiceStatus, PassOK, ServiceSteps
  <2>4. PassOK'
    BY <1>7, <2>3 DEF WriteServiceStatus, UpdateServiceStatus, PassOK, ServiceSteps, JobSteps, PassSteps, DrawnID
  <2>. QED BY <2>1, <2>2, <2>4, TypePartsNext
<1>. QED BY <1>1, <1>2, <1>3, <1>4, <1>5, <1>6, <1>7

\* The steps of reconcileJob.
LEMMA JobStepsTypeOK ==
    ASSUME TypeOK, NEW j \in JobName,
           ReconcileJob(j) \/ ChooseJobNode(j) \/ SaveAttempt(j) \/ WriteJobStatus(j)
    PROVE  TypeOK'
<1>. USE TypeParts, StepNames
<1>1. CASE ReconcileJob(j)
  <2>. DEFINE owned == OwnedBy(Job, j)
  <2>1. TablesOK' /\ IsDatabase(backup)' /\ CountersOK'
    BY <1>1, QuietTables, QuietBackup, QuietCounters DEF ReconcileJob
  <2>2. owned \subseteq DOMAIN assignments /\ DOMAIN assignments \subseteq AssignmentID
    BY DEF OwnedBy, TablesOK, IsTable, DrawnID, AssignmentID, CountersOK
  <2>3. ASSUME NEW first \in owned PROVE succeededStatus(owned, first) \in JobStatus
    <3>1. {i \in WithPhase(owned, Failed) :
              assignments[i].createdAt < assignments[first].createdAt} \subseteq DOMAIN assignments
      BY <2>2 DEF WithPhase
    <3>2. Cardinality({i \in WithPhase(owned, Failed) :
              assignments[i].createdAt < assignments[first].createdAt}) \in Nat
      BY <3>1, CountIsNat
    <3>. QED BY <2>2, <2>3, <3>2 DEF succeededStatus, JobStatus
  <2>4. Cardinality(WithPhase(owned, Failed)) \in Nat
    BY <2>2, CountIsNat DEF WithPhase
  <2>5. ASSUME NEW current \in owned PROVE activeStatus(owned, current) \in JobStatus
    <3>1. assignments[current].attempt \in Nat
      BY <2>2, <2>5 DEF TablesOK, IsTable, Assignment
    <3>2. larger(Cardinality(WithPhase(owned, Failed)), assignments[current].attempt - 1) \in Nat
      BY <2>4, <3>1 DEF larger
    <3>. QED BY <2>2, <2>5, <3>2 DEF activeStatus, JobStatus
  <2>6. idleStatus(owned) \in JobStatus
    BY <2>2, <2>4 DEF idleStatus, JobStatus, Latest
  <2>7. ActiveOn(Job, j, live) \subseteq owned
    BY DEF ActiveOn, ActiveOf
  <2>8. status' \in JobStatus /\ pc' \in {"jobStatus", "chooseJobNode"}
    BY <1>1, <2>3, <2>5, <2>6, <2>7 DEF ReconcileJob, Earliest, Latest, WithPhase
  <2>9. PassOK'
    BY <1>1, <2>8 DEF ReconcileJob, PassOK, tables, ServiceSteps, JobSteps, PassSteps, DrawnID
  <2>. QED BY <2>1, <2>9, TypePartsNext
<1>2. CASE ChooseJobNode(j)
  <2>1. TablesOK' /\ IsDatabase(backup)' /\ CountersOK'
    BY <1>2, QuietTables, QuietBackup, QuietCounters DEF ChooseJobNode
  <2>2. /\ ChooseFor(todo[j], {}) \subseteq live
        /\ ChooseFor(todo[j], {}) # {} => drawn < MaxAssignments
    BY DEF ChooseFor, ChooseNode, Eligible
  <2>3. PassOK'
    BY <1>2, <2>2 DEF ChooseJobNode, PassOK, tables, ServiceSteps, JobSteps, PassSteps, DrawnID
  <2>. QED BY <2>1, <2>3, TypePartsNext
<1>3. CASE SaveAttempt(j)
  <2>1. PICK n \in target : SaveAssignment(drawn + 1,
           [kind |-> Job, owner |-> j, node |-> n,
            resources |-> todo[j].resources, ports |-> {},
            attempt |-> status.failedAttempts + 1, phase |-> Pending, createdAt |-> now])
    BY <1>3 DEF SaveAttempt
  <2>2. n \in Node /\ now \in Nat
    BY <1>3 DEF PassOK, TablesOK, IsTable, SaveAttempt, CountersOK
  <2>3. todo[j].resources \in ResourceRequirements /\ status \in JobStatus
    BY <1>3 DEF SaveAttempt, PassOK, IsTable, First, JobSteps, JobSpecs
  <2>4. [kind |-> Job, owner |-> j, node |-> n,
            resources |-> todo[j].resources, ports |-> {},
            attempt |-> status.failedAttempts + 1, phase |-> Pending, createdAt |-> now] \in Assignment
    BY <2>2, <2>3, NamesAssumption DEF Assignment, WorkloadKind, AssignmentPhase, JobStatus
  <2>5. drawn < MaxAssignments
    BY <2>1 DEF PassOK
  <2>6. /\ TablesOK' /\ IsDatabase(backup)' /\ CountersOK' /\ DrawnID \subseteq DrawnID'
        /\ UNCHANGED <<nodes, services, jobs>>
    BY <1>3, <2>1, <2>4, <2>5, SaveTypeOK DEF SaveAttempt
  <2>7. status' \in JobStatus
    <3>1. {drawn + 1} \in SUBSET AssignmentID
      BY DEF AssignmentID, CountersOK
    <3>2. ASSUME NEW ids \in SUBSET AssignmentID, NEW st \in JobStatus
          PROVE  [st EXCEPT !.active = ids, !.last = ids] \in JobStatus
      BY DEF JobStatus
    <3>. QED BY <1>3, <2>3, <3>1, <3>2 DEF SaveAttempt
  <2>8. PassOK'
    BY <1>3, <2>6, <2>7 DEF SaveAttempt, PassOK, ServiceSteps, JobSteps, PassSteps
  <2>. QED BY <2>6, <2>8, TypePartsNext
<1>4. CASE WriteJobStatus(j)
  <2>1. IsDatabase(backup)' /\ CountersOK'
    BY <1>4, QuietBackup, QuietCounters DEF WriteJobStatus
  <2>2. TablesOK'
    BY <1>4 DEF WriteJobStatus, UpdateJobStatus, TablesOK, IsTable, PassOK, JobRow, DrawnID, JobSteps
  <2>3. IsTable(todo', JobName, JobSpecs)
    BY <1>4, WithoutIsTable DEF WriteJobStatus, PassOK, JobSteps
  <2>4. PassOK'
    BY <1>4, <2>3 DEF WriteJobStatus, UpdateJobStatus, PassOK, ServiceSteps, JobSteps, PassSteps, DrawnID
  <2>. QED BY <2>1, <2>2, <2>4, TypePartsNext
<1>. QED BY <1>1, <1>2, <1>3, <1>4

\* A handler that leaves the pass and the node table alone keeps the pass typed.
LEMMA QuietPass ==
    ASSUME PassOK, UNCHANGED <<pass, drawn, nodes>>
    PROVE  PassOK'
BY DEF PassOK, pass, DrawnID

\* The handlers clients call.
LEMMA ClientTypeOK ==
    ASSUME TypeOK,
           \/ \E s \in ServiceName : PostService(s) \/ RemoveService(s)
           \/ \E j \in JobName : PostJob(j) \/ RemoveJob(j)
    PROVE  TypeOK'
<1>. USE TypeParts
<1>1. ASSUME NEW s \in ServiceName, PostService(s) PROVE TypeOK'
  <2>1. IsDatabase(backup)' /\ CountersOK'
    BY <1>1, QuietBackup, QuietCounters DEF PostService
  <2>2. PICK spec \in ServicePosts[s] :
           UpsertService(s, [spec EXCEPT !.replicas = defaultReplicas(@)])
    BY <1>1 DEF PostService
  <2>3. [spec EXCEPT !.replicas = defaultReplicas(@)] \in StoredServiceSpec
    BY PostsAssumption DEF StoredServiceSpec, ServiceSpecs, defaultReplicas
  <2>4. TablesOK'
    <3>. DEFINE stored == [spec EXCEPT !.replicas = defaultReplicas(@)]
                row == [spec |-> stored,
                        status |-> [desired |-> stored.replicas, pending |-> {}, running |-> {}]]
    <3>1. row \in ServiceRow
      BY <2>3 DEF ServiceRow, ServiceStatus, StoredServiceSpec, ServiceSpecs
    <3>2. IsTable(services', ServiceName, ServiceRow)
      BY <2>2, <3>1, PutIsTable DEF UpsertService, TablesOK
    <3>. QED BY <1>1, <2>2, <3>2 DEF UpsertService, TablesOK, DrawnID, PostService
  <2>5. PassOK'
    BY <1>1, <2>2, QuietPass DEF PostService, UpsertService
  <2>. QED BY <2>1, <2>4, <2>5, TypePartsNext
<1>2. ASSUME NEW s \in ServiceName, RemoveService(s) PROVE TypeOK'
  <2>1. IsDatabase(backup)' /\ CountersOK'
    BY <1>2, QuietBackup, QuietCounters DEF RemoveService
  <2>2. TablesOK'
    BY <1>2, WithoutIsTable DEF RemoveService, DeleteService, TablesOK, DrawnID
  <2>3. PassOK'
    BY <1>2, QuietPass DEF RemoveService, DeleteService
  <2>. QED BY <2>1, <2>2, <2>3, TypePartsNext
<1>3. ASSUME NEW j \in JobName, PostJob(j) PROVE TypeOK'
  <2>1. IsDatabase(backup)' /\ CountersOK'
    BY <1>3, QuietBackup, QuietCounters DEF PostJob
  <2>2. PICK spec \in JobPosts[j] : UpsertJob(j, spec)
    BY <1>3 DEF PostJob
  <2>3. [spec |-> spec, status |-> NoJobStatus] \in JobRow
    BY PostsAssumption DEF JobRow, JobStatus, NoJobStatus
  <2>4. IsTable(jobs', JobName, JobRow)
    BY <2>2, <2>3, PutIsTable DEF UpsertJob, TablesOK
  <2>5. TablesOK'
    BY <1>3, <2>2, <2>4 DEF UpsertJob, TablesOK, DrawnID, PostJob
  <2>6. PassOK'
    BY <1>3, <2>2, QuietPass DEF PostJob, UpsertJob
  <2>. QED BY <2>1, <2>5, <2>6, TypePartsNext
<1>4. ASSUME NEW j \in JobName, RemoveJob(j) PROVE TypeOK'
  <2>1. IsDatabase(backup)' /\ CountersOK'
    BY <1>4, QuietBackup, QuietCounters DEF RemoveJob
  <2>2. TablesOK'
    BY <1>4, WithoutIsTable DEF RemoveJob, DeleteJob, TablesOK, DrawnID
  <2>3. PassOK'
    BY <1>4, QuietPass DEF RemoveJob, DeleteJob
  <2>. QED BY <2>1, <2>2, <2>3, TypePartsNext
<1>. QED BY <1>1, <1>2, <1>3, <1>4

\* A node that checks in during a pass is a known node.
LEMMA CheckInTypeOK ==
    ASSUME TypeOK, NEW n \in Node, CheckedIn(n),
           DOMAIN nodes \subseteq DOMAIN nodes', n \in DOMAIN nodes',
           UNCHANGED <<pc, batch, todo, liveNodes, have, target, status, drawn>>
    PROVE  PassOK'
BY TypeParts DEF PassOK, CheckedIn, DrawnID, InPass

\* A node registers or sends a heartbeat.
LEMMA NodeTypeOK ==
    ASSUME TypeOK, NEW n \in Node, RegisterNode(n) \/ Heartbeat(n)
    PROVE  TypeOK'
<1>. USE TypeParts
<1>1. CASE RegisterNode(n)
  <2>1. IsDatabase(backup)' /\ CountersOK'
    BY <1>1, QuietBackup, QuietCounters DEF RegisterNode
  <2>2. PICK spec \in Registrations[n] : UpsertNode(n, spec)
    BY <1>1 DEF RegisterNode
  <2>3. [labels |-> spec.labels, capacity |-> spec.capacity, age |-> 0] \in NodeRow
    BY PostsAssumption, NodeTimeoutAssumption DEF NodeRow, NodeSpecs, Stale
  <2>4. IsTable(nodes', Node, NodeRow)
    BY <2>2, <2>3, PutIsTable DEF UpsertNode, TablesOK
  <2>5. TablesOK'
    BY <1>1, <2>2, <2>4 DEF UpsertNode, TablesOK, DrawnID, RegisterNode
  <2>6. DOMAIN nodes \subseteq DOMAIN nodes' /\ n \in DOMAIN nodes'
    BY <2>2 DEF UpsertNode, Put
  <2>7. PassOK'
    BY <1>1, <2>6, CheckInTypeOK DEF RegisterNode
  <2>. QED BY <2>1, <2>5, <2>7, TypePartsNext
<1>2. CASE Heartbeat(n)
  <2>1. IsDatabase(backup)' /\ CountersOK'
    BY <1>2, QuietBackup, QuietCounters DEF Heartbeat
  <2>2. IsTable(nodes', Node, NodeRow)
    BY <1>2, NodeTimeoutAssumption DEF Heartbeat, TouchNode, TablesOK, IsTable, NodeRow, Stale
  <2>3. TablesOK'
    BY <1>2, <2>2 DEF Heartbeat, TouchNode, TablesOK, DrawnID
  <2>4. DOMAIN nodes \subseteq DOMAIN nodes' /\ n \in DOMAIN nodes'
    BY <1>2 DEF Heartbeat, TouchNode
  <2>5. PassOK'
    BY <1>2, <2>4, CheckInTypeOK DEF Heartbeat
  <2>. QED BY <2>1, <2>3, <2>5, TypePartsNext
<1>. QED BY <1>1, <1>2

\* An agent reports a phase.
LEMMA ReportTypeOK ==
    ASSUME TypeOK, NEW n \in Node, NEW id, NEW phase \in AssignmentPhase,
           ReportStatus(n, id, phase)
    PROVE  TypeOK'
<1>1. IsDatabase(backup)' /\ CountersOK'
  BY QuietBackup, QuietCounters DEF ReportStatus
<1>2. TablesOK' /\ UNCHANGED <<nodes, services, jobs>>
  BY TypeParts, UpdateAssignmentTypeOK DEF ReportStatus
<1>3. PassOK'
  BY <1>2, TypeParts, QuietPass DEF ReportStatus
<1>. QED BY <1>1, <1>2, <1>3, TypePartsNext

\* Ageing keeps a node table typed.
LEMMA AgedIsTable ==
    ASSUME NEW T, IsTable(T, Node, NodeRow)
    PROVE  IsTable(AgedNodes(T), Node, NodeRow)
<1>1. ASSUME NEW r \in NodeRow PROVE [r EXCEPT !.age = Older(@)] \in NodeRow
  BY NodeTimeoutAssumption DEF NodeRow, Older, Stale
<1>. QED BY <1>1 DEF IsTable, AgedNodes

\* The clock, backups, crashes and restarts.
LEMMA SystemTypeOK ==
    ASSUME TypeOK, Tick \/ Backup \/ Crash \/ Restart
    PROVE  TypeOK'
<1>. USE TypeParts, StepNames
<1>1. CASE Tick
  <2>1. TablesOK'
    BY <1>1, AgedIsTable DEF Tick, TablesOK, DrawnID
  <2>2. IsDatabase(backup)'
    <3>1. IsTable(AgedNodes(backup.nodes), Node, NodeRow)
      BY AgedIsTable DEF IsDatabase
    <3>2. backup' = [nodes |-> AgedNodes(backup.nodes), services |-> backup.services,
                     jobs |-> backup.jobs, assignments |-> backup.assignments]
      BY <1>1 DEF Tick, IsDatabase
    <3>. QED BY <1>1, <3>1, <3>2 DEF IsDatabase, Tick, DrawnID
  <2>3. CountersOK'
    BY <1>1, NodeTimeoutAssumption DEF Tick, CountersOK, Older, Stale, Unset
  <2>4. PassOK'
    BY <1>1 DEF Tick, PassOK, pass, AgedNodes, DrawnID
  <2>. QED BY <2>1, <2>2, <2>3, <2>4, TypePartsNext
<1>2. CASE Backup
  <2>1. TablesOK' /\ CountersOK'
    BY <1>2, QuietTables, QuietCounters DEF Backup
  <2>2. IsDatabase(backup)'
    BY <1>2 DEF Backup, IsDatabase, TypeOK, Snapshot, DrawnID
  <2>3. PassOK'
    BY <1>2, QuietPass DEF Backup, tables
  <2>. QED BY <2>1, <2>2, <2>3, TypePartsNext
<1>3. CASE Crash
  <2>1. TablesOK' /\ IsDatabase(backup)'
    BY <1>3, QuietTables, QuietBackup DEF Crash
  <2>2. CountersOK'
    BY <1>3 DEF Crash, CountersOK
  <2>3. PassOK'
    BY <1>3 DEF Crash, PassOK, PassSteps, ServiceSteps, JobSteps
  <2>. QED BY <2>1, <2>2, <2>3, TypePartsNext
<1>4. CASE Boot
  <2>1. TablesOK' /\ IsDatabase(backup)' /\ CountersOK'
    BY <1>4, QuietTables, QuietBackup, QuietCounters DEF Boot
  <2>2. PassOK'
    BY <1>4 DEF Boot, PassOK, PassSteps, ServiceSteps, JobSteps, tables, DrawnID
  <2>. QED BY <2>1, <2>2, TypePartsNext
<1>5. CASE RestoreIfMissing
  <2>1. IsDatabase(backup)' /\ CountersOK'
    BY <1>5, QuietBackup, QuietCounters DEF RestoreIfMissing
  <2>2. TablesOK'
    BY <1>5 DEF RestoreIfMissing, Load, TablesOK, IsDatabase, DrawnID
  <2>3. PassOK'
    BY <1>5 DEF RestoreIfMissing, PassOK, PassSteps, ServiceSteps, JobSteps, DrawnID
  <2>. QED BY <2>1, <2>2, <2>3, TypePartsNext
<1>. QED BY <1>1, <1>2, <1>3, <1>4, <1>5 DEF Restart

\* Every step of the control plane keeps the state typed.
LEMMA NextTypeOK == TypeOK /\ [Next]_vars => TypeOK'
<1>. SUFFICES ASSUME TypeOK, [Next]_vars PROVE TypeOK'
  OBVIOUS
<1>1. CASE ReconcileStep
  BY <1>1, ReconcileListsTypeOK, BatchTypeOK, ServiceStepsTypeOK, JobStepsTypeOK DEF ReconcileStep
<1>2. CASE HandlerStep
  BY <1>2, ClientTypeOK, NodeTypeOK, ReportTypeOK, PostsAssumption DEF HandlerStep
<1>3. CASE Tick \/ Backup \/ Crash \/ Restart
  BY <1>3, SystemTypeOK
<1>4. CASE UNCHANGED vars
  BY <1>4 DEF vars, tables, pass, TypeOK, IsDatabase, Snapshot, DrawnID
<1>. QED BY <1>1, <1>2, <1>3, <1>4 DEF Next

\* Type correctness: under every interleaving of the reconcile loop, the handlers,
\* crashes and restores, the tables and the loop's locals hold what their types say.
THEOREM TypeCorrect == Spec => []TypeOK
<1>1. Init => TypeOK
  BY InitTypeOK
<1>2. TypeOK /\ [Next]_vars => TypeOK'
  BY NextTypeOK
<1>. QED BY <1>1, <1>2, PTL DEF Spec
================================================================================
