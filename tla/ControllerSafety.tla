---------------------------- MODULE ControllerSafety ----------------------------
(***************************************************************************)
(* For every number of nodes, services, jobs and assignments: ports are    *)
(* exclusive, a job has one attempt at a time and none after a success,    *)
(* terminal phases are final, work is declared Lost only after its node    *)
(* has been silent, and an ID stands for the same work as long as it has a *)
(* row.                                                                    *)
(*                                                                         *)
(* Neither of the first two is inductive.  What the scheduler saw when it  *)
(* chose a node must still hold when the assignment is saved, and no       *)
(* active assignment may be hidden from reconcileJob by a node that is not *)
(* in its live set.  Inv says both; it also says that the newest backup is *)
(* as good as the database, since a restore replaces one by the other.     *)
(* Silence rests on GraceInv: while markLostAssignments works, the nodes   *)
(* outside its live set are silent, and the controller has been up, for    *)
(* more than a timeout.  The last rests on BackupAgrees.                   *)
(***************************************************************************)
EXTENDS ControllerProofs

ActivePhases == {Pending, Running}
AttemptPhases == {Pending, Running, Succeeded}

\* Once markLostAssignments is done, every active assignment of the rest of the
\* pass is on a node the pass holds live.
AllOnLiveNodes ==
    /\ pc = "markLost" =>
          \A i \in DOMAIN assignments :
              assignments[i].phase \in ActivePhases /\ assignments[i].node \notin live => i \in batch
    /\ pc \in ServiceSteps \cup JobSteps =>
          \A i \in DOMAIN assignments :
              assignments[i].phase \in ActivePhases => assignments[i].node \in live

\* While a replica is about to be saved its ports are still free on the target.
TargetPortsFree ==
    pc = "saveReplica" =>
        \A s \in DOMAIN todo : First(s) =>
            \A n \in target : \A i \in DOMAIN assignments :
                assignments[i].node = n /\ assignments[i].phase \in ActivePhases =>
                    assignments[i].ports \cap todo[s].ports = {}

\* While an attempt is about to be saved the job has none, and no success.
NoOtherAttempt ==
    pc \in {"chooseJobNode", "saveAttempt"} =>
        \A i \in DOMAIN assignments :
            assignments[i].kind = Job /\ First(assignments[i].owner) =>
                assignments[i].phase \notin AttemptPhases

SoundTable(table) == PortsExclusiveIn(table) /\ OneAttemptPerJobIn(table)

Inv ==
    /\ SoundTable(assignments)
    /\ SoundTable(backup.assignments)
    /\ AllOnLiveNodes
    /\ TargetPortsFree
    /\ NoOtherAttempt

--------------------------------------------------------------------------------
\* Reports, deletions and Lost marks only shrink a table: rows go or become
\* terminal, and what they say of owner, node and ports stays.
Shrunk(new, old) ==
    /\ DOMAIN new \subseteq DOMAIN old
    /\ \A i \in DOMAIN new :
          /\ new[i].kind = old[i].kind /\ new[i].owner = old[i].owner
          /\ new[i].node = old[i].node /\ new[i].ports = old[i].ports
          /\ new[i].phase \in ActivePhases => old[i].phase \in ActivePhases
          /\ new[i].phase \in AttemptPhases => old[i].phase \in AttemptPhases

\* A shrunk table is as sound as it was.
LEMMA ShrunkIsSound ==
    ASSUME NEW new, NEW old, Shrunk(new, old), SoundTable(old)
    PROVE  SoundTable(new)
<1>1. PortsExclusiveIn(new)
  BY DEF Shrunk, SoundTable, PortsExclusiveIn, ActivePhases
<1>2. OneAttemptPerJobIn(new)
  BY DEF Shrunk, SoundTable, OneAttemptPerJobIn, AttemptPhases
<1>. QED BY <1>1, <1>2 DEF SoundTable

\* Leaving a table alone shrinks it trivially.
LEMMA SameIsShrunk == ASSUME NEW table PROVE Shrunk(table, table)
BY DEF Shrunk

\* Deleting rows shrinks a table.
LEMMA WithoutIsShrunk ==
    ASSUME NEW table, NEW gone
    PROVE  Shrunk(Without(table, gone), table)
BY DEF Shrunk, Without, Restrict

\* UpdateAssignmentStatus with a phase agents or the loop set shrinks the table.
LEMMA UpdateIsShrunk ==
    ASSUME TypeOK, NEW id, NEW phase \in AssignmentPhase, phase # Pending,
           UpdateAssignmentStatus(id, phase)
    PROVE  Shrunk(assignments', assignments)
<1>1. ASSUME NEW a \in Assignment
      PROVE  LET b == applyStatus(a, phase)
             IN  /\ b.kind = a.kind /\ b.owner = a.owner /\ b.node = a.node /\ b.ports = a.ports
                 /\ b.phase \in ActivePhases => a.phase \in ActivePhases
                 /\ b.phase \in AttemptPhases => a.phase \in AttemptPhases
  BY DEF applyStatus, IsTerminalPhase, Assignment, AssignmentPhase, ActivePhases, AttemptPhases,
         Pending, Running, Succeeded, Failed, Stopped, Lost
<1>2. assignments \in [DOMAIN assignments -> Assignment]
  BY DEF TypeOK, IsDatabase, Snapshot, IsTable
<1>3. CASE id \in DOMAIN assignments
  BY <1>1, <1>2, <1>3 DEF UpdateAssignmentStatus, Shrunk
<1>4. CASE id \notin DOMAIN assignments
  BY <1>4, SameIsShrunk DEF UpdateAssignmentStatus
<1>. QED BY <1>3, <1>4

\* Shrinking the table, while the pass stays where it is and live nodes only
\* join, keeps every part of the invariant.
LEMMA ShrinkingKeepsInv ==
    ASSUME Inv, Shrunk(assignments', assignments), live \subseteq live',
           backup'.assignments = backup.assignments,
           UNCHANGED <<pc, batch, todo, target>>
    PROVE  Inv'
<1>1. SoundTable(assignments')
  BY ShrunkIsSound DEF Inv
<1>2. AllOnLiveNodes'
  BY DEF Inv, AllOnLiveNodes, Shrunk
<1>3. TargetPortsFree'
  BY DEF Inv, TargetPortsFree, Shrunk, First
<1>4. NoOtherAttempt'
  BY DEF Inv, NoOtherAttempt, Shrunk, First
<1>. QED BY <1>1, <1>2, <1>3, <1>4 DEF Inv

\* The invariant holds of an empty database.
LEMMA InitInv == Init => Inv
BY DEF Init, Inv, SoundTable, PortsExclusiveIn, OneAttemptPerJobIn, EmptyDatabase, EmptyTable,
       AllOnLiveNodes, TargetPortsFree, NoOtherAttempt, ServiceSteps, JobSteps

--------------------------------------------------------------------------------
\* Steps of the loop that only read the tables.
LEMMA ReadingInv ==
    ASSUME TypeOK, Inv,
           \/ ReconcileBegin \/ ListLost \/ ListServices \/ ListJobs \/ ReconcileEnd
           \/ \E s \in ServiceName :
                 ReconcileService(s) \/ Relist(s) \/ ScaledUp(s) \/ ListFinal(s)
    PROVE  Inv'
<1>. USE DEF ActivePhases
<1>1. assignments' = assignments /\ backup' = backup
  BY DEF ReconcileBegin, ListLost, ListServices, ListJobs, ReconcileEnd, ReconcileService,
         Relist, ScaledUp, ListFinal, tables
<1>2. SoundTable(assignments') /\ SoundTable(backup'.assignments)
  BY <1>1 DEF Inv
<1>3. pc' \notin {"saveReplica", "chooseJobNode", "saveAttempt"}
  BY DEF ReconcileBegin, ListLost, ListServices, ListJobs, ReconcileEnd, ReconcileService,
         Relist, ScaledUp, ListFinal
<1>4. TargetPortsFree' /\ NoOtherAttempt'
  BY <1>3 DEF TargetPortsFree, NoOtherAttempt
<1>5. AllOnLiveNodes'
  <2>1. CASE ReconcileBegin \/ ReconcileEnd
    BY <2>1 DEF ReconcileBegin, ReconcileEnd, AllOnLiveNodes, ServiceSteps, JobSteps
  <2>2. CASE ListLost
    BY <1>1, <2>2 DEF ListLost, AllOnLiveNodes, IsActivePhase, ServiceSteps, JobSteps
  <2>3. CASE ListServices
    BY <1>1, <2>3 DEF ListServices, Inv, AllOnLiveNodes
  <2>4. CASE ListJobs \/ \E s \in ServiceName :
                 ReconcileService(s) \/ Relist(s) \/ ScaledUp(s) \/ ListFinal(s)
    <3>1. pc \in ServiceSteps /\ pc' # "markLost" /\ live' = live
      BY <2>4 DEF ListJobs, ReconcileService, Relist, ScaledUp, ListFinal, ServiceSteps
    <3>. QED BY <1>1, <3>1 DEF Inv, AllOnLiveNodes
  <2>. QED BY <2>1, <2>2, <2>3, <2>4
<1>. QED BY <1>2, <1>4, <1>5 DEF Inv

\* Marking assignments Lost and deleting excess replicas.
LEMMA BatchInv ==
    ASSUME TypeOK, Inv, NEW i \in batch, MarkLost(i) \/ DeleteExcess(i)
    PROVE  Inv'
<1>1. CASE MarkLost(i)
  <2>1. Shrunk(assignments', assignments)
    BY <1>1, UpdateIsShrunk DEF MarkLost, AssignmentPhase, Pending, Lost
  <2>2. SoundTable(assignments')
    BY <2>1, ShrunkIsSound DEF Inv
  <2>3. i \in DOMAIN assignments' => assignments'[i].phase \notin ActivePhases
    <3>1. i \in DOMAIN assignments => applyStatus(assignments[i], Lost).phase \notin ActivePhases
      BY DEF applyStatus, IsTerminalPhase, ActivePhases, TypeOK, IsDatabase, Snapshot, IsTable,
             Assignment, AssignmentPhase, Pending, Running, Succeeded, Failed, Stopped, Lost
    <3>. QED BY <1>1, <3>1 DEF MarkLost, UpdateAssignmentStatus
  <2>4. AllOnLiveNodes'
    BY <1>1, <2>1, <2>3 DEF MarkLost, Inv, AllOnLiveNodes, Shrunk, ServiceSteps, JobSteps
  <2>5. TargetPortsFree' /\ NoOtherAttempt'
    BY <1>1 DEF MarkLost, TargetPortsFree, NoOtherAttempt
  <2>. QED BY <1>1, <2>2, <2>4, <2>5 DEF Inv, MarkLost
<1>2. CASE DeleteExcess(i)
  <2>1. Shrunk(assignments', assignments)
    BY <1>2, WithoutIsShrunk DEF DeleteExcess, DeleteAssignment
  <2>2. SoundTable(assignments')
    BY <2>1, ShrunkIsSound DEF Inv
  <2>3. AllOnLiveNodes'
    BY <1>2, <2>1 DEF DeleteExcess, Inv, AllOnLiveNodes, Shrunk
  <2>4. TargetPortsFree' /\ NoOtherAttempt'
    BY <1>2 DEF DeleteExcess, TargetPortsFree, NoOtherAttempt
  <2>. QED BY <1>2, <2>2, <2>3, <2>4 DEF Inv, DeleteExcess
<1>. QED BY <1>1, <1>2

\* There is one first name.
LEMMA FirstIsUnique ==
    ASSUME TypeOK, pc \in ServiceSteps \cup JobSteps, NEW a, NEW b, First(a), First(b)
    PROVE  a = b
<1>1. DOMAIN todo \subseteq Nat
  BY NamesAssumption DEF TypeOK, IsTable
<1>. QED BY <1>1 DEF First

\* The chosen nodes have none of the wanted ports in use.
LEMMA ChosenPortsFree ==
    ASSUME NEW spec, NEW ports, NEW n \in ChooseFor(spec, ports),
           NEW i \in DOMAIN assignments, assignments[i].node = n,
           assignments[i].phase \in ActivePhases
    PROVE  assignments[i].ports \cap ports = {}
<1>1. n \in Eligible(live, nodes, assignments, spec.resources, spec.placement, ports)
  BY DEF ChooseFor, ChooseNode
<1>2. UsedPorts(assignments, n) \cap ports = {}
  BY <1>1 DEF Eligible, PortsClash
<1>3. i \in Occupants(assignments, n)
  BY DEF Occupants, IsActivePhase, ActivePhases
<1>. QED BY <1>2, <1>3 DEF UsedPorts

\* The steps of reconcileService, saving a replica among them.
LEMMA ServiceStepsInv ==
    ASSUME TypeOK, Inv, NEW s \in ServiceName,
           ScaleUp(s) \/ SaveReplica(s) \/ WriteServiceStatus(s)
    PROVE  Inv'
<1>1. CASE ScaleUp(s)
  <2>1. UNCHANGED <<assignments, backup, live, todo>>
    BY <1>1 DEF ScaleUp, tables
  <2>2. AllOnLiveNodes'
    BY <1>1, <2>1 DEF Inv, AllOnLiveNodes, ScaleUp, ServiceSteps, JobSteps
  <2>3. TargetPortsFree'
    <3>1. SUFFICES ASSUME NEW r \in DOMAIN todo, First(r), NEW n \in target',
                          NEW i \in DOMAIN assignments, assignments[i].node = n,
                          assignments[i].phase \in ActivePhases
                   PROVE  assignments[i].ports \cap todo[r].ports = {}
      BY <2>1 DEF TargetPortsFree, First
    <3>2. r = s
      BY <1>1, <3>1, FirstIsUnique DEF ScaleUp, ServiceSteps
    <3>. QED BY <1>1, <3>1, <3>2, ChosenPortsFree DEF ScaleUp
  <2>4. NoOtherAttempt'
    BY <1>1 DEF ScaleUp, NoOtherAttempt
  <2>. QED BY <2>1, <2>2, <2>3, <2>4 DEF Inv
<1>2. CASE SaveReplica(s)
  <2>. DEFINE id == drawn + 1
  <2>1. PICK n \in target : SaveAssignment(id,
           [kind |-> Service, owner |-> s, node |-> n,
            resources |-> todo[s].resources, ports |-> todo[s].ports,
            attempt |-> 1, phase |-> Pending, createdAt |-> now])
    BY <1>2 DEF SaveReplica
  <2>2. /\ DOMAIN assignments' = DOMAIN assignments \cup {id}
        /\ id \notin DOMAIN assignments
        /\ \A i \in DOMAIN assignments : assignments'[i] = assignments[i]
        /\ assignments'[id].kind = Service
        /\ assignments'[id].node = n
        /\ assignments'[id].ports = todo[s].ports
    BY <2>1 DEF SaveAssignment, Put, TypeOK, IsDatabase, Snapshot, IsTable, DrawnID
  <2>3. \A i \in DOMAIN assignments :
            assignments[i].node = n /\ assignments[i].phase \in ActivePhases =>
                assignments[i].ports \cap todo[s].ports = {}
    BY <1>2 DEF SaveReplica, Inv, TargetPortsFree, First
  <2>4. PortsExclusiveIn(assignments')
    BY <2>2, <2>3 DEF Inv, SoundTable, PortsExclusiveIn, ActivePhases
  <2>5. OneAttemptPerJobIn(assignments')
    BY <2>2 DEF Inv, SoundTable, OneAttemptPerJobIn, Service, Job
  <2>6. AllOnLiveNodes'
    <3>1. n \in live
      BY <1>2 DEF TypeOK, SaveReplica
    <3>. QED BY <1>2, <2>2, <3>1 DEF SaveReplica, Inv, AllOnLiveNodes, ServiceSteps
  <2>7. TargetPortsFree' /\ NoOtherAttempt'
    BY <1>2 DEF SaveReplica, TargetPortsFree, NoOtherAttempt
  <2>. QED BY <1>2, <2>4, <2>5, <2>6, <2>7 DEF Inv, SoundTable, SaveReplica
<1>3. CASE WriteServiceStatus(s)
  <2>1. UNCHANGED <<assignments, backup, live>>
    BY <1>3 DEF WriteServiceStatus, UpdateServiceStatus
  <2>2. AllOnLiveNodes' /\ TargetPortsFree' /\ NoOtherAttempt'
    BY <1>3, <2>1 DEF WriteServiceStatus, Inv, AllOnLiveNodes, TargetPortsFree, NoOtherAttempt, ServiceSteps
  <2>. QED BY <2>1, <2>2 DEF Inv
<1>. QED BY <1>1, <1>2, <1>3

\* The steps of reconcileJob, saving an attempt among them.
LEMMA JobStepsInv ==
    ASSUME TypeOK, Inv, NEW j \in JobName,
           ReconcileJob(j) \/ ChooseJobNode(j) \/ SaveAttempt(j) \/ WriteJobStatus(j)
    PROVE  Inv'
<1>1. CASE ReconcileJob(j)
  <2>1. UNCHANGED <<assignments, backup, live, todo>>
    BY <1>1 DEF ReconcileJob, tables
  <2>2. pc = "reconcileJob" /\ pc' \in {"jobStatus", "chooseJobNode"}
    BY <1>1 DEF ReconcileJob
  <2>3. AllOnLiveNodes' /\ TargetPortsFree'
    BY <2>1, <2>2 DEF Inv, AllOnLiveNodes, TargetPortsFree, JobSteps
  <2>4. NoOtherAttempt'
    <3>1. SUFFICES ASSUME pc' = "chooseJobNode", NEW i \in DOMAIN assignments,
                          assignments[i].kind = Job, First(assignments[i].owner)
                   PROVE  assignments[i].phase \notin AttemptPhases
      BY <2>1, <2>2 DEF NoOtherAttempt, First
    <3>2. assignments[i].owner = j
      BY <1>1, <2>2, <3>1, FirstIsUnique DEF ReconcileJob, JobSteps
    <3>3. WithPhase(OwnedBy(Job, j), Succeeded) = {} /\ ActiveOn(Job, j, live) = {}
      BY <1>1, <3>1 DEF ReconcileJob
    <3>4. assignments[i].phase # Succeeded
      BY <3>1, <3>2, <3>3 DEF WithPhase, OwnedBy
    <3>5. assignments[i].phase \notin ActivePhases
      <4>1. assignments[i].phase \in ActivePhases => assignments[i].node \in live
        BY <2>2 DEF Inv, AllOnLiveNodes, JobSteps
      <4>. QED BY <3>1, <3>2, <3>3, <4>1 DEF ActiveOn, ActiveOf, OwnedBy, IsActivePhase, ActivePhases
    <3>. QED BY <3>4, <3>5 DEF ActivePhases, AttemptPhases
  <2>. QED BY <2>1, <2>3, <2>4 DEF Inv
<1>2. CASE ChooseJobNode(j)
  <2>1. UNCHANGED <<assignments, backup, live, todo>>
    BY <1>2 DEF ChooseJobNode, tables
  <2>2. AllOnLiveNodes' /\ TargetPortsFree' /\ NoOtherAttempt'
    BY <1>2, <2>1 DEF ChooseJobNode, Inv, AllOnLiveNodes, TargetPortsFree, NoOtherAttempt, First, JobSteps
  <2>. QED BY <2>1, <2>2 DEF Inv
<1>3. CASE SaveAttempt(j)
  <2>. DEFINE id == drawn + 1
  <2>1. PICK n \in target : SaveAssignment(id,
           [kind |-> Job, owner |-> j, node |-> n,
            resources |-> todo[j].resources, ports |-> {},
            attempt |-> status.failedAttempts + 1, phase |-> Pending, createdAt |-> now])
    BY <1>3 DEF SaveAttempt
  <2>2. /\ DOMAIN assignments' = DOMAIN assignments \cup {id}
        /\ id \notin DOMAIN assignments
        /\ \A i \in DOMAIN assignments : assignments'[i] = assignments[i]
        /\ assignments'[id].owner = j
        /\ assignments'[id].node = n
        /\ assignments'[id].ports = {}
    BY <2>1 DEF SaveAssignment, Put, TypeOK, IsDatabase, Snapshot, IsTable, DrawnID
  <2>3. \A i \in DOMAIN assignments :
            assignments[i].kind = Job /\ assignments[i].owner = j =>
                assignments[i].phase \notin AttemptPhases
    BY <1>3 DEF SaveAttempt, Inv, NoOtherAttempt
  <2>4. PortsExclusiveIn(assignments')
    BY <2>2 DEF Inv, SoundTable, PortsExclusiveIn
  <2>5. OneAttemptPerJobIn(assignments')
    BY <2>2, <2>3 DEF Inv, SoundTable, OneAttemptPerJobIn, AttemptPhases
  <2>6. AllOnLiveNodes'
    <3>1. n \in live
      BY <1>3 DEF TypeOK, SaveAttempt
    <3>. QED BY <1>3, <2>2, <3>1 DEF SaveAttempt, Inv, AllOnLiveNodes, JobSteps
  <2>7. TargetPortsFree' /\ NoOtherAttempt'
    BY <1>3 DEF SaveAttempt, TargetPortsFree, NoOtherAttempt
  <2>. QED BY <1>3, <2>4, <2>5, <2>6, <2>7 DEF Inv, SoundTable, SaveAttempt
<1>4. CASE WriteJobStatus(j)
  <2>1. UNCHANGED <<assignments, backup, live>>
    BY <1>4 DEF WriteJobStatus, UpdateJobStatus
  <2>2. AllOnLiveNodes' /\ TargetPortsFree' /\ NoOtherAttempt'
    BY <1>4, <2>1 DEF WriteJobStatus, Inv, AllOnLiveNodes, TargetPortsFree, NoOtherAttempt, JobSteps
  <2>. QED BY <2>1, <2>2 DEF Inv
<1>. QED BY <1>1, <1>2, <1>3, <1>4

\* No handler adds or revives an assignment, and live nodes only join.
LEMMA HandlersInv ==
    ASSUME TypeOK, Inv, HandlerStep
    PROVE  Inv'
<1>1. Shrunk(assignments', assignments)
  <2>1. CASE \E s \in ServiceName : PostService(s) \/ RemoveService(s)
    BY <2>1, SameIsShrunk, WithoutIsShrunk DEF PostService, RemoveService, UpsertService, DeleteService
  <2>2. CASE \E j \in JobName : PostJob(j) \/ RemoveJob(j)
    BY <2>2, SameIsShrunk, WithoutIsShrunk DEF PostJob, RemoveJob, UpsertJob, DeleteJob
  <2>3. CASE \E n \in Node : RegisterNode(n) \/ Heartbeat(n)
    BY <2>3, SameIsShrunk DEF RegisterNode, Heartbeat, UpsertNode, TouchNode
  <2>4. CASE \E n \in Node, id \in DOMAIN assignments, phase \in ReportedPhases :
                ReportStatus(n, id, phase)
    <3>1. PICK n \in Node, id \in DOMAIN assignments, phase \in ReportedPhases :
             ReportStatus(n, id, phase)
      BY <2>4
    <3>2. phase \in AssignmentPhase /\ phase # Pending
      BY <3>1, PostsAssumption
         DEF ReportStatus, isAgentReportablePhase, Pending, Running, Succeeded, Failed, Stopped
    <3>. QED BY <3>1, <3>2, UpdateIsShrunk DEF ReportStatus
  <2>. QED BY <2>1, <2>2, <2>3, <2>4 DEF HandlerStep
<1>2. UNCHANGED <<pc, batch, todo, target, backup>> /\ live \subseteq live'
  BY DEF HandlerStep, PostService, RemoveService, PostJob, RemoveJob, RegisterNode, Heartbeat,
         ReportStatus, CheckedIn, pass
<1>. QED BY <1>1, <1>2, ShrinkingKeepsInv

\* Crashes end the pass; a restore brings back a sound table.
LEMMA SystemInv ==
    ASSUME TypeOK, Inv, Tick \/ Backup \/ Crash \/ Restart
    PROVE  Inv'
<1>1. CASE Tick
  <2>1. backup'.assignments = backup.assignments
    BY <1>1 DEF Tick, TypeOK, IsDatabase
  <2>. QED BY <1>1, <2>1, SameIsShrunk, ShrinkingKeepsInv DEF Tick, pass
<1>2. CASE Backup
  <2>1. backup'.assignments = assignments /\ UNCHANGED <<assignments, pc, batch, todo, target, live>>
    BY <1>2 DEF Backup, Snapshot, tables, pass
  <2>2. AllOnLiveNodes' /\ TargetPortsFree' /\ NoOtherAttempt'
    BY <2>1 DEF Inv, AllOnLiveNodes, TargetPortsFree, NoOtherAttempt, First
  <2>. QED BY <2>1, <2>2 DEF Inv
<1>3. CASE Crash \/ Restart
  <2>1. pc' \in {"down", "idle"}
    BY <1>3 DEF Crash, Restart, Boot, RestoreIfMissing
  <2>2. AllOnLiveNodes' /\ TargetPortsFree' /\ NoOtherAttempt'
    BY <2>1 DEF AllOnLiveNodes, TargetPortsFree, NoOtherAttempt, ServiceSteps, JobSteps
  <2>3. backup' = backup /\ assignments' \in {assignments, backup.assignments}
    BY <1>3 DEF Crash, Restart, Boot, RestoreIfMissing, Load, tables
  <2>. QED BY <2>2, <2>3 DEF Inv
<1>. QED BY <1>1, <1>2, <1>3

\* The invariant is inductive, given the types.
LEMMA NextInv == TypeOK /\ Inv /\ [Next]_vars => Inv'
<1>. SUFFICES ASSUME TypeOK, Inv, [Next]_vars PROVE Inv'
  OBVIOUS
<1>1. CASE ReconcileStep
  BY <1>1, ReadingInv, BatchInv, ServiceStepsInv, JobStepsInv DEF ReconcileStep
<1>2. CASE HandlerStep
  BY <1>2, HandlersInv
<1>3. CASE Tick \/ Backup \/ Crash \/ Restart
  BY <1>3, SystemInv
<1>4. CASE UNCHANGED vars
  BY <1>4, SameIsShrunk, ShrinkingKeepsInv DEF vars, tables, pass
<1>. QED BY <1>1, <1>2, <1>3, <1>4 DEF Next

\* The types and the invariant hold of every reachable state.
LEMMA InvHolds == Spec => [](TypeOK /\ Inv)
<1>1. Init => TypeOK /\ Inv
  BY InitTypeOK, InitInv
<1>2. TypeOK /\ Inv /\ [Next]_vars => TypeOK' /\ Inv'
  BY NextTypeOK, NextInv
<1>. QED BY <1>1, <1>2, PTL DEF Spec

\* No two active assignments on a node ever share a port.
THEOREM PortsAreExclusive == Spec => []PortsExclusive
<1>1. Inv => PortsExclusive
  BY DEF Inv, SoundTable, PortsExclusive
<1>. QED BY <1>1, InvHolds, PTL

\* A job never has two attempts at a time, and none after a success.
THEOREM JobsRunOnce == Spec => []OneAttemptPerJob
<1>1. Inv => OneAttemptPerJob
  BY DEF Inv, SoundTable, OneAttemptPerJob
<1>. QED BY <1>1, InvHolds, PTL

--------------------------------------------------------------------------------
\* Updating a status leaves a terminal row as it is.
LEMMA UpdateKeepsTerminal ==
    ASSUME NEW id, NEW phase, UpdateAssignmentStatus(id, phase),
           NEW i \in DOMAIN assignments, IsTerminalPhase(assignments[i].phase),
           i \in DOMAIN assignments'
    PROVE  assignments'[i].phase = assignments[i].phase
BY DEF UpdateAssignmentStatus, applyStatus

\* Saving under a fresh ID leaves every row as it is.
LEMMA SaveKeepsRows ==
    ASSUME TypeOK, NEW a, SaveAssignment(drawn + 1, a), NEW i \in DOMAIN assignments
    PROVE  assignments'[i] = assignments[i]
BY DEF SaveAssignment, Put, TypeOK, IsDatabase, Snapshot, IsTable, DrawnID

\* A terminal phase never changes while the controller is up.
THEOREM TerminalPhasesAreFinal == Spec => TerminalIsFinal
<1>1. TypeOK /\ [Next]_vars => [KeepsTerminal]_vars
  <2>. SUFFICES ASSUME TypeOK, Next, NEW i \in DOMAIN assignments, Up,
                       IsTerminalPhase(assignments[i].phase), i \in DOMAIN assignments'
                PROVE  assignments'[i].phase = assignments[i].phase
    BY DEF KeepsTerminal
  <2>1. CASE UNCHANGED assignments
    BY <2>1
  <2>2. CASE \E k \in batch : MarkLost(k)
    BY <2>2, UpdateKeepsTerminal DEF MarkLost
  <2>3. CASE \E k \in batch : DeleteExcess(k)
    BY <2>3 DEF DeleteExcess, DeleteAssignment, Without, Restrict
  <2>4. CASE \E s \in ServiceName : SaveReplica(s)
    BY <2>4, SaveKeepsRows DEF SaveReplica
  <2>5. CASE \E j \in JobName : SaveAttempt(j)
    BY <2>5, SaveKeepsRows DEF SaveAttempt
  <2>6. CASE \E s \in ServiceName : RemoveService(s)
    BY <2>6 DEF RemoveService, DeleteService, Without, Restrict
  <2>7. CASE \E j \in JobName : RemoveJob(j)
    BY <2>7 DEF RemoveJob, DeleteJob, Without, Restrict
  <2>8. CASE \E n \in Node, id \in DOMAIN assignments, phase \in ReportedPhases :
                ReportStatus(n, id, phase)
    BY <2>8, UpdateKeepsTerminal DEF ReportStatus
  <2>9. CASE ReconcileStep
    BY <2>1, <2>2, <2>3, <2>4, <2>5, <2>9
       DEF ReconcileStep, ReconcileBegin, ListLost, ListServices, ListJobs, ReconcileEnd,
           ReconcileService, Relist, ScaleUp, ScaledUp, ListFinal, WriteServiceStatus,
           UpdateServiceStatus, ReconcileJob, ChooseJobNode, WriteJobStatus, UpdateJobStatus, tables
  <2>10. CASE HandlerStep
    BY <2>1, <2>6, <2>7, <2>8, <2>10
       DEF HandlerStep, PostService, UpsertService, PostJob, UpsertJob, RegisterNode, UpsertNode,
           Heartbeat, TouchNode
  <2>11. CASE Tick \/ Backup \/ Crash \/ Restart
    BY <2>1, <2>11 DEF Tick, Backup, Crash, Restart, Boot, RestoreIfMissing, Up, tables
  <2>. QED BY <2>9, <2>10, <2>11 DEF Next
<1>. QED BY <1>1, TypeCorrect, PTL DEF Spec, TerminalIsFinal

--------------------------------------------------------------------------------
\* Work is only placed on registered nodes, and nodes are never removed; the
\* backup agrees with itself in the same way.
OnRegisteredNodes ==
    /\ \A i \in DOMAIN assignments : assignments[i].node \in DOMAIN nodes
    /\ \A i \in DOMAIN backup.assignments : backup.assignments[i].node \in DOMAIN backup.nodes

\* Who is not live has been silent, and the controller up, for a timeout.
SilenceSeen ==
    /\ pc \in {"listLost", "markLost"} =>
          \A n \in DOMAIN nodes \ live : nodes[n].age > NodeTimeout /\ startedAge > NodeTimeout
    /\ pc = "markLost" /\ batch # {} => startedAge > NodeTimeout

GraceInv == OnRegisteredNodes /\ SilenceSeen

\* With no rows and no pass there is nothing to be silent about.
LEMMA InitGrace == Init => GraceInv
BY DEF Init, GraceInv, OnRegisteredNodes, SilenceSeen, EmptyDatabase, EmptyTable

\* Steps that leave the node table, and what the pass knows of it, alone.
LEMMA SameNodesGrace ==
    ASSUME GraceInv, Shrunk(assignments', assignments), batch' \subseteq batch,
           UNCHANGED <<nodes, backup, live, startedAge, pc>>
    PROVE  GraceInv'
BY DEF GraceInv, OnRegisteredNodes, SilenceSeen, Shrunk

\* Steps after markLostAssignments, to which SilenceSeen does not apply.
LEMMA LaterGrace ==
    ASSUME GraceInv, Shrunk(assignments', assignments), pc' \notin {"listLost", "markLost"},
           UNCHANGED <<nodes, backup>>
    PROVE  GraceInv'
BY DEF GraceInv, OnRegisteredNodes, SilenceSeen, Shrunk

\* From the start of a pass to the end of markLostAssignments.
LEMMA MarkingGrace ==
    ASSUME TypeOK, GraceInv,
           \/ ReconcileBegin \/ ListLost \/ ListServices
           \/ \E i \in batch : MarkLost(i)
    PROVE  GraceInv'
<1>1. CASE ReconcileBegin
  <2>. DEFINE since == IF startedAge = Unset THEN 0 ELSE startedAge
  <2>1. /\ startedAge' = since /\ live' = liveNodeSet(since) /\ pc' = "listLost"
        /\ UNCHANGED <<nodes, assignments, backup>>
    BY <1>1 DEF ReconcileBegin, tables
  <2>2. ASSUME NEW n \in DOMAIN nodes, n \notin live'
        PROVE  nodes[n].age > NodeTimeout /\ since > NodeTimeout
    <3>1. nodes[n].age \in Nat /\ since \in Nat
      BY NodeTimeoutAssumption DEF TypeOK, IsDatabase, Snapshot, IsTable, NodeRow, Unset, Stale
    <3>2. ~ (graced(nodes[n].age, since) <= NodeTimeout)
      BY <2>1, <2>2 DEF liveNodeSet
    <3>. QED BY <3>1, <3>2, NodeTimeoutAssumption DEF graced
  <2>3. SilenceSeen'
    BY <2>1, <2>2 DEF SilenceSeen
  <2>. QED BY <2>1, <2>3 DEF GraceInv, OnRegisteredNodes
<1>2. CASE ListLost
  <2>1. UNCHANGED <<nodes, assignments, backup, live, startedAge>> /\ pc = "listLost"
    BY <1>2 DEF ListLost, tables
  <2>2. batch' # {} => \E n \in DOMAIN nodes : n \notin live
    BY <1>2 DEF ListLost, GraceInv, OnRegisteredNodes
  <2>3. SilenceSeen'
    BY <2>1, <2>2 DEF GraceInv, SilenceSeen
  <2>. QED BY <2>1, <2>3 DEF GraceInv, OnRegisteredNodes
<1>3. CASE ListServices
  BY <1>3, SameIsShrunk, LaterGrace DEF ListServices, tables
<1>4. CASE \E i \in batch : MarkLost(i)
  <2>1. PICK i \in batch : MarkLost(i)
    BY <1>4
  <2>2. Shrunk(assignments', assignments)
    BY <2>1, UpdateIsShrunk DEF MarkLost, AssignmentPhase, Pending, Lost
  <2>3. batch' \subseteq batch /\ UNCHANGED <<nodes, backup, live, startedAge, pc>>
    BY <2>1 DEF MarkLost, UpdateAssignmentStatus
  <2>. QED BY <2>2, <2>3, SameNodesGrace
<1>. QED BY <1>1, <1>2, <1>3, <1>4

\* A new assignment is on a target node, and targets are registered.
LEMMA SavingGrace ==
    ASSUME TypeOK, GraceInv, NEW a, a.node \in live, live \subseteq DOMAIN nodes,
           SaveAssignment(drawn + 1, a), pc' \notin {"listLost", "markLost"}, UNCHANGED backup
    PROVE  GraceInv'
<1>1. /\ DOMAIN assignments' = DOMAIN assignments \cup {drawn + 1}
      /\ assignments'[drawn + 1] = a
      /\ UNCHANGED nodes
  BY DEF SaveAssignment, Put
<1>2. \A i \in DOMAIN assignments : assignments'[i] = assignments[i]
  BY SaveKeepsRows
<1>. QED BY <1>1, <1>2 DEF GraceInv, OnRegisteredNodes, SilenceSeen

\* The rest of the pass.
LEMMA WorkingGrace ==
    ASSUME TypeOK, GraceInv,
           \/ ListJobs \/ ReconcileEnd
           \/ \E i \in batch : DeleteExcess(i)
           \/ \E s \in ServiceName :
                 \/ ReconcileService(s) \/ Relist(s) \/ ScaleUp(s) \/ SaveReplica(s)
                 \/ ScaledUp(s) \/ ListFinal(s) \/ WriteServiceStatus(s)
           \/ \E j \in JobName :
                 ReconcileJob(j) \/ ChooseJobNode(j) \/ SaveAttempt(j) \/ WriteJobStatus(j)
    PROVE  GraceInv'
<1>1. pc' \notin {"listLost", "markLost"} /\ backup' = backup
  BY DEF ListJobs, ReconcileEnd, DeleteExcess, ReconcileService, Relist, ScaleUp, SaveReplica,
         ScaledUp, ListFinal, WriteServiceStatus, ReconcileJob, ChooseJobNode, SaveAttempt,
         WriteJobStatus
<1>2. CASE \E i \in batch : DeleteExcess(i)
  BY <1>1, <1>2, WithoutIsShrunk, LaterGrace DEF DeleteExcess, DeleteAssignment
<1>3. CASE \E s \in ServiceName : SaveReplica(s)
  <2>1. PICK s \in ServiceName : SaveReplica(s)
    BY <1>3
  <2>2. PICK n \in target : SaveAssignment(drawn + 1,
           [kind |-> Service, owner |-> s, node |-> n,
            resources |-> todo[s].resources, ports |-> todo[s].ports,
            attempt |-> 1, phase |-> Pending, createdAt |-> now])
    BY <2>1 DEF SaveReplica
  <2>3. n \in live /\ live \subseteq DOMAIN nodes
    BY <2>1 DEF TypeOK, SaveReplica, PassSteps, ServiceSteps
  <2>. QED BY <1>1, <2>2, <2>3, SavingGrace
<1>4. CASE \E j \in JobName : SaveAttempt(j)
  <2>1. PICK j \in JobName : SaveAttempt(j)
    BY <1>4
  <2>2. PICK n \in target : SaveAssignment(drawn + 1,
           [kind |-> Job, owner |-> j, node |-> n,
            resources |-> todo[j].resources, ports |-> {},
            attempt |-> status.failedAttempts + 1, phase |-> Pending, createdAt |-> now])
    BY <2>1 DEF SaveAttempt
  <2>3. n \in live /\ live \subseteq DOMAIN nodes
    BY <2>1 DEF TypeOK, SaveAttempt, PassSteps, JobSteps
  <2>. QED BY <1>1, <2>2, <2>3, SavingGrace
<1>5. CASE UNCHANGED <<nodes, assignments>>
  BY <1>1, <1>5, SameIsShrunk, LaterGrace
<1>. QED
  BY <1>2, <1>3, <1>4, <1>5
     DEF ListJobs, ReconcileEnd, ReconcileService, Relist, ScaleUp, ScaledUp, ListFinal,
         WriteServiceStatus, UpdateServiceStatus, ReconcileJob, ChooseJobNode, WriteJobStatus,
         UpdateJobStatus, tables

\* Nodes that check in become live; no handler adds an assignment.
LEMMA HandlersGrace ==
    ASSUME TypeOK, GraceInv, HandlerStep
    PROVE  GraceInv'
<1>1. CASE \E s \in ServiceName : PostService(s) \/ RemoveService(s)
  BY <1>1, SameIsShrunk, WithoutIsShrunk, SameNodesGrace
     DEF PostService, RemoveService, UpsertService, DeleteService, pass
<1>2. CASE \E j \in JobName : PostJob(j) \/ RemoveJob(j)
  BY <1>2, SameIsShrunk, WithoutIsShrunk, SameNodesGrace
     DEF PostJob, RemoveJob, UpsertJob, DeleteJob, pass
<1>3. CASE \E n \in Node : RegisterNode(n) \/ Heartbeat(n)
  <2>1. PICK n \in Node : RegisterNode(n) \/ Heartbeat(n)
    BY <1>3
  <2>2. /\ DOMAIN nodes' = DOMAIN nodes \cup {n}
        /\ \A m \in DOMAIN nodes : m # n => nodes'[m] = nodes[m]
    BY <2>1 DEF RegisterNode, Heartbeat, UpsertNode, TouchNode, Put
  <2>3. UNCHANGED <<assignments, backup, batch, pc, startedAge>>
    BY <2>1 DEF RegisterNode, Heartbeat, UpsertNode, TouchNode
  <2>4. live' = IF InPass THEN live \cup {n} ELSE live
    BY <2>1 DEF RegisterNode, Heartbeat, CheckedIn
  <2>5. SilenceSeen'
    BY <2>2, <2>3, <2>4 DEF GraceInv, SilenceSeen, InPass, PassSteps
  <2>. QED BY <2>2, <2>3, <2>5 DEF GraceInv, OnRegisteredNodes
<1>4. CASE \E n \in Node, id \in DOMAIN assignments, phase \in ReportedPhases :
              ReportStatus(n, id, phase)
  <2>1. PICK n \in Node, id \in DOMAIN assignments, phase \in ReportedPhases :
           ReportStatus(n, id, phase)
    BY <1>4
  <2>2. phase \in AssignmentPhase /\ phase # Pending
    BY <2>1, PostsAssumption
       DEF ReportStatus, isAgentReportablePhase, Pending, Running, Succeeded, Failed, Stopped
  <2>3. Shrunk(assignments', assignments)
    BY <2>1, <2>2, UpdateIsShrunk DEF ReportStatus
  <2>. QED BY <2>1, <2>3, SameNodesGrace DEF ReportStatus, UpdateAssignmentStatus, pass
<1>. QED BY <1>1, <1>2, <1>3, <1>4 DEF HandlerStep

\* Time passes, the controller dies, restarts and restores.
LEMMA SystemGrace ==
    ASSUME TypeOK, GraceInv, Tick \/ Backup \/ Crash \/ Restart
    PROVE  GraceInv'
<1>1. CASE Tick
  <2>1. /\ DOMAIN nodes' = DOMAIN nodes
        /\ backup'.assignments = backup.assignments
        /\ DOMAIN backup'.nodes = DOMAIN backup.nodes
        /\ UNCHANGED <<assignments, live, pc, batch>>
    BY <1>1 DEF Tick, AgedNodes, pass, TypeOK, IsDatabase
  <2>2. ASSUME NEW n \in DOMAIN nodes, nodes[n].age > NodeTimeout
        PROVE  nodes'[n].age > NodeTimeout
    <3>1. nodes[n] \in NodeRow
      BY DEF TypeOK, IsDatabase, Snapshot, IsTable
    <3>2. nodes'[n].age = Older(nodes[n].age)
      BY <1>1, <3>1 DEF Tick, AgedNodes, NodeRow
    <3>. QED BY <2>2, <3>1, <3>2, NodeTimeoutAssumption DEF Older, NodeRow, Stale
  <2>3. startedAge > NodeTimeout => startedAge' > NodeTimeout
    BY <1>1, NodeTimeoutAssumption DEF Tick, TypeOK, Older, Unset, Stale
  <2>4. SilenceSeen'
    BY <2>1, <2>2, <2>3 DEF GraceInv, SilenceSeen
  <2>. QED BY <2>1, <2>4 DEF GraceInv, OnRegisteredNodes
<1>2. CASE Backup
  BY <1>2 DEF Backup, Snapshot, GraceInv, OnRegisteredNodes, SilenceSeen, tables, pass
<1>3. CASE Crash \/ Restart
  <2>1. pc' \in {"down", "idle"} /\ backup' = backup
    BY <1>3 DEF Crash, Restart, Boot, RestoreIfMissing
  <2>2. \/ UNCHANGED <<nodes, assignments>>
        \/ nodes' = backup.nodes /\ assignments' = backup.assignments
    BY <1>3 DEF Crash, Restart, Boot, RestoreIfMissing, Load, tables
  <2>. QED BY <2>1, <2>2 DEF GraceInv, OnRegisteredNodes, SilenceSeen
<1>. QED BY <1>1, <1>2, <1>3

\* GraceInv is inductive, given the types.
LEMMA NextGrace == TypeOK /\ GraceInv /\ [Next]_vars => GraceInv'
<1>. SUFFICES ASSUME TypeOK, GraceInv, [Next]_vars PROVE GraceInv'
  OBVIOUS
<1>1. CASE ReconcileStep
  BY <1>1, MarkingGrace, WorkingGrace DEF ReconcileStep
<1>2. CASE HandlerStep
  BY <1>2, HandlersGrace
<1>3. CASE Tick \/ Backup \/ Crash \/ Restart
  BY <1>3, SystemGrace
<1>4. CASE UNCHANGED vars
  BY <1>4, SameIsShrunk, SameNodesGrace DEF vars, tables, pass
<1>. QED BY <1>1, <1>2, <1>3, <1>4 DEF Next

\* No step but MarkLost makes an assignment Lost while the controller is up.
LEMMA OnlyMarkLostLoses ==
    ASSUME TypeOK, Next, Up, NEW i \in DOMAIN assignments, i \in DOMAIN assignments',
           assignments'[i].phase = Lost, assignments[i].phase # Lost
    PROVE  \E k \in batch : MarkLost(k)
<1>. SUFFICES ASSUME ~ \E k \in batch : MarkLost(k) PROVE assignments'[i].phase = assignments[i].phase
  OBVIOUS
<1>1. CASE UNCHANGED assignments
  BY <1>1
<1>2. CASE \E k \in batch : DeleteExcess(k)
  BY <1>2 DEF DeleteExcess, DeleteAssignment, Without, Restrict
<1>3. CASE \E s \in ServiceName : SaveReplica(s)
  BY <1>3, SaveKeepsRows DEF SaveReplica
<1>4. CASE \E j \in JobName : SaveAttempt(j)
  BY <1>4, SaveKeepsRows DEF SaveAttempt
<1>5. CASE \E s \in ServiceName : RemoveService(s)
  BY <1>5 DEF RemoveService, DeleteService, Without, Restrict
<1>6. CASE \E j \in JobName : RemoveJob(j)
  BY <1>6 DEF RemoveJob, DeleteJob, Without, Restrict
<1>7. CASE \E n \in Node, id \in DOMAIN assignments, phase \in ReportedPhases :
              ReportStatus(n, id, phase)
  <2>1. PICK n \in Node, id \in DOMAIN assignments, phase \in ReportedPhases :
           ReportStatus(n, id, phase)
    BY <1>7
  <2>2. phase # Lost
    BY <2>1 DEF ReportStatus, isAgentReportablePhase, Running, Succeeded, Failed, Stopped, Lost
  <2>3. assignments[id] \in Assignment
    BY DEF TypeOK, IsDatabase, Snapshot, IsTable
  <2>4. assignments' = [assignments EXCEPT ![id] = applyStatus(@, phase)]
    BY <2>1 DEF ReportStatus, UpdateAssignmentStatus
  <2>5. applyStatus(assignments[id], phase).phase \in {assignments[id].phase, phase}
    BY <2>3 DEF applyStatus, Assignment
  <2>. QED BY <2>2, <2>4, <2>5
<1>8. CASE ReconcileStep
  BY <1>1, <1>2, <1>3, <1>4, <1>8
     DEF ReconcileStep, ReconcileBegin, ListLost, ListServices, ListJobs, ReconcileEnd,
         ReconcileService, Relist, ScaleUp, ScaledUp, ListFinal, WriteServiceStatus,
         UpdateServiceStatus, ReconcileJob, ChooseJobNode, WriteJobStatus, UpdateJobStatus, tables
<1>9. CASE HandlerStep
  BY <1>1, <1>5, <1>6, <1>7, <1>9
     DEF HandlerStep, PostService, UpsertService, PostJob, UpsertJob, RegisterNode, UpsertNode,
         Heartbeat, TouchNode
<1>10. CASE Tick \/ Backup \/ Crash \/ Restart
  BY <1>1, <1>10 DEF Tick, Backup, Crash, Restart, Boot, RestoreIfMissing, Up, tables
<1>. QED BY <1>8, <1>9, <1>10 DEF Next

\* Work is declared Lost only after the controller was up, and the node silent,
\* for longer than the timeout (but for a heartbeat later in the same pass).
THEOREM LostOnlyAfterSilence == Spec => LostAfterSilence
<1>1. TypeOK /\ GraceInv /\ [Next]_vars => [LosesOnlySilent]_vars
  <2>. SUFFICES ASSUME TypeOK, GraceInv, Next, Up, NEW i \in DOMAIN assignments,
                       i \in DOMAIN assignments',
                       assignments'[i].phase = Lost, assignments[i].phase # Lost
                PROVE  /\ startedAge > NodeTimeout
                       /\ assignments[i].node \in DOMAIN nodes
                       /\ \/ nodes[assignments[i].node].age > NodeTimeout
                          \/ assignments[i].node \in live
    BY DEF LosesOnlySilent
  <2>1. PICK k \in batch : MarkLost(k)
    BY OnlyMarkLostLoses
  <2>. QED BY <2>1 DEF MarkLost, GraceInv, OnRegisteredNodes, SilenceSeen
<1>2. Init => GraceInv
  BY InitGrace
<1>. QED BY <1>1, <1>2, NextGrace, TypeCorrect, PTL DEF Spec, LostAfterSilence

--------------------------------------------------------------------------------
(* What an ID stands for *)

\* Two rows are of the same work: all that differs is how far it has got.
SameWork(a, b) ==
    /\ a.kind = b.kind /\ a.owner = b.owner /\ a.node = b.node
    /\ a.resources = b.resources /\ a.ports = b.ports
    /\ a.attempt = b.attempt /\ a.createdAt = b.createdAt

\* The rows two tables share are of the same work.
Agree(new, old) == \A i \in DOMAIN new \cap DOMAIN old : SameWork(new[i], old[i])

\* The newest backup knows the assignments there still are as what they are.
BackupAgrees == Agree(backup.assignments, assignments)

\* Only the phase of an assignment ever changes while it has a row.
KeepsWork == Agree(assignments', assignments)

\* Deleting rows changes none.
LEMMA WithoutAgrees == ASSUME NEW table, NEW gone PROVE
    LET new == Without(table, gone)
    IN  DOMAIN new \subseteq DOMAIN table /\ \A i \in DOMAIN new : SameWork(new[i], table[i])
BY DEF Without, Restrict, SameWork

\* UpdateAssignmentStatus touches nothing but a phase.
LEMMA UpdateAgrees ==
    ASSUME TypeOK, NEW id, NEW phase, UpdateAssignmentStatus(id, phase)
    PROVE  /\ DOMAIN assignments' = DOMAIN assignments
           /\ \A i \in DOMAIN assignments' : SameWork(assignments'[i], assignments[i])
<1>1. assignments \in [DOMAIN assignments -> Assignment]
  BY DEF TypeOK, IsDatabase, Snapshot, IsTable
<1>2. ASSUME NEW a \in Assignment PROVE SameWork(applyStatus(a, phase), a)
  BY DEF applyStatus, SameWork, Assignment
<1>. QED BY <1>1, <1>2 DEF UpdateAssignmentStatus, SameWork

\* A step keeps the rows it keeps as what they are, adds one under an ID that
\* neither the database nor the backup has seen, or restores the backup.
LEMMA WorkSteps ==
    ASSUME TypeOK, [Next]_vars
    PROVE  \/ /\ DOMAIN assignments' \subseteq DOMAIN assignments \cup {drawn + 1}
              /\ \A i \in DOMAIN assignments' \cap DOMAIN assignments :
                    SameWork(assignments'[i], assignments[i])
           \/ assignments' = backup.assignments /\ backup' = backup
<1>. DEFINE Kept == /\ DOMAIN assignments' \subseteq DOMAIN assignments \cup {drawn + 1}
                    /\ \A i \in DOMAIN assignments' \cap DOMAIN assignments :
                          SameWork(assignments'[i], assignments[i])
<1>1. ASSUME UNCHANGED assignments PROVE Kept
  BY <1>1 DEF SameWork
<1>2. ASSUME NEW a, SaveAssignment(drawn + 1, a) PROVE Kept
  BY <1>2, SaveKeepsRows DEF SaveAssignment, Put, SameWork
<1>3. CASE ReconcileStep
  <2>1. CASE \E i \in batch : MarkLost(i)
    BY <2>1, UpdateAgrees DEF MarkLost
  <2>2. CASE \E i \in batch : DeleteExcess(i)
    BY <2>2, WithoutAgrees DEF DeleteExcess, DeleteAssignment
  <2>3. CASE (\E s \in ServiceName : SaveReplica(s)) \/ \E j \in JobName : SaveAttempt(j)
    BY <2>3, <1>2 DEF SaveReplica, SaveAttempt
  <2>4. CASE UNCHANGED assignments
    BY <2>4, <1>1
  <2>. QED BY <1>3, <2>1, <2>2, <2>3, <2>4 DEF ReconcileStep, ReconcileBegin, ListLost, ListServices,
              ListJobs, ReconcileEnd, ReconcileService, Relist, ScaleUp, ScaledUp, ListFinal,
              WriteServiceStatus, UpdateServiceStatus, ReconcileJob, ChooseJobNode, WriteJobStatus,
              UpdateJobStatus, tables
<1>4. CASE HandlerStep
  <2>1. CASE \E n \in Node, id \in DOMAIN assignments, phase \in ReportedPhases :
                ReportStatus(n, id, phase)
    BY <2>1, UpdateAgrees DEF ReportStatus
  <2>2. CASE \E s \in ServiceName : RemoveService(s)
    BY <2>2, WithoutAgrees DEF RemoveService, DeleteService
  <2>3. CASE \E j \in JobName : RemoveJob(j)
    BY <2>3, WithoutAgrees DEF RemoveJob, DeleteJob
  <2>4. CASE UNCHANGED assignments
    BY <2>4, <1>1
  <2>. QED BY <1>4, <2>1, <2>2, <2>3, <2>4 DEF HandlerStep, PostService, UpsertService, PostJob, UpsertJob,
              RegisterNode, UpsertNode, Heartbeat, TouchNode
<1>5. CASE Tick \/ Backup \/ Crash \/ Boot \/ UNCHANGED vars
  BY <1>5, <1>1 DEF Tick, Backup, Crash, Boot, vars, tables
<1>6. CASE RestoreIfMissing
  BY <1>6 DEF RestoreIfMissing, Load
<1>. QED BY <1>3, <1>4, <1>5, <1>6 DEF Next, Restart

\* The newest backup stays, but for the clock, or is taken from the database.
LEMMA BackupSteps ==
    ASSUME TypeOK, [Next]_vars
    PROVE  \/ /\ backup'.assignments = backup.assignments /\ backup'.jobs = backup.jobs
              /\ backup'.nodes \in {backup.nodes, AgedNodes(backup.nodes)}
           \/ /\ backup'.assignments = assignments /\ backup'.jobs = jobs
              /\ backup'.nodes = nodes /\ UNCHANGED <<tables, pass>>
<1>1. CASE UNCHANGED backup
  BY <1>1
<1>2. CASE Tick
  BY <1>2 DEF Tick, TypeOK, IsDatabase
<1>3. CASE Backup
  BY <1>3 DEF Backup, Snapshot
<1>4. CASE ReconcileStep
  BY <1>1, <1>4
     DEF ReconcileStep, ReconcileBegin, ListLost, ListServices, ListJobs, ReconcileEnd, MarkLost,
         DeleteExcess, ReconcileService, Relist, ScaleUp, SaveReplica, ScaledUp, ListFinal,
         WriteServiceStatus, ReconcileJob, ChooseJobNode, SaveAttempt, WriteJobStatus
<1>5. CASE HandlerStep
  BY <1>1, <1>5
     DEF HandlerStep, PostService, RemoveService, PostJob, RemoveJob, RegisterNode, Heartbeat,
         ReportStatus
<1>6. CASE Crash \/ Restart \/ UNCHANGED vars
  BY <1>1, <1>6 DEF Crash, Restart, Boot, RestoreIfMissing, vars
<1>. QED BY <1>2, <1>3, <1>4, <1>5, <1>6 DEF Next

\* Only the phase of an assignment changes while it has a row, although a restore
\* replaces the whole table: the backup never holds another assignment under the
\* same ID.  So a report that handleAssignmentStatus has checked (ownsAssignment)
\* still is about the caller's own assignment when UpdateAssignmentStatus applies it.
THEOREM IDsKeepTheirWork == Spec => [][KeepsWork]_vars
<1>1. Init => BackupAgrees
  BY DEF Init, BackupAgrees, Agree, EmptyDatabase, EmptyTable
<1>2. TypeOK /\ BackupAgrees /\ [Next]_vars => BackupAgrees'
  <2>. SUFFICES ASSUME TypeOK, BackupAgrees, [Next]_vars PROVE BackupAgrees'
    OBVIOUS
  <2>1. drawn + 1 \notin DOMAIN backup.assignments
    BY DEF TypeOK, IsDatabase, IsTable, DrawnID
  <2>2. CASE backup'.assignments = assignments /\ UNCHANGED tables
    BY <2>2 DEF BackupAgrees, Agree, SameWork, tables
  <2>3. CASE backup'.assignments = backup.assignments
    BY <2>1, <2>3, WorkSteps DEF BackupAgrees, Agree, SameWork
  <2>. QED BY <2>2, <2>3, BackupSteps
<1>3. TypeOK /\ BackupAgrees /\ [Next]_vars => [KeepsWork]_vars
  BY WorkSteps DEF KeepsWork, BackupAgrees, Agree, SameWork
<1>. QED BY <1>1, <1>2, <1>3, TypeCorrect, PTL DEF Spec
================================================================================
