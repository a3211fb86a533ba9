---------------------------- MODULE ControllerCounts ----------------------------
(***************************************************************************)
(* For every number of nodes, services, jobs and assignments, the limits   *)
(* the reconcile loop promises: no more replicas than wanted, no more      *)
(* attempts than retries allow, no node committed beyond its capacity.     *)
(*                                                                         *)
(* Each is a count that the loop takes in one store call and relies on in  *)
(* a later one.  Between the two, handlers may only release: rows go or    *)
(* become terminal.  The three invariants ReplicaInv, RetryInv and         *)
(* CapacityInv carry the count from the call that takes it to the call     *)
(* that saves, and say of the newest backup what they say of the database. *)
(* All of them use Inv of ControllerSafety: no active assignment is hidden *)
(* from the loop on a node it does not hold live.                          *)
(***************************************************************************)
EXTENDS ControllerSafety, SchedulerProofs

\* An attempt in one of these phases counts, or may come to count, as failed.
TryPhases == {Pending, Running, Failed}

\* A table is released from another when it has shrunk and no row asks for more
\* or has become an attempt that counts.
Released(new, old) ==
    /\ Shrunk(new, old)
    /\ \A i \in DOMAIN new :
          /\ new[i].resources = old[i].resources
          /\ new[i].phase \in TryPhases => old[i].phase \in TryPhases

\* Leaving a table alone releases nothing.
LEMMA SameIsReleased == ASSUME NEW table PROVE Released(table, table)
BY SameIsShrunk DEF Released

\* Deleting rows releases what they held.
LEMMA WithoutIsReleased ==
    ASSUME NEW table, NEW gone
    PROVE  Released(Without(table, gone), table)
BY WithoutIsShrunk DEF Released, Without, Restrict

\* So does UpdateAssignmentStatus, with a phase agents or the loop set.
LEMMA UpdateIsReleased ==
    ASSUME TypeOK, NEW id, NEW phase \in AssignmentPhase, phase # Pending,
           UpdateAssignmentStatus(id, phase)
    PROVE  Released(assignments', assignments)
<1>1. ASSUME NEW a \in Assignment
      PROVE  LET b == applyStatus(a, phase)
             IN  b.resources = a.resources /\ (b.phase \in TryPhases => a.phase \in TryPhases)
  BY DEF applyStatus, IsTerminalPhase, Assignment, AssignmentPhase, TryPhases,
         Pending, Running, Succeeded, Failed, Stopped, Lost
<1>2. assignments \in [DOMAIN assignments -> Assignment]
  BY DEF TypeOK, IsDatabase, Snapshot, IsTable
<1>3. Shrunk(assignments', assignments)
  BY UpdateIsShrunk
<1>4. CASE id \in DOMAIN assignments
  BY <1>1, <1>2, <1>3, <1>4 DEF UpdateAssignmentStatus, Released
<1>5. CASE id \notin DOMAIN assignments
  BY <1>5, SameIsReleased DEF UpdateAssignmentStatus
<1>. QED BY <1>4, <1>5

\* A step releases assignments, saves one, or restores a backup.
LEMMA AssignmentSteps ==
    ASSUME TypeOK, [Next]_vars
    PROVE  \/ Released(assignments', assignments)
           \/ \E s \in ServiceName : SaveReplica(s)
           \/ \E j \in JobName : SaveAttempt(j)
           \/ RestoreIfMissing
<1>1. CASE UNCHANGED assignments
  BY <1>1, SameIsReleased
<1>2. CASE \E i \in batch : MarkLost(i)
  BY <1>2, UpdateIsReleased DEF MarkLost, AssignmentPhase, Pending, Lost
<1>3. CASE \E i \in batch : DeleteExcess(i)
  BY <1>3, WithoutIsReleased DEF DeleteExcess, DeleteAssignment
<1>4. CASE \E s \in ServiceName : RemoveService(s)
  BY <1>4, WithoutIsReleased DEF RemoveService, DeleteService
<1>5. CASE \E j \in JobName : RemoveJob(j)
  BY <1>5, WithoutIsReleased DEF RemoveJob, DeleteJob
<1>6. CASE \E n \in Node, id \in DOMAIN assignments, phase \in ReportedPhases :
              ReportStatus(n, id, phase)
  <2>1. PICK n \in Node, id \in DOMAIN assignments, phase \in ReportedPhases :
           ReportStatus(n, id, phase)
    BY <1>6
  <2>2. phase \in AssignmentPhase /\ phase # Pending
    BY <2>1, PostsAssumption
       DEF ReportStatus, isAgentReportablePhase, Pending, Running, Succeeded, Failed, Stopped
  <2>. QED BY <2>1, <2>2, UpdateIsReleased DEF ReportStatus
<1>7. CASE ReconcileStep
  BY <1>1, <1>2, <1>3, <1>7
     DEF ReconcileStep, ReconcileBegin, ListLost, ListServices, ListJobs, ReconcileEnd,
         ReconcileService, Relist, ScaleUp, ScaledUp, ListFinal, WriteServiceStatus,
         UpdateServiceStatus, ReconcileJob, ChooseJobNode, WriteJobStatus, UpdateJobStatus, tables
<1>8. CASE HandlerStep
  BY <1>1, <1>4, <1>5, <1>6, <1>8
     DEF HandlerStep, PostService, UpsertService, PostJob, UpsertJob, RegisterNode, UpsertNode,
         Heartbeat, TouchNode
<1>9. CASE Tick \/ Backup \/ Crash \/ Restart
  BY <1>1, <1>9 DEF Tick, Backup, Crash, Restart, Boot, tables
<1>10. CASE UNCHANGED vars
  BY <1>1, <1>10 DEF vars, tables
<1>. QED BY <1>7, <1>8, <1>9, <1>10 DEF Next

\* The table that saving an assignment leaves.
LEMMA SavedTable ==
    ASSUME TypeOK, NEW a, SaveAssignment(drawn + 1, a)
    PROVE  /\ DOMAIN assignments' = DOMAIN assignments \cup {drawn + 1}
           /\ drawn + 1 \notin DOMAIN assignments
           /\ \A i \in DOMAIN assignments : assignments'[i] = assignments[i]
           /\ assignments'[drawn + 1] = a
           /\ UNCHANGED <<nodes, services, jobs>>
BY DEF SaveAssignment, Put, TypeOK, IsDatabase, Snapshot, IsTable, DrawnID

\* Only finitely many IDs have been drawn.
LEMMA TablesAreFinite ==
    ASSUME TypeOK
    PROVE  IsFiniteSet(DOMAIN assignments) /\ IsFiniteSet(DOMAIN backup.assignments)
<1>1. drawn \in Int
  BY PostsAssumption DEF TypeOK
<1>2. IsFiniteSet(1 .. drawn)
  BY <1>1, FS_Interval
<1>3. DOMAIN assignments \subseteq 1 .. drawn /\ DOMAIN backup.assignments \subseteq 1 .. drawn
  BY DEF TypeOK, IsDatabase, Snapshot, IsTable, DrawnID
<1>. QED BY <1>2, <1>3, FS_Subset

\* A set with at most one member that the other lacks has at most one more.
LEMMA OneMore ==
    ASSUME NEW S, IsFiniteSet(S), NEW x, NEW T, T \subseteq S \cup {x}
    PROVE  /\ Cardinality(T) \in Nat /\ Cardinality(S) \in Nat
           /\ Cardinality(T) <= Cardinality(S) + 1
<1>1. Cardinality(S) \in Nat
  BY FS_CardinalityType
<1>2. /\ IsFiniteSet(S \cup {x})
      /\ Cardinality(S \cup {x}) = IF x \in S THEN Cardinality(S) ELSE Cardinality(S) + 1
  BY FS_AddElement
<1>. DEFINE U == S \cup {x}
<1>3. Cardinality(U) <= Cardinality(S) + 1 /\ Cardinality(U) \in Nat
  BY <1>1, <1>2
<1>4. Cardinality(T) <= Cardinality(U) /\ Cardinality(T) \in Nat
  BY <1>2, FS_Subset, FS_CardinalityType
<1>. QED BY <1>1, <1>3, <1>4

--------------------------------------------------------------------------------
(* Replicas *)

\* What reconcileService knows of the service it is working on, step by step.
ReplicasWithin(s) ==
    /\ pc = "deleteExcess" =>
          /\ \A i \in Replicas(s) : assignments[i].node \in liveNodes
          /\ Cardinality(Replicas(s) \ batch) <= todo[s].replicas
    /\ pc = "scaleUp" => Cardinality(Replicas(s)) <= have /\ have <= todo[s].replicas
    /\ pc = "saveReplica" => Cardinality(Replicas(s)) <= have /\ have < todo[s].replicas
    /\ pc \in {"listFinal", "serviceStatus"} => Cardinality(Replicas(s)) <= todo[s].replicas

ReplicaInv == \A s \in DOMAIN todo : First(s) => ReplicasWithin(s)

\* A service has finitely many replicas.
LEMMA ReplicasAreFinite ==
    ASSUME TypeOK, NEW s
    PROVE  IsFiniteSet(Replicas(s)) /\ Cardinality(Replicas(s)) \in Nat
<1>1. Replicas(s) \subseteq DOMAIN assignments
  BY DEF Replicas
<1>. QED BY <1>1, TablesAreFinite, FS_Subset, FS_CardinalityType

\* Releasing adds no replica.
LEMMA ReplicasReleased ==
    ASSUME Released(assignments', assignments), NEW s
    PROVE  /\ Replicas(s)' \subseteq Replicas(s)
           /\ \A i \in Replicas(s)' : assignments'[i].node = assignments[i].node
BY DEF Released, Shrunk, Replicas, ActivePhases

\* Outside the steps that rely on a count there is nothing to show.
LEMMA NoCountReplicas ==
    ASSUME pc' \notin {"deleteExcess", "scaleUp", "saveReplica", "listFinal", "serviceStatus"}
    PROVE  ReplicaInv'
BY DEF ReplicaInv, ReplicasWithin

\* What handlers do between two calls of the loop keeps the counts.
LEMMA ReleasingKeepsReplicaInv ==
    ASSUME TypeOK, ReplicaInv, Released(assignments', assignments),
           UNCHANGED <<pc, batch, todo, have, liveNodes>>
    PROVE  ReplicaInv'
<1>. SUFFICES ASSUME NEW s \in DOMAIN todo, First(s)
              PROVE  ReplicasWithin(s)'
  BY DEF ReplicaInv, First
<1>1. ReplicasWithin(s)
  BY DEF ReplicaInv
<1>2. CASE pc \notin ServiceSteps
  BY <1>2 DEF ReplicasWithin, ServiceSteps
<1>3. CASE pc \in ServiceSteps
  <2>1. todo[s].replicas \in Int /\ have \in Nat
    BY <1>3 DEF TypeOK, IsTable, StoredServiceSpec, ServiceSpecs
  <2>2. /\ Replicas(s)' \subseteq Replicas(s)
        /\ \A i \in Replicas(s)' : assignments'[i].node = assignments[i].node
    BY ReplicasReleased
  <2>3. IsFiniteSet(Replicas(s)) /\ Cardinality(Replicas(s)) \in Nat
    BY ReplicasAreFinite
  <2>4. Cardinality(Replicas(s)') <= Cardinality(Replicas(s)) /\ Cardinality(Replicas(s)') \in Nat
    BY <2>2, <2>3, FS_Subset, FS_CardinalityType
  <2>5. /\ Cardinality(Replicas(s)' \ batch) <= Cardinality(Replicas(s) \ batch)
        /\ Cardinality(Replicas(s)' \ batch) \in Nat /\ Cardinality(Replicas(s) \ batch) \in Nat
    <3>1. IsFiniteSet(Replicas(s) \ batch)
      BY <2>3, FS_Difference
    <3>2. Replicas(s)' \ batch \subseteq Replicas(s) \ batch
      BY <2>2
    <3>. QED BY <3>1, <3>2, FS_Subset, FS_CardinalityType
  <2>6. pc = "deleteExcess" =>
          /\ \A i \in Replicas(s)' : assignments'[i].node \in liveNodes
          /\ Cardinality(Replicas(s)' \ batch) <= todo[s].replicas
    BY <1>1, <2>1, <2>2, <2>5 DEF ReplicasWithin
  <2>7. pc = "scaleUp" => Cardinality(Replicas(s)') <= have /\ have <= todo[s].replicas
    BY <1>1, <2>1, <2>3, <2>4 DEF ReplicasWithin
  <2>8. pc = "saveReplica" => Cardinality(Replicas(s)') <= have /\ have < todo[s].replicas
    BY <1>1, <2>1, <2>3, <2>4 DEF ReplicasWithin
  <2>9. pc \in {"listFinal", "serviceStatus"} => Cardinality(Replicas(s)') <= todo[s].replicas
    BY <1>1, <2>1, <2>3, <2>4 DEF ReplicasWithin
  <2>. QED BY <2>6, <2>7, <2>8, <2>9 DEF ReplicasWithin
<1>. QED BY <1>2, <1>3

\* What reconcileService counts on the nodes it holds live are all the replicas.
LEMMA LiveReplicas ==
    ASSUME Inv, pc \in ServiceSteps, NEW s
    PROVE  ActiveOn(Service, s, live) = Replicas(s)
<1>1. \A i \in DOMAIN assignments : assignments[i].phase \in {Pending, Running} => assignments[i].node \in live
  BY DEF Inv, AllOnLiveNodes, ActivePhases
<1>. QED BY <1>1 DEF ActiveOn, ActiveOf, OwnedBy, IsActivePhase, Replicas

\* Steps of the loop that take the counts: listing, trimming and listing again.
LEMMA CountingReplicas ==
    ASSUME TypeOK, Inv, ReplicaInv, NEW s \in ServiceName,
           ReconcileService(s) \/ Relist(s)
    PROVE  ReplicaInv'
<1>1. UNCHANGED <<assignments, todo>> /\ First(s) /\ pc \in ServiceSteps
  BY DEF ReconcileService, Relist, tables, ServiceSteps
<1>2. SUFFICES ReplicasWithin(s)'
  <2>1. ASSUME NEW r, First(r)' PROVE r = s
    BY <1>1, <2>1, FirstIsUnique DEF First
  <2>. QED BY <2>1 DEF ReplicaInv
<1>3. Replicas(s)' = Replicas(s)
  BY <1>1 DEF Replicas
<1>4. IsFiniteSet(Replicas(s)) /\ Cardinality(Replicas(s)) \in Nat
  BY ReplicasAreFinite
<1>5. todo[s].replicas \in Int
  BY <1>1 DEF TypeOK, IsTable, StoredServiceSpec, ServiceSpecs, First
<1>6. CASE ReconcileService(s)
  <2>. DEFINE excess == Cardinality(Replicas(s)) - todo[s].replicas
  <2>1. ActiveOn(Service, s, live) = Replicas(s)
    BY <1>1, LiveReplicas
  <2>2. CASE pc' = "deleteExcess"
    <3>1. batch' \in SUBSET Replicas(s) /\ Cardinality(batch') = excess /\ liveNodes' = live
      BY <1>6, <2>1, <2>2 DEF ReconcileService, pickAssignmentsToRemove
    <3>2. \A i \in Replicas(s) : assignments[i].node \in liveNodes'
      BY <2>1, <3>1 DEF ActiveOn
    <3>3. Cardinality(Replicas(s) \ batch') = Cardinality(Replicas(s)) - Cardinality(batch')
      <4>1. Replicas(s) \cap batch' = batch'
        BY <3>1
      <4>. QED BY <1>4, <4>1, FS_Difference
    <3>4. Cardinality(Replicas(s) \ batch') <= todo[s].replicas
      BY <1>4, <1>5, <3>1, <3>3
    <3>. QED BY <1>1, <1>3, <2>2, <3>2, <3>4 DEF ReplicasWithin
  <2>3. CASE pc' = "scaleUp"
    <3>1. excess <= 0 /\ have' = Cardinality(Replicas(s))
      BY <1>6, <2>1, <2>3 DEF ReconcileService
    <3>. QED BY <1>1, <1>3, <1>4, <1>5, <2>3, <3>1 DEF ReplicasWithin
  <2>. QED BY <1>6, <2>2, <2>3 DEF ReconcileService
<1>7. CASE Relist(s)
  <2>1. pc = "deleteExcess" /\ batch = {} /\ pc' = "scaleUp"
        /\ have' = Cardinality(ActiveOn(Service, s, liveNodes))
    BY <1>7 DEF Relist
  <2>2. /\ \A i \in Replicas(s) : assignments[i].node \in liveNodes
        /\ Cardinality(Replicas(s) \ batch) <= todo[s].replicas
    BY <1>1, <2>1 DEF ReplicaInv, ReplicasWithin, First
  <2>3. ActiveOn(Service, s, liveNodes) = Replicas(s)
    BY <2>2 DEF ActiveOn, ActiveOf, OwnedBy, IsActivePhase, Replicas
  <2>4. Replicas(s) \ batch = Replicas(s)
    BY <2>1
  <2>5. have' = Cardinality(Replicas(s)) /\ have' <= todo'[s].replicas
    BY <1>1, <2>1, <2>2, <2>3, <2>4
  <2>. QED BY <1>3, <1>4, <2>1, <2>5 DEF ReplicasWithin
<1>. QED BY <1>6, <1>7

\* Deleting the excess one by one.
LEMMA TrimmingReplicas ==
    ASSUME TypeOK, ReplicaInv, NEW i \in batch, DeleteExcess(i)
    PROVE  ReplicaInv'
<1>1. /\ pc = "deleteExcess" /\ batch' = batch \ {i}
      /\ UNCHANGED <<pc, todo, liveNodes>> /\ assignments' = Without(assignments, {i})
  BY DEF DeleteExcess, DeleteAssignment
<1>. SUFFICES ASSUME NEW s \in DOMAIN todo, First(s)
              PROVE  ReplicasWithin(s)'
  BY <1>1 DEF ReplicaInv, First
<1>2. Replicas(s)' = Replicas(s) \ {i} /\ \A k \in Replicas(s)' : assignments'[k].node = assignments[k].node
  BY <1>1 DEF Replicas, Without, Restrict
<1>3. /\ \A k \in Replicas(s) : assignments[k].node \in liveNodes
      /\ Cardinality(Replicas(s) \ batch) <= todo[s].replicas
  BY <1>1 DEF ReplicaInv, ReplicasWithin
<1>4. Replicas(s)' \ batch' = Replicas(s) \ batch
  BY <1>1, <1>2
<1>. QED BY <1>1, <1>2, <1>3, <1>4 DEF ReplicasWithin

\* Choosing a node, saving a replica there, and the end of the scaling loop.
LEMMA ScalingReplicas ==
    ASSUME TypeOK, ReplicaInv, NEW s \in ServiceName,
           ScaleUp(s) \/ SaveReplica(s) \/ ScaledUp(s) \/ ListFinal(s)
    PROVE  ReplicaInv'
<1>1. UNCHANGED todo /\ First(s) /\ pc \in ServiceSteps
  BY DEF ScaleUp, SaveReplica, ScaledUp, ListFinal, ServiceSteps
<1>2. SUFFICES ReplicasWithin(s)'
  <2>1. ASSUME NEW r, First(r)' PROVE r = s
    BY <1>1, <2>1, FirstIsUnique DEF First
  <2>. QED BY <2>1 DEF ReplicaInv
<1>3. ReplicasWithin(s)
  BY <1>1 DEF ReplicaInv, First
<1>4. IsFiniteSet(Replicas(s)) /\ Cardinality(Replicas(s)) \in Nat
  BY ReplicasAreFinite
<1>5. todo[s].replicas \in Int /\ have \in Nat
  BY <1>1 DEF TypeOK, IsTable, StoredServiceSpec, ServiceSpecs, First
<1>6. CASE ScaleUp(s) \/ ScaledUp(s) \/ ListFinal(s)
  <2>1. Replicas(s)' = Replicas(s) /\ have' = have
    BY <1>6 DEF ScaleUp, ScaledUp, ListFinal, tables, Replicas
  <2>2. CASE ScaleUp(s)
    <3>1. pc = "scaleUp" /\ pc' \in {"listFinal", "saveReplica"} /\ have < todo[s].replicas
      BY <2>2 DEF ScaleUp
    <3>2. Cardinality(Replicas(s)) <= have /\ Cardinality(Replicas(s)) <= todo[s].replicas
      BY <1>3, <1>4, <1>5, <3>1 DEF ReplicasWithin
    <3>. QED BY <1>1, <2>1, <3>1, <3>2 DEF ReplicasWithin
  <2>3. CASE ScaledUp(s)
    <3>1. pc = "scaleUp" /\ pc' = "listFinal"
      BY <2>3 DEF ScaledUp
    <3>2. Cardinality(Replicas(s)) <= todo[s].replicas
      BY <1>3, <1>4, <1>5, <3>1 DEF ReplicasWithin
    <3>. QED BY <1>1, <2>1, <3>1, <3>2 DEF ReplicasWithin
  <2>4. CASE ListFinal(s)
    BY <1>1, <1>3, <2>1, <2>4 DEF ListFinal, ReplicasWithin
  <2>. QED BY <1>6, <2>2, <2>3, <2>4
<1>7. CASE SaveReplica(s)
  <2>1. pc = "saveReplica" /\ pc' = "scaleUp" /\ have' = have + 1
    BY <1>7 DEF SaveReplica
  <2>2. PICK a : SaveAssignment(drawn + 1, a)
    BY <1>7 DEF SaveReplica
  <2>3. Replicas(s)' \subseteq Replicas(s) \cup {drawn + 1}
    BY <2>2, SavedTable DEF Replicas
  <2>4. Cardinality(Replicas(s)') <= Cardinality(Replicas(s)) + 1
        /\ Cardinality(Replicas(s)') \in Nat
    BY <1>4, <2>3, OneMore
  <2>5. Cardinality(Replicas(s)) <= have /\ have < todo[s].replicas
    BY <1>3, <2>1 DEF ReplicasWithin
  <2>6. Cardinality(Replicas(s)') <= have + 1 /\ have + 1 <= todo[s].replicas
    BY <1>4, <1>5, <2>4, <2>5
  <2>. QED BY <1>1, <2>1, <2>6 DEF ReplicasWithin
<1>. QED BY <1>6, <1>7

\* ReplicaInv is inductive, given the types and Inv.
LEMMA NextReplicaInv == TypeOK /\ Inv /\ ReplicaInv /\ [Next]_vars => ReplicaInv'
<1>. SUFFICES ASSUME TypeOK, Inv, ReplicaInv, [Next]_vars PROVE ReplicaInv'
  OBVIOUS
<1>1. CASE ReconcileStep
  <2>1. CASE \E s \in ServiceName : ReconcileService(s) \/ Relist(s)
    BY <2>1, CountingReplicas
  <2>2. CASE \E i \in batch : DeleteExcess(i)
    BY <2>2, TrimmingReplicas
  <2>3. CASE \E s \in ServiceName : ScaleUp(s) \/ SaveReplica(s) \/ ScaledUp(s) \/ ListFinal(s)
    BY <2>3, ScalingReplicas
  <2>4. CASE \/ ReconcileBegin \/ ListLost \/ ListServices \/ ListJobs \/ ReconcileEnd
             \/ \E i \in batch : MarkLost(i)
             \/ \E s \in ServiceName : WriteServiceStatus(s)
             \/ \E j \in JobName :
                   ReconcileJob(j) \/ ChooseJobNode(j) \/ SaveAttempt(j) \/ WriteJobStatus(j)
    BY <2>4, NoCountReplicas
       DEF ReconcileBegin, ListLost, ListServices, ListJobs, ReconcileEnd, MarkLost,
           WriteServiceStatus, ReconcileJob, ChooseJobNode, SaveAttempt, WriteJobStatus
  <2>. QED BY <1>1, <2>1, <2>2, <2>3, <2>4 DEF ReconcileStep
<1>2. CASE HandlerStep \/ Tick \/ Backup \/ UNCHANGED vars
  <2>1. UNCHANGED <<pc, batch, todo, have, liveNodes>>
    BY <1>2 DEF HandlerStep, PostService, RemoveService, PostJob, RemoveJob, RegisterNode,
                Heartbeat, ReportStatus, Tick, Backup, vars, pass
  <2>2. Released(assignments', assignments)
    <3>1. ~ \E s \in ServiceName : SaveReplica(s)
      BY <2>1 DEF SaveReplica
    <3>2. ~ \E j \in JobName : SaveAttempt(j)
      BY <2>1 DEF SaveAttempt
    <3>3. ~ RestoreIfMissing
      BY <2>1 DEF RestoreIfMissing
    <3>. QED BY <3>1, <3>2, <3>3, AssignmentSteps
  <2>. QED BY <2>1, <2>2, ReleasingKeepsReplicaInv
<1>3. CASE Crash \/ Restart
  BY <1>3, NoCountReplicas DEF Crash, Restart, Boot, RestoreIfMissing
<1>. QED BY <1>1, <1>2, <1>3 DEF Next

\* When reconcileService is done with a service it leaves no more active replicas
\* than the pass wanted, however handlers interleave with its calls.
THEOREM NoSurplusIsLeft == Spec => []NoSurplusReplicas
<1>1. Init => ReplicaInv
  BY DEF Init, ReplicaInv, EmptyTable
<1>2. ReplicaInv => NoSurplusReplicas
  BY DEF ReplicaInv, ReplicasWithin, NoSurplusReplicas, First
<1>. QED BY <1>1, <1>2, NextReplicaInv, InvHolds, PTL DEF Spec

--------------------------------------------------------------------------------
(* Retries *)

\* Job specifications, wherever they are held, are posted ones.
PostedIn(table) == \A j \in DOMAIN table : table[j].spec \in JobPosts[j]

AllPosted ==
    /\ PostedIn(jobs) /\ PostedIn(backup.jobs)
    /\ pc \in JobSteps => \A j \in DOMAIN todo : todo[j] \in JobPosts[j]

\* Nothing makes up a job specification.
LEMMA NextPosted == TypeOK /\ AllPosted /\ [Next]_vars => AllPosted'
<1>. SUFFICES ASSUME TypeOK, AllPosted, [Next]_vars PROVE AllPosted'
  OBVIOUS
<1>1. PostedIn(jobs')
  <2>1. CASE UNCHANGED jobs
    BY <2>1 DEF AllPosted
  <2>2. CASE \E j \in JobName : PostJob(j)
    BY <2>2 DEF PostJob, UpsertJob, Put, AllPosted, PostedIn
  <2>3. CASE \E j \in JobName : RemoveJob(j)
    BY <2>3 DEF RemoveJob, DeleteJob, Without, Restrict, AllPosted, PostedIn
  <2>4. CASE \E j \in JobName : WriteJobStatus(j)
    <3>1. PICK j \in JobName : UpdateJobStatus(j, status)
      BY <2>4 DEF WriteJobStatus
    <3>2. jobs \in [DOMAIN jobs -> JobRow]
      BY DEF TypeOK, IsDatabase, Snapshot, IsTable
    <3>3. DOMAIN jobs' = DOMAIN jobs /\ \A k \in DOMAIN jobs : jobs'[k].spec = jobs[k].spec
      BY <3>1, <3>2 DEF UpdateJobStatus, JobRow
    <3>. QED BY <3>3 DEF AllPosted, PostedIn
  <2>5. CASE RestoreIfMissing
    BY <2>5 DEF RestoreIfMissing, Load, AllPosted
  <2>6. CASE ReconcileStep
    BY <2>1, <2>4, <2>6
       DEF ReconcileStep, ReconcileBegin, ListLost, ListServices, ListJobs, ReconcileEnd, MarkLost,
           DeleteExcess, ReconcileService, Relist, ScaleUp, SaveReplica, ScaledUp, ListFinal,
           WriteServiceStatus, UpdateServiceStatus, UpdateAssignmentStatus, DeleteAssignment,
           SaveAssignment, ReconcileJob, ChooseJobNode, SaveAttempt, tables
  <2>7. CASE HandlerStep
    BY <2>1, <2>2, <2>3, <2>7
       DEF HandlerStep, PostService, UpsertService, RemoveService, DeleteService, RegisterNode,
           UpsertNode, Heartbeat, TouchNode, ReportStatus, UpdateAssignmentStatus
  <2>8. CASE Tick \/ Backup \/ Crash \/ Restart \/ UNCHANGED vars
    BY <2>1, <2>5, <2>8 DEF Tick, Backup, Crash, Restart, Boot, vars, tables
  <2>. QED BY <2>6, <2>7, <2>8 DEF Next
<1>2. PostedIn(backup'.jobs)
  BY BackupSteps DEF AllPosted
<1>3. pc' \in JobSteps => \A j \in DOMAIN todo' : todo'[j] \in JobPosts[j]
  <2>1. CASE ListJobs
    BY <2>1 DEF ListJobs, Specs, AllPosted, PostedIn
  <2>2. CASE UNCHANGED todo /\ (pc' \in JobSteps => pc \in JobSteps)
    BY <2>2 DEF AllPosted
  <2>3. CASE \E j \in JobName : WriteJobStatus(j)
    BY <2>3 DEF WriteJobStatus, Without, Restrict, AllPosted, JobSteps
  <2>4. CASE ReconcileStep
    BY <2>1, <2>2, <2>3, <2>4
       DEF ReconcileStep, ReconcileBegin, ListLost, ListServices, ReconcileEnd, MarkLost,
           DeleteExcess, ReconcileService, Relist, ScaleUp, SaveReplica, ScaledUp, ListFinal,
           WriteServiceStatus, ReconcileJob, ChooseJobNode, SaveAttempt, JobSteps
  <2>5. CASE HandlerStep
    BY <2>2, <2>5
       DEF HandlerStep, PostService, RemoveService, PostJob, RemoveJob, RegisterNode, Heartbeat,
           ReportStatus, pass
  <2>6. CASE Tick \/ Backup \/ Crash \/ Restart \/ UNCHANGED vars
    BY <2>2, <2>6 DEF Tick, Backup, Crash, Restart, Boot, RestoreIfMissing, vars, pass, JobSteps
  <2>. QED BY <2>4, <2>5, <2>6 DEF Next
<1>. QED BY <1>1, <1>2, <1>3 DEF AllPosted

\* The attempts of a job that are under way or have failed.
TriesIn(table, j) ==
    {i \in DOMAIN table :
        table[i].kind = Job /\ table[i].owner = j /\ table[i].phase \in TryPhases}

\* An attempt under way already counts: should it fail, the bound still holds.
TriesBoundedIn(table) ==
    \A j \in JobName, spec \in UNION {JobPosts[k] : k \in JobName} :
        (\A other \in JobPosts[j] : other.retries <= spec.retries) =>
            Cardinality(TriesIn(table, j)) <= Max({spec.retries + 1, 0})

\* While an attempt is about to be saved the job has a try left.
TryLeft ==
    pc \in {"chooseJobNode", "saveAttempt"} =>
        \A j \in DOMAIN todo : First(j) => Cardinality(TriesIn(assignments, j)) <= todo[j].retries

RetryInv == TriesBoundedIn(assignments) /\ TriesBoundedIn(backup.assignments) /\ TryLeft

\* The greater of a number and zero.
LEMMA MaxWithZero ==
    ASSUME NEW a \in Int
    PROVE  Max({a, 0}) \in Nat /\ a <= Max({a, 0})
<1>1. \E x \in {a, 0} : \A y \in {a, 0} : x >= y
  OBVIOUS
<1>2. Max({a, 0}) \in {a, 0} /\ \A y \in {a, 0} : Max({a, 0}) >= y
  BY <1>1, Zenon DEF Max
<1>. QED BY <1>2

\* A job of a finite table has finitely many tries, and releasing adds none.
LEMMA TriesReleased ==
    ASSUME NEW new, NEW old, IsFiniteSet(DOMAIN old), Released(new, old), NEW j
    PROVE  /\ Cardinality(TriesIn(new, j)) \in Nat /\ Cardinality(TriesIn(old, j)) \in Nat
           /\ Cardinality(TriesIn(new, j)) <= Cardinality(TriesIn(old, j))
<1>1. TriesIn(old, j) \subseteq DOMAIN old /\ TriesIn(new, j) \subseteq TriesIn(old, j)
  BY DEF Released, Shrunk, TriesIn
<1>. QED BY <1>1, FS_Subset, FS_CardinalityType

\* What releases keeps the bound of a table.
LEMMA ReleasedIsBounded ==
    ASSUME NEW new, NEW old, IsFiniteSet(DOMAIN old), Released(new, old), TriesBoundedIn(old)
    PROVE  TriesBoundedIn(new)
<1>. SUFFICES ASSUME NEW j \in JobName, NEW spec \in UNION {JobPosts[k] : k \in JobName},
                     \A other \in JobPosts[j] : other.retries <= spec.retries
              PROVE  Cardinality(TriesIn(new, j)) <= Max({spec.retries + 1, 0})
  BY DEF TriesBoundedIn
<1>1. spec.retries + 1 \in Int
  BY PostsAssumption DEF JobSpecs
<1>2. Max({spec.retries + 1, 0}) \in Nat
  BY <1>1, MaxWithZero
<1>3. Cardinality(TriesIn(old, j)) <= Max({spec.retries + 1, 0})
  BY DEF TriesBoundedIn
<1>. QED BY <1>2, <1>3, TriesReleased

\* Saving an attempt uses the try that was left.
LEMMA SavingIsBounded ==
    ASSUME TypeOK, AllPosted, RetryInv, NEW j \in JobName, SaveAttempt(j)
    PROVE  TriesBoundedIn(assignments')
<1>1. PICK a : SaveAssignment(drawn + 1, a) /\ a.owner = j
  BY DEF SaveAttempt
<1>2. /\ DOMAIN assignments' = DOMAIN assignments \cup {drawn + 1}
      /\ \A i \in DOMAIN assignments : assignments'[i] = assignments[i]
      /\ assignments'[drawn + 1].owner = j
  BY <1>1, SavedTable
<1>. SUFFICES ASSUME NEW k \in JobName, NEW spec \in UNION {JobPosts[m] : m \in JobName},
                     \A other \in JobPosts[k] : other.retries <= spec.retries
              PROVE  Cardinality(TriesIn(assignments', k)) <= Max({spec.retries + 1, 0})
  BY DEF TriesBoundedIn
<1>3. CASE k # j
  <2>1. TriesIn(assignments', k) = TriesIn(assignments, k)
    BY <1>2, <1>3 DEF TriesIn
  <2>. QED BY <2>1 DEF RetryInv, TriesBoundedIn
<1>4. CASE k = j
  <2>1. TriesIn(assignments', j) \subseteq TriesIn(assignments, j) \cup {drawn + 1}
    BY <1>2 DEF TriesIn
  <2>2. IsFiniteSet(TriesIn(assignments, j))
    <3>1. TriesIn(assignments, j) \subseteq DOMAIN assignments
      BY DEF TriesIn
    <3>. QED BY <3>1, TablesAreFinite, FS_Subset
  <2>3. /\ Cardinality(TriesIn(assignments', j)) \in Nat
        /\ Cardinality(TriesIn(assignments, j)) \in Nat
        /\ Cardinality(TriesIn(assignments', j)) <= Cardinality(TriesIn(assignments, j)) + 1
    BY <2>1, <2>2, OneMore
  <2>4. j \in DOMAIN todo /\ Cardinality(TriesIn(assignments, j)) <= todo[j].retries
    BY DEF SaveAttempt, RetryInv, TryLeft, First
  <2>5. todo[j] \in JobPosts[j] /\ todo[j].retries \in Int /\ spec.retries \in Int
    BY <2>4, PostsAssumption DEF SaveAttempt, AllPosted, JobSteps, JobSpecs
  <2>6. todo[j].retries <= spec.retries
    BY <1>4, <2>5
  <2>7. Max({spec.retries + 1, 0}) \in Nat /\ spec.retries + 1 <= Max({spec.retries + 1, 0})
    BY <2>5, MaxWithZero
  <2>. QED BY <1>4, <2>3, <2>4, <2>5, <2>6, <2>7
<1>. QED BY <1>3, <1>4

\* The database and the newest backup stay within the bound.
LEMMA NextBounded ==
    ASSUME TypeOK, AllPosted, RetryInv, [Next]_vars
    PROVE  TriesBoundedIn(assignments') /\ TriesBoundedIn(backup'.assignments)
<1>1. TriesBoundedIn(backup'.assignments)
  BY BackupSteps DEF RetryInv
<1>2. CASE Released(assignments', assignments)
  BY <1>1, <1>2, ReleasedIsBounded, TablesAreFinite DEF RetryInv
<1>3. CASE \E s \in ServiceName : SaveReplica(s)
  <2>1. PICK a : SaveAssignment(drawn + 1, a) /\ a.kind = Service
    BY <1>3 DEF SaveReplica
  <2>2. /\ DOMAIN assignments' = DOMAIN assignments \cup {drawn + 1}
        /\ \A i \in DOMAIN assignments : assignments'[i] = assignments[i]
        /\ assignments'[drawn + 1].kind # Job
    BY <2>1, SavedTable DEF Service, Job
  <2>3. \A j \in JobName : TriesIn(assignments', j) = TriesIn(assignments, j)
    BY <2>2 DEF TriesIn
  <2>. QED BY <1>1, <2>3 DEF RetryInv, TriesBoundedIn
<1>4. CASE \E j \in JobName : SaveAttempt(j)
  BY <1>1, <1>4, SavingIsBounded
<1>5. CASE RestoreIfMissing
  BY <1>1, <1>5 DEF RestoreIfMissing, Load, RetryInv
<1>. QED BY <1>2, <1>3, <1>4, <1>5, AssignmentSteps

\* reconcileJob goes on only with a try left, and none is used up before it saves.
LEMMA NextTryLeft ==
    ASSUME TypeOK, Inv, Inv', RetryInv, [Next]_vars
    PROVE  TryLeft'
<1>1. CASE \E j \in JobName : ReconcileJob(j)
  <2>1. PICK j \in JobName : ReconcileJob(j)
    BY <1>1
  <2>2. UNCHANGED <<assignments, todo>> /\ First(j) /\ pc \in JobSteps
    BY <2>1 DEF ReconcileJob, tables, JobSteps
  <2>. SUFFICES ASSUME pc' = "chooseJobNode", NEW k \in DOMAIN todo, First(k)
                PROVE  Cardinality(TriesIn(assignments, k)) <= todo[k].retries
    BY <2>1, <2>2 DEF TryLeft, ReconcileJob, First
  <2>3. k = j
    BY <2>2, FirstIsUnique
  <2>4. /\ status' = idleStatus(OwnedBy(Job, j))
        /\ ~ outOfRetries(status'.failedAttempts, todo[j].retries)
    BY <2>1 DEF ReconcileJob
  <2>. DEFINE failed == WithPhase(OwnedBy(Job, j), Failed)
  <2>5. ~ (Cardinality(failed) > todo[j].retries)
    BY <2>4 DEF idleStatus, outOfRetries
  <2>6. TriesIn(assignments, j) = failed
    <3>1. \A i \in DOMAIN assignments :
              assignments[i].kind = Job /\ assignments[i].owner = j =>
                  assignments[i].phase \notin {Pending, Running}
      BY <2>2 DEF Inv, NoOtherAttempt, First, AttemptPhases
    <3>. QED BY <3>1 DEF TriesIn, TryPhases, WithPhase, OwnedBy
  <2>7. Cardinality(failed) \in Nat
    <3>1. failed \subseteq DOMAIN assignments
      BY DEF WithPhase, OwnedBy
    <3>. QED BY <3>1, TablesAreFinite, FS_Subset, FS_CardinalityType
  <2>8. todo[j].retries \in Int
    BY <2>2 DEF TypeOK, IsTable, JobSpecs, First
  <2>. QED BY <2>3, <2>5, <2>6, <2>7, <2>8
<1>2. CASE /\ UNCHANGED todo /\ pc \in {"chooseJobNode", "saveAttempt"}
           /\ Released(assignments', assignments)
  <2>. SUFFICES ASSUME NEW j \in DOMAIN todo, First(j)
                PROVE  Cardinality(TriesIn(assignments', j)) <= todo[j].retries
    BY <1>2 DEF TryLeft, First
  <2>1. Cardinality(TriesIn(assignments, j)) <= todo[j].retries
    BY <1>2 DEF RetryInv, TryLeft
  <2>2. todo[j].retries \in Int
    BY <1>2 DEF TypeOK, IsTable, JobSpecs, JobSteps
  <2>. QED BY <1>2, <2>1, <2>2, TriesReleased, TablesAreFinite
<1>3. CASE pc' \notin {"chooseJobNode", "saveAttempt"}
  BY <1>3 DEF TryLeft
<1>4. CASE ReconcileStep
  <2>1. CASE \E j \in JobName : ChooseJobNode(j)
    BY <1>2, <2>1, SameIsReleased DEF ChooseJobNode, tables
  <2>. QED
    BY <1>1, <1>3, <1>4, <2>1
       DEF ReconcileStep, ReconcileBegin, ListLost, ListServices, ListJobs, ReconcileEnd, MarkLost,
           DeleteExcess, ReconcileService, Relist, ScaleUp, SaveReplica, ScaledUp, ListFinal,
           WriteServiceStatus, SaveAttempt, WriteJobStatus
<1>5. CASE HandlerStep \/ Tick \/ Backup \/ UNCHANGED vars
  <2>1. UNCHANGED <<pc, todo, drawn>>
    BY <1>5 DEF HandlerStep, PostService, RemoveService, PostJob, RemoveJob, RegisterNode,
                Heartbeat, ReportStatus, Tick, Backup, vars, pass
  <2>2. CASE pc \in {"chooseJobNode", "saveAttempt"}
    <3>1. Released(assignments', assignments)
      BY <2>1, <2>2, AssignmentSteps DEF SaveReplica, SaveAttempt, RestoreIfMissing
    <3>. QED BY <1>2, <2>1, <2>2, <3>1
  <2>. QED BY <1>3, <2>1, <2>2
<1>6. CASE Crash \/ Restart
  BY <1>3, <1>6 DEF Crash, Restart, Boot, RestoreIfMissing
<1>. QED BY <1>4, <1>5, <1>6 DEF Next

\* No job fails more often than its largest posted retry limit allows, restarts
\* and restores of older databases included.
THEOREM RetriesAreBounded == Spec => []RetriesBounded
<1>1. Init => AllPosted /\ RetryInv
  <2>1. ASSUME Init PROVE TriesBoundedIn(EmptyTable)
    <3>1. \A j : TriesIn(EmptyTable, j) = {}
      BY DEF TriesIn, EmptyTable
    <3>2. \A j : Cardinality(TriesIn(EmptyTable, j)) = 0
      BY <3>1, FS_EmptySet
    <3>3. ASSUME NEW spec \in UNION {JobPosts[k] : k \in JobName}
          PROVE  Max({spec.retries + 1, 0}) \in Nat
      <4>1. spec.retries + 1 \in Int
        BY PostsAssumption DEF JobSpecs
      <4>. QED BY <4>1, MaxWithZero
    <3>. QED BY <3>2, <3>3 DEF TriesBoundedIn
  <2>2. Init => AllPosted /\ TryLeft
    BY DEF Init, AllPosted, PostedIn, TryLeft, EmptyTable, EmptyDatabase, JobSteps
  <2>. QED BY <2>1, <2>2 DEF Init, RetryInv, EmptyDatabase
<1>2. TypeOK /\ Inv /\ Inv' /\ AllPosted /\ RetryInv /\ [Next]_vars => RetryInv'
  BY NextBounded, NextTryLeft DEF RetryInv
<1>3. TypeOK /\ RetryInv => RetriesBounded
  <2>. SUFFICES ASSUME TypeOK, RetryInv, NEW j \in JobName,
                       NEW spec \in UNION {JobPosts[k] : k \in JobName},
                       \A other \in JobPosts[j] : other.retries <= spec.retries
                PROVE  Cardinality(AttemptsOf(j, {Failed})) <= Max({spec.retries + 1, 0})
    BY DEF RetriesBounded
  <2>1. Cardinality(TriesIn(assignments, j)) <= Max({spec.retries + 1, 0})
    BY DEF RetryInv, TriesBoundedIn
  <2>2. AttemptsOf(j, {Failed}) \subseteq TriesIn(assignments, j)
    BY DEF AttemptsOf, TriesIn, TryPhases
  <2>3. TriesIn(assignments, j) \subseteq DOMAIN assignments
    BY DEF TriesIn
  <2>4. /\ Cardinality(AttemptsOf(j, {Failed})) \in Nat
        /\ Cardinality(TriesIn(assignments, j)) \in Nat
        /\ Cardinality(AttemptsOf(j, {Failed})) <= Cardinality(TriesIn(assignments, j))
    <3>1. IsFiniteSet(TriesIn(assignments, j))
      BY <2>3, TablesAreFinite, FS_Subset
    <3>. QED BY <2>2, <3>1, FS_Subset, FS_CardinalityType
  <2>5. Max({spec.retries + 1, 0}) \in Nat
    <3>1. spec.retries + 1 \in Int
      BY PostsAssumption DEF JobSpecs
    <3>. QED BY <3>1, MaxWithZero
  <2>. QED BY <2>1, <2>4, <2>5
<1>. QED BY <1>1, <1>2, <1>3, NextPosted, InvHolds, PTL DEF Spec

--------------------------------------------------------------------------------
(* Capacity *)

\* The capacity a node row holds is one the node registers with.
RegisteredIn(table) ==
    \A n \in DOMAIN table : \E spec \in Registrations[n] : table[n].capacity = spec.capacity

\* No node that always registers the same is committed beyond its capacity.
FitsIn(table) ==
    \A n \in Node : \A spec \in Registrations[n] : Registrations[n] = {spec} =>
        /\ UsedCPU(table, n) <= spec.capacity.cpu
        /\ UsedMemory(table, n) <= spec.capacity.memory

\* While an assignment is about to be saved, what it asks for still fits.
RoomLeft ==
    pc \in {"saveReplica", "saveAttempt"} =>
        \A name \in DOMAIN todo : First(name) =>
            \A n \in target : \A spec \in Registrations[n] : Registrations[n] = {spec} =>
                /\ UsedCPU(assignments, n) + todo[name].resources.cpu <= spec.capacity.cpu
                /\ UsedMemory(assignments, n) + todo[name].resources.memory <= spec.capacity.memory

CapacityInv ==
    /\ RegisteredIn(nodes) /\ RegisteredIn(backup.nodes)
    /\ FitsIn(assignments) /\ FitsIn(backup.assignments)
    /\ RoomLeft

\* A clock tick leaves capacities as they are.
LEMMA AgedIsRegistered ==
    ASSUME NEW table, table \in [DOMAIN table -> NodeRow], RegisteredIn(table)
    PROVE  RegisteredIn(AgedNodes(table))
<1>1. DOMAIN AgedNodes(table) = DOMAIN table
  BY DEF AgedNodes
<1>2. ASSUME NEW n \in DOMAIN table PROVE AgedNodes(table)[n].capacity = table[n].capacity
  <2>1. AgedNodes(table)[n] = [table[n] EXCEPT !.age = Older(@)]
    BY DEF AgedNodes
  <2>2. table[n] \in NodeRow
    OBVIOUS
  <2>. QED BY <2>1, <2>2 DEF NodeRow
<1>. QED BY <1>1, <1>2 DEF RegisteredIn

\* Nothing makes up a capacity.
LEMMA NextRegistered ==
    ASSUME TypeOK, RegisteredIn(nodes), RegisteredIn(backup.nodes), [Next]_vars
    PROVE  RegisteredIn(nodes') /\ RegisteredIn(backup'.nodes)
<1>1. nodes \in [DOMAIN nodes -> NodeRow] /\ backup.nodes \in [DOMAIN backup.nodes -> NodeRow]
  BY DEF TypeOK, IsDatabase, Snapshot, IsTable
<1>2. RegisteredIn(backup'.nodes)
  BY <1>1, AgedIsRegistered, BackupSteps
<1>3. CASE UNCHANGED nodes
  BY <1>2, <1>3
<1>4. CASE Tick
  BY <1>1, <1>2, <1>4, AgedIsRegistered DEF Tick
<1>5. CASE \E n \in Node : RegisterNode(n)
  BY <1>2, <1>5 DEF RegisterNode, UpsertNode, Put, RegisteredIn
<1>6. CASE \E n \in Node : Heartbeat(n)
  <2>1. PICK n \in Node : TouchNode(n)
    BY <1>6 DEF Heartbeat
  <2>2. DOMAIN nodes' = DOMAIN nodes /\ \A m \in DOMAIN nodes : nodes'[m].capacity = nodes[m].capacity
    BY <1>1, <2>1 DEF TouchNode, NodeRow
  <2>. QED BY <1>2, <2>2 DEF RegisteredIn
<1>7. CASE RestoreIfMissing
  BY <1>2, <1>7 DEF RestoreIfMissing, Load
<1>8. CASE ReconcileStep
  BY <1>3, <1>8
     DEF ReconcileStep, ReconcileBegin, ListLost, ListServices, ListJobs, ReconcileEnd, MarkLost,
         DeleteExcess, ReconcileService, Relist, ScaleUp, SaveReplica, ScaledUp, ListFinal,
         WriteServiceStatus, UpdateServiceStatus, UpdateAssignmentStatus, DeleteAssignment,
         SaveAssignment, ReconcileJob, ChooseJobNode, SaveAttempt, WriteJobStatus,
         UpdateJobStatus, tables
<1>9. CASE HandlerStep
  BY <1>3, <1>5, <1>6, <1>9
     DEF HandlerStep, PostService, UpsertService, RemoveService, DeleteService, PostJob, UpsertJob,
         RemoveJob, DeleteJob, ReportStatus, UpdateAssignmentStatus
<1>10. CASE Backup \/ Crash \/ Restart \/ UNCHANGED vars
  BY <1>3, <1>7, <1>10 DEF Backup, Crash, Restart, Boot, vars, tables
<1>. QED BY <1>4, <1>8, <1>9, <1>10 DEF Next

\* The sums over a table of assignments are well defined.
LEMMA TableIsAccountable ==
    ASSUME NEW table, NEW k \in Nat, IsTable(table, 1 .. k, Assignment), NEW n
    PROVE  Accountable(table, n)
<1>1. Occupants(table, n) \subseteq 1 .. k
  BY DEF Occupants, IsTable
<1>2. IsFiniteSet(1 .. k)
  BY FS_Interval
<1>3. IsFiniteSet(Occupants(table, n))
  BY <1>1, <1>2, FS_Subset
<1>4. \A i \in Occupants(table, n) : table[i].resources \in ResourceRequirements
  BY DEF Occupants, IsTable, Assignment
<1>. QED BY <1>3, <1>4 DEF Accountable

\* The assignments have well defined sums, and so they do after a step.
LEMMA AssignmentsAccountable ==
    ASSUME TypeOK, NEW n
    PROVE  Accountable(assignments, n) /\ (TypeOK' => Accountable(assignments', n))
<1>1. drawn \in Nat /\ (TypeOK' => drawn' \in Nat)
  BY PostsAssumption DEF TypeOK
<1>2. IsTable(assignments, 1 .. drawn, Assignment)
  BY DEF TypeOK, IsDatabase, Snapshot, DrawnID
<1>3. TypeOK' => IsTable(assignments', 1 .. drawn', Assignment)
  BY DEF TypeOK, IsDatabase, Snapshot, DrawnID
<1>. QED BY <1>1, <1>2, <1>3, TableIsAccountable

\* Releasing frees room on every node.
LEMMA ReleasedUsesLess ==
    ASSUME NEW new, NEW old, Released(new, old), NEW n, Accountable(new, n), Accountable(old, n)
    PROVE  /\ UsedCPU(new, n) \in Nat /\ UsedCPU(old, n) \in Nat /\ UsedCPU(new, n) <= UsedCPU(old, n)
           /\ UsedMemory(new, n) \in Nat /\ UsedMemory(old, n) \in Nat
           /\ UsedMemory(new, n) <= UsedMemory(old, n)
<1>1. /\ Occupants(new, n) \subseteq Occupants(old, n)
      /\ \A i \in Occupants(new, n) : new[i].resources = old[i].resources
  BY DEF Released, Shrunk, Occupants, IsActivePhase, ActivePhases
<1>. QED BY <1>1, FewerUseLess

\* A registered capacity is a pair of natural numbers.
LEMMA CapacityType ==
    ASSUME NEW n \in Node, NEW spec \in Registrations[n]
    PROVE  spec.capacity.cpu \in Nat /\ spec.capacity.memory \in Nat
BY PostsAssumption DEF NodeSpecs, ResourceRequirements

\* Saving on the target uses the room that was left there.
LEMMA SavingFits ==
    ASSUME TypeOK, TypeOK', FitsIn(assignments), RoomLeft,
           pc \in {"saveReplica", "saveAttempt"}, NEW name \in DOMAIN todo, First(name),
           NEW t \in target, NEW a, SaveAssignment(drawn + 1, a),
           a.node = t, a.phase = Pending, a.resources = todo[name].resources
    PROVE  FitsIn(assignments')
<1>1. /\ DOMAIN assignments' = DOMAIN assignments \cup {drawn + 1}
      /\ drawn + 1 \notin DOMAIN assignments
      /\ \A i \in DOMAIN assignments : assignments'[i] = assignments[i]
      /\ assignments'[drawn + 1] = a
  BY SavedTable
<1>. SUFFICES ASSUME NEW n \in Node, NEW spec \in Registrations[n], Registrations[n] = {spec}
              PROVE  /\ UsedCPU(assignments', n) <= spec.capacity.cpu
                     /\ UsedMemory(assignments', n) <= spec.capacity.memory
  BY DEF FitsIn
<1>2. Accountable(assignments, n) /\ Accountable(assignments', n)
  BY AssignmentsAccountable
<1>3. \A i \in Occupants(assignments, n) : assignments'[i].resources = assignments[i].resources
  BY <1>1 DEF Occupants
<1>4. CASE n = t
  <2>1. /\ Occupants(assignments', n) = Occupants(assignments, n) \cup {drawn + 1}
        /\ drawn + 1 \notin Occupants(assignments, n)
    BY <1>1, <1>4 DEF Occupants, IsActivePhase
  <2>2. /\ UsedCPU(assignments', n) = UsedCPU(assignments, n) + a.resources.cpu
        /\ UsedMemory(assignments', n) = UsedMemory(assignments, n) + a.resources.memory
    BY <1>1, <1>2, <1>3, <2>1, OneMoreUsesMore
  <2>. QED BY <1>4, <2>2 DEF RoomLeft
<1>5. CASE n # t
  <2>1. Occupants(assignments', n) = Occupants(assignments, n)
    BY <1>1, <1>5 DEF Occupants
  <2>2. /\ UsedCPU(assignments', n) \in Nat /\ UsedCPU(assignments, n) \in Nat
        /\ UsedCPU(assignments', n) <= UsedCPU(assignments, n)
        /\ UsedMemory(assignments', n) \in Nat /\ UsedMemory(assignments, n) \in Nat
        /\ UsedMemory(assignments', n) <= UsedMemory(assignments, n)
    BY <1>2, <1>3, <2>1, FewerUseLess
  <2>3. UsedCPU(assignments, n) <= spec.capacity.cpu /\ UsedMemory(assignments, n) <= spec.capacity.memory
    BY DEF FitsIn
  <2>. QED BY <2>2, <2>3, CapacityType
<1>. QED BY <1>4, <1>5

\* The database and the newest backup stay within capacity.
LEMMA NextFits ==
    ASSUME TypeOK, TypeOK', CapacityInv, [Next]_vars
    PROVE  FitsIn(assignments') /\ FitsIn(backup'.assignments)
<1>1. FitsIn(backup'.assignments)
  BY BackupSteps DEF CapacityInv
<1>2. CASE Released(assignments', assignments)
  <2>. SUFFICES ASSUME NEW n \in Node, NEW spec \in Registrations[n], Registrations[n] = {spec}
                PROVE  /\ UsedCPU(assignments', n) <= spec.capacity.cpu
                       /\ UsedMemory(assignments', n) <= spec.capacity.memory
    BY <1>1 DEF FitsIn
  <2>1. Accountable(assignments, n) /\ Accountable(assignments', n)
    BY AssignmentsAccountable
  <2>2. UsedCPU(assignments, n) <= spec.capacity.cpu /\ UsedMemory(assignments, n) <= spec.capacity.memory
    BY DEF CapacityInv, FitsIn
  <2>. QED BY <1>2, <2>1, <2>2, ReleasedUsesLess, CapacityType
<1>3. CASE \E s \in ServiceName : SaveReplica(s)
  <2>1. PICK s \in ServiceName : SaveReplica(s)
    BY <1>3
  <2>2. PICK n \in target : SaveAssignment(drawn + 1,
           [kind |-> Service, owner |-> s, node |-> n,
            resources |-> todo[s].resources, ports |-> todo[s].ports,
            attempt |-> 1, phase |-> Pending, createdAt |-> now])
    BY <2>1 DEF SaveReplica
  <2>3. s \in DOMAIN todo /\ First(s) /\ pc = "saveReplica"
    BY <2>1 DEF SaveReplica, First
  <2>. QED BY <1>1, <2>2, <2>3, SavingFits DEF CapacityInv
<1>4. CASE \E j \in JobName : SaveAttempt(j)
  <2>1. PICK j \in JobName : SaveAttempt(j)
    BY <1>4
  <2>2. PICK n \in target : SaveAssignment(drawn + 1,
           [kind |-> Job, owner |-> j, node |-> n,
            resources |-> todo[j].resources, ports |-> {},
            attempt |-> status.failedAttempts + 1, phase |-> Pending, createdAt |-> now])
    BY <2>1 DEF SaveAttempt
  <2>3. j \in DOMAIN todo /\ First(j) /\ pc = "saveAttempt"
    BY <2>1 DEF SaveAttempt, First
  <2>. QED BY <1>1, <2>2, <2>3, SavingFits DEF CapacityInv
<1>5. CASE RestoreIfMissing
  BY <1>1, <1>5 DEF RestoreIfMissing, Load, CapacityInv
<1>. QED BY <1>2, <1>3, <1>4, <1>5, AssignmentSteps

\* ChooseNode found room on the nodes it returns.
LEMMA ChosenHasRoom ==
    ASSUME TypeOK, RegisteredIn(nodes), pc \in PassSteps, NEW want, want.resources \in ResourceRequirements,
           NEW ports, NEW n \in ChooseFor(want, ports),
           NEW spec \in Registrations[n], Registrations[n] = {spec}
    PROVE  /\ UsedCPU(assignments, n) + want.resources.cpu <= spec.capacity.cpu
           /\ UsedMemory(assignments, n) + want.resources.memory <= spec.capacity.memory
<1>1. n \in Eligible(live, nodes, assignments, want.resources, want.placement, ports)
  BY DEF ChooseFor, ChooseNode
<1>2. n \in live
  BY <1>1 DEF Eligible
<1>3. n \in DOMAIN nodes /\ n \in Node
  BY <1>2 DEF TypeOK, IsDatabase, Snapshot, IsTable
<1>4. nodes[n].capacity = spec.capacity
  BY <1>3 DEF RegisteredIn
<1>5. Fits(spec.capacity, UsedCPU(assignments, n), UsedMemory(assignments, n), want.resources)
  BY <1>1, <1>4 DEF Eligible
<1>6. /\ spec.capacity.cpu - UsedCPU(assignments, n) >= want.resources.cpu
      /\ spec.capacity.memory - UsedMemory(assignments, n) >= want.resources.memory
  BY <1>5 DEF Fits
<1>7. UsedCPU(assignments, n) \in Nat /\ UsedMemory(assignments, n) \in Nat
  BY AssignmentsAccountable, FewerUseLess
<1>8. want.resources.cpu \in Nat /\ want.resources.memory \in Nat
  BY DEF ResourceRequirements
<1>9. spec.capacity.cpu \in Nat /\ spec.capacity.memory \in Nat
  BY <1>3, CapacityType
<1>. QED BY <1>6, <1>7, <1>8, <1>9

\* The room is there when the node is chosen, and handlers only add to it.
LEMMA NextRoomLeft ==
    ASSUME TypeOK, TypeOK', CapacityInv, [Next]_vars
    PROVE  RoomLeft'
<1>1. CASE \E s \in ServiceName : ScaleUp(s)
  <2>1. PICK s \in ServiceName : ScaleUp(s)
    BY <1>1
  <2>2. /\ UNCHANGED <<assignments, todo>> /\ First(s) /\ pc \in ServiceSteps
        /\ target' = ChooseFor(todo[s], todo[s].ports)
    BY <2>1 DEF ScaleUp, tables, ServiceSteps
  <2>3. \A r : First(r) => r = s
    BY <2>2, FirstIsUnique
  <2>4. todo[s].resources \in ResourceRequirements
    BY <2>2 DEF TypeOK, IsTable, StoredServiceSpec, ServiceSpecs, First
  <2>5. pc \in PassSteps
    BY <2>2 DEF PassSteps
  <2>6. \A n \in target' : \A spec \in Registrations[n] : Registrations[n] = {spec} =>
            /\ UsedCPU(assignments, n) + todo[s].resources.cpu <= spec.capacity.cpu
            /\ UsedMemory(assignments, n) + todo[s].resources.memory <= spec.capacity.memory
    BY <2>2, <2>4, <2>5, ChosenHasRoom DEF CapacityInv
  <2>. QED BY <2>2, <2>3, <2>6 DEF RoomLeft, First
<1>2. CASE \E j \in JobName : ChooseJobNode(j)
  <2>1. PICK j \in JobName : ChooseJobNode(j)
    BY <1>2
  <2>2. /\ UNCHANGED <<assignments, todo>> /\ First(j) /\ pc \in JobSteps
        /\ target' = ChooseFor(todo[j], {})
    BY <2>1 DEF ChooseJobNode, tables, JobSteps
  <2>3. \A r : First(r) => r = j
    BY <2>2, FirstIsUnique
  <2>4. todo[j].resources \in ResourceRequirements
    BY <2>2 DEF TypeOK, IsTable, JobSpecs, First
  <2>5. pc \in PassSteps
    BY <2>2 DEF PassSteps
  <2>6. \A n \in target' : \A spec \in Registrations[n] : Registrations[n] = {spec} =>
            /\ UsedCPU(assignments, n) + todo[j].resources.cpu <= spec.capacity.cpu
            /\ UsedMemory(assignments, n) + todo[j].resources.memory <= spec.capacity.memory
    BY <2>2, <2>4, <2>5, ChosenHasRoom DEF CapacityInv
  <2>. QED BY <2>2, <2>3, <2>6 DEF RoomLeft, First
<1>3. CASE pc' \notin {"saveReplica", "saveAttempt"}
  BY <1>3 DEF RoomLeft
<1>4. CASE ReconcileStep
  BY <1>1, <1>2, <1>3, <1>4
     DEF ReconcileStep, ReconcileBegin, ListLost, ListServices, ListJobs, ReconcileEnd, MarkLost,
         DeleteExcess, ReconcileService, Relist, SaveReplica, ScaledUp, ListFinal,
         WriteServiceStatus, ReconcileJob, SaveAttempt, WriteJobStatus
<1>5. CASE HandlerStep \/ Tick \/ Backup \/ UNCHANGED vars
  <2>1. UNCHANGED <<pc, todo, target, drawn>>
    BY <1>5 DEF HandlerStep, PostService, RemoveService, PostJob, RemoveJob, RegisterNode,
                Heartbeat, ReportStatus, Tick, Backup, vars, pass
  <2>2. CASE pc \in {"saveReplica", "saveAttempt"}
    <3>1. Released(assignments', assignments)
      BY <2>1, AssignmentSteps, PostsAssumption
         DEF SaveReplica, SaveAttempt, RestoreIfMissing, TypeOK
    <3>. SUFFICES ASSUME NEW name \in DOMAIN todo, First(name), NEW n \in target,
                         NEW spec \in Registrations[n], Registrations[n] = {spec}
                  PROVE  /\ UsedCPU(assignments', n) + todo[name].resources.cpu <= spec.capacity.cpu
                         /\ UsedMemory(assignments', n) + todo[name].resources.memory
                              <= spec.capacity.memory
      BY <2>1 DEF RoomLeft, First
    <3>2. /\ UsedCPU(assignments, n) + todo[name].resources.cpu <= spec.capacity.cpu
          /\ UsedMemory(assignments, n) + todo[name].resources.memory <= spec.capacity.memory
      BY <2>2 DEF CapacityInv, RoomLeft
    <3>3. /\ UsedCPU(assignments', n) \in Nat /\ UsedCPU(assignments, n) \in Nat
          /\ UsedCPU(assignments', n) <= UsedCPU(assignments, n)
          /\ UsedMemory(assignments', n) \in Nat /\ UsedMemory(assignments, n) \in Nat
          /\ UsedMemory(assignments', n) <= UsedMemory(assignments, n)
      BY <3>1, AssignmentsAccountable, ReleasedUsesLess
    <3>4. todo[name].resources \in ResourceRequirements
      BY <2>2 DEF TypeOK, IsTable, ServiceSteps, JobSteps, StoredServiceSpec, ServiceSpecs, JobSpecs
    <3>5. todo[name].resources.cpu \in Nat /\ todo[name].resources.memory \in Nat
      BY <3>4 DEF ResourceRequirements
    <3>6. n \in Node
      BY <2>2 DEF TypeOK, IsDatabase, Snapshot, IsTable, PassSteps, ServiceSteps, JobSteps
    <3>7. spec.capacity.cpu \in Nat /\ spec.capacity.memory \in Nat
      BY <3>6, CapacityType
    <3>. QED BY <3>2, <3>3, <3>5, <3>7
  <2>. QED BY <1>3, <2>1, <2>2
<1>6. CASE Crash \/ Restart
  BY <1>3, <1>6 DEF Crash, Restart, Boot, RestoreIfMissing
<1>. QED BY <1>4, <1>5, <1>6 DEF Next

\* No node that always registers with the same capacity is ever committed beyond
\* it: what ChooseNode saw in one store call holds in the call that saves.
THEOREM CapacityIsRespected == Spec => []CapacityRespected
<1>1. Init => CapacityInv
  <2>1. ASSUME NEW n PROVE UsedCPU(EmptyTable, n) = 0 /\ UsedMemory(EmptyTable, n) = 0
    <3>1. Occupants(EmptyTable, n) = {}
      BY DEF Occupants, EmptyTable
    <3>2. Accountable(EmptyTable, n)
      BY <3>1, FS_EmptySet DEF Accountable
    <3>3. ASSUME NEW field PROVE Used(EmptyTable, n, field) = 0
      <4>1. Slots(Requested(EmptyTable, n, field), Occupants(EmptyTable, n)) = {}
        BY <3>1 DEF Slots
      <4>. QED BY <4>1, FS_EmptySet DEF Used
    <3>. QED BY <3>2, <3>3, UsedCPUIsCount, UsedMemoryIsCount
  <2>2. FitsIn(EmptyTable)
    BY <2>1, CapacityType DEF FitsIn
  <2>3. RegisteredIn(EmptyTable)
    BY DEF RegisteredIn, EmptyTable
  <2>. QED BY <2>2, <2>3 DEF Init, CapacityInv, RoomLeft, EmptyDatabase
<1>2. TypeOK /\ TypeOK' /\ CapacityInv /\ [Next]_vars => CapacityInv'
  BY NextRegistered, NextFits, NextRoomLeft DEF CapacityInv
<1>3. TypeOK /\ CapacityInv => CapacityRespected
  <2>. SUFFICES ASSUME TypeOK, CapacityInv, NEW n \in DOMAIN nodes,
                       NEW spec \in Registrations[n], Registrations[n] = {spec}
                PROVE  /\ UsedCPU(assignments, n) <= nodes[n].capacity.cpu
                       /\ UsedMemory(assignments, n) <= nodes[n].capacity.memory
    BY DEF CapacityRespected
  <2>1. nodes[n].capacity = spec.capacity
    BY DEF CapacityInv, RegisteredIn
  <2>2. n \in Node
    BY DEF TypeOK, IsDatabase, Snapshot, IsTable
  <2>. QED BY <2>1, <2>2 DEF CapacityInv, FitsIn
<1>. QED BY <1>1, <1>2, <1>3, TypeCorrect, PTL DEF Spec
================================================================================
