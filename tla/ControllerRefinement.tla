-------------------------- MODULE ControllerRefinement --------------------------
(***************************************************************************)
(* Controller implements Lifecycle, for every number of nodes, services,   *)
(* jobs and assignments: each of its steps is a step of one assignment's   *)
(* life, a registration, a snapshot or its restore, or is not seen at all. *)
(* The mapping needs no history: an ID without a row has had one if it was *)
(* drawn, and has none to come, because IDs are never drawn again.  What   *)
(* the proof uses of reachable states is TypeOK.                           *)
(***************************************************************************)
EXTENDS ControllerProofs, ControllerLifecycle

LifeID == 1 .. MaxAssignments
LifePhase == [i \in LifeID |-> PhaseOf(i)]
LifeSaved == [known |-> DOMAIN backup.nodes, phases |-> PhasesIn(backup.assignments)]

\* Rows have drawn IDs, and phases that Lifecycle knows.
LEMMA RowsAreDrawn ==
    ASSUME TypeOK
    PROVE  /\ drawn \in Nat /\ drawn <= MaxAssignments /\ MaxAssignments \in Nat
           /\ DOMAIN assignments \subseteq 1 .. drawn
           /\ DOMAIN backup.assignments \subseteq 1 .. drawn
           /\ \A i \in DOMAIN assignments : assignments[i].phase \in AssignmentPhase
           /\ \A i \in DOMAIN backup.assignments : backup.assignments[i].phase \in AssignmentPhase
BY PostsAssumption DEF TypeOK, IsDatabase, Snapshot, IsTable, DrawnID, Assignment

\* The two modules have the same phases.
LEMMA SamePhases ==
    /\ AssignmentPhase = Abstract!Active \cup Abstract!Terminal
    /\ Abstract!Unassigned \notin AssignmentPhase
    /\ Abstract!Removed \notin AssignmentPhase
    /\ Abstract!Unassigned = "Unassigned" /\ Abstract!Removed = "Removed"
    /\ Abstract!Removed # Abstract!Unassigned
BY DEF AssignmentPhase, Pending, Running, Succeeded, Failed, Stopped, Lost,
       Abstract!Active, Abstract!Terminal, Abstract!Unassigned, Abstract!Removed

\* The rows that Lifecycle sees are those of the table.
LEMMA RowsAreRows ==
    ASSUME TypeOK
    PROVE  Abstract!Rows = DOMAIN assignments
<1>1. DOMAIN assignments \subseteq LifeID
  BY RowsAreDrawn DEF LifeID
<1>2. ASSUME NEW i \in DOMAIN assignments PROVE PhaseOf(i) \in Abstract!Active \cup Abstract!Terminal
  BY RowsAreDrawn, SamePhases DEF PhaseOf
<1>3. ASSUME NEW i \in LifeID, i \notin DOMAIN assignments
      PROVE  PhaseOf(i) \notin Abstract!Active \cup Abstract!Terminal
  BY <1>3, SamePhases DEF PhaseOf
<1>. QED BY <1>1, <1>2, <1>3 DEF Abstract!Rows, LifeID

\* A step that changes neither the phases, the set of nodes nor the backup's is
\* not seen.
LEMMA Unseen ==
    ASSUME DOMAIN nodes' = DOMAIN nodes, assignments' = assignments, drawn' = drawn,
           DOMAIN backup'.nodes = DOMAIN backup.nodes,
           backup'.assignments = backup.assignments
    PROVE  UNCHANGED Abstract!lifecycleVars
BY DEF Abstract!lifecycleVars, PhaseOf, PhasesIn

\* Initially nothing is known, assigned or saved.
LEMMA InitLife == Init => Abstract!LifecycleInit
BY PostsAssumption, SamePhases DEF Init, Abstract!LifecycleInit, EmptyTable, EmptyDatabase, PhaseOf, PhasesIn

\* Reports and Lost marks: an active row takes the phase, another keeps its own.
LEMMA UpdateLife ==
    ASSUME TypeOK, NEW id, NEW p \in AssignmentPhase, UpdateAssignmentStatus(id, p),
           UNCHANGED <<drawn, backup>>
    PROVE  \/ UNCHANGED Abstract!lifecycleVars
           \/ /\ id \in LifeID
              /\ PhaseOf(id) \in Abstract!Active
              /\ LifePhase' = [LifePhase EXCEPT ![id] = p]
              /\ UNCHANGED <<nodes, backup>>
<1>1. UNCHANGED <<nodes, services, jobs>>
  BY DEF UpdateAssignmentStatus
<1>2. CASE id \notin DOMAIN assignments
  BY <1>1, <1>2, Unseen DEF UpdateAssignmentStatus
<1>3. CASE id \in DOMAIN assignments /\ IsTerminalPhase(assignments[id].phase)
  <2>1. assignments' = assignments
    BY <1>3 DEF UpdateAssignmentStatus, applyStatus, TypeOK, IsDatabase, Snapshot, IsTable
  <2>. QED BY <1>1, <2>1, Unseen
<1>4. CASE id \in DOMAIN assignments /\ ~ IsTerminalPhase(assignments[id].phase)
  <2>1. id \in LifeID
    BY <1>4, RowsAreDrawn DEF LifeID
  <2>2. PhaseOf(id) \in Abstract!Active
    BY <1>4, RowsAreDrawn
       DEF PhaseOf, Abstract!Active, AssignmentPhase, IsTerminalPhase, Pending, Running, Succeeded,
           Failed, Stopped, Lost
  <2>3. /\ DOMAIN assignments' = DOMAIN assignments
        /\ assignments'[id].phase = p
        /\ \A i \in DOMAIN assignments \ {id} : assignments'[i] = assignments[i]
    BY <1>4 DEF UpdateAssignmentStatus, applyStatus, TypeOK, IsDatabase, Snapshot, IsTable, Assignment
  <2>4. \A i \in LifeID : PhaseOf(i)' = IF i = id THEN p ELSE PhaseOf(i)
    BY <1>4, <2>3 DEF PhaseOf
  <2>5. LifePhase' = [LifePhase EXCEPT ![id] = p]
    BY <2>4 DEF LifePhase, LifeID
  <2>. QED BY <1>1, <2>1, <2>2, <2>5
<1>. QED BY <1>2, <1>3, <1>4

\* Saving under a fresh ID assigns it.
LEMMA SaveLife ==
    ASSUME TypeOK, NEW a, a.phase = Pending, SaveAssignment(drawn + 1, a), drawn < MaxAssignments,
           drawn' = drawn + 1, UNCHANGED backup
    PROVE  Abstract!LifecycleNext
<1>1. drawn + 1 \in LifeID /\ PhaseOf(drawn + 1) = "Unassigned"
  BY RowsAreDrawn DEF LifeID, PhaseOf
<1>2. \A i \in LifeID : PhaseOf(i)' = IF i = drawn + 1 THEN "Pending" ELSE PhaseOf(i)
  BY RowsAreDrawn DEF SaveAssignment, Put, PhaseOf, Pending, LifeID
<1>3. Abstract!Assign(drawn + 1)
  BY <1>1, <1>2, SamePhases DEF Abstract!Assign, SaveAssignment, LifeID
<1>. QED BY <1>1, <1>3 DEF Abstract!LifecycleNext, LifeID

\* Deleting rows removes them.
LEMMA RemoveLife ==
    ASSUME TypeOK, NEW ids \in SUBSET DOMAIN assignments,
           assignments' = Without(assignments, ids), UNCHANGED <<nodes, drawn, backup>>
    PROVE  Abstract!LifecycleNext
<1>1. \A i \in LifeID : PhaseOf(i)' = IF i \in ids THEN "Removed" ELSE PhaseOf(i)
  BY RowsAreDrawn DEF Without, Restrict, PhaseOf, LifeID
<1>2. Abstract!Remove(ids)
  BY <1>1, SamePhases DEF Abstract!Remove, LifeID
<1>. QED BY <1>2, RowsAreRows DEF Abstract!LifecycleNext

--------------------------------------------------------------------------------
\* An agent's report is one of Lifecycle's, or is ignored.
LEMMA ReportLife ==
    ASSUME TypeOK, NEW n \in Node, NEW id \in DOMAIN assignments, NEW p \in ReportedPhases,
           ReportStatus(n, id, p)
    PROVE  [Abstract!LifecycleNext]_(Abstract!lifecycleVars)
<1>1. p \in AssignmentPhase /\ p \in Abstract!Reportable
  BY PostsAssumption
     DEF ReportStatus, isAgentReportablePhase, Abstract!Reportable, Running, Succeeded, Failed, Stopped
<1>2. UpdateAssignmentStatus(id, p) /\ UNCHANGED <<drawn, backup>>
  BY DEF ReportStatus
<1>3. CASE /\ id \in LifeID /\ PhaseOf(id) \in Abstract!Active
           /\ LifePhase' = [LifePhase EXCEPT ![id] = p] /\ UNCHANGED <<nodes, backup>>
  <2>1. Abstract!Report(id, p)
    BY <1>3 DEF Abstract!Report, LifePhase, LifeID
  <2>. QED BY <1>1, <1>3, <2>1 DEF Abstract!LifecycleNext, LifeID
<1>. QED BY <1>1, <1>2, <1>3, UpdateLife

\* Marking an assignment Lost.
LEMMA LoseLife ==
    ASSUME TypeOK, NEW id \in batch, MarkLost(id)
    PROVE  [Abstract!LifecycleNext]_(Abstract!lifecycleVars)
<1>1. Lost \in AssignmentPhase /\ Lost = "Lost"
  BY DEF AssignmentPhase, Lost
<1>2. UpdateAssignmentStatus(id, Lost) /\ UNCHANGED <<drawn, backup>>
  BY DEF MarkLost
<1>3. CASE /\ id \in LifeID /\ PhaseOf(id) \in Abstract!Active
           /\ LifePhase' = [LifePhase EXCEPT ![id] = Lost] /\ UNCHANGED <<nodes, backup>>
  <2>1. Abstract!Lose(id)
    BY <1>1, <1>3 DEF Abstract!Lose, LifePhase, LifeID
  <2>. QED BY <1>3, <2>1 DEF Abstract!LifecycleNext, LifeID
<1>. QED BY <1>1, <1>2, <1>3, UpdateLife

\* The steps of the loop.
LEMMA ReconcileLife ==
    ASSUME TypeOK, ReconcileStep
    PROVE  [Abstract!LifecycleNext]_(Abstract!lifecycleVars)
<1>1. CASE \E i \in batch : MarkLost(i)
  BY <1>1, LoseLife
<1>2. CASE \E i \in batch : DeleteExcess(i)
  <2>1. PICK i \in batch : DeleteExcess(i)
    BY <1>2
  <2>2. Without(assignments, {i}) = Without(assignments, {i} \cap DOMAIN assignments)
    BY DEF Without, Restrict
  <2>. QED BY <2>1, <2>2, RemoveLife DEF DeleteExcess, DeleteAssignment
<1>3. CASE \E s \in ServiceName : SaveReplica(s)
  <2>1. PICK s \in ServiceName : SaveReplica(s)
    BY <1>3
  <2>2. PICK n \in target : SaveAssignment(drawn + 1,
           [kind |-> Service, owner |-> s, node |-> n,
            resources |-> todo[s].resources, ports |-> todo[s].ports,
            attempt |-> 1, phase |-> Pending, createdAt |-> now])
    BY <2>1 DEF SaveReplica
  <2>3. drawn < MaxAssignments /\ drawn' = drawn + 1 /\ UNCHANGED backup
    BY <2>1, <2>2 DEF SaveReplica, TypeOK
  <2>. QED BY <2>2, <2>3, SaveLife
<1>4. CASE \E j \in JobName : SaveAttempt(j)
  <2>1. PICK j \in JobName : SaveAttempt(j)
    BY <1>4
  <2>2. PICK n \in target : SaveAssignment(drawn + 1,
           [kind |-> Job, owner |-> j, node |-> n,
            resources |-> todo[j].resources, ports |-> {},
            attempt |-> status.failedAttempts + 1, phase |-> Pending, createdAt |-> now])
    BY <2>1 DEF SaveAttempt
  <2>3. drawn < MaxAssignments /\ drawn' = drawn + 1 /\ UNCHANGED backup
    BY <2>1, <2>2 DEF SaveAttempt, TypeOK
  <2>. QED BY <2>2, <2>3, SaveLife
<1>5. CASE UNCHANGED <<nodes, assignments, drawn, backup>>
  BY <1>5, Unseen
<1>. QED BY <1>1, <1>2, <1>3, <1>4, <1>5
       DEF ReconcileStep, ReconcileBegin, ListLost, ListServices, ListJobs, ReconcileEnd,
           ReconcileService, Relist, ScaleUp, ScaledUp, ListFinal, WriteServiceStatus,
           UpdateServiceStatus, ReconcileJob, ChooseJobNode, WriteJobStatus, UpdateJobStatus, tables

\* The handlers.
LEMMA HandlerLife ==
    ASSUME TypeOK, HandlerStep
    PROVE  [Abstract!LifecycleNext]_(Abstract!lifecycleVars)
<1>1. CASE \E n \in Node : RegisterNode(n)
  <2>1. PICK n \in Node : RegisterNode(n)
    BY <1>1
  <2>2. Abstract!Register(n)
    BY <2>1 DEF RegisterNode, UpsertNode, Put, Abstract!Register, PhaseOf
  <2>. QED BY <2>2 DEF Abstract!LifecycleNext
<1>2. CASE \E n \in Node : Heartbeat(n)
  BY <1>2, Unseen DEF Heartbeat, TouchNode
<1>3. CASE \E s \in ServiceName : RemoveService(s)
  BY <1>3, RemoveLife DEF RemoveService, DeleteService, OwnedBy
<1>4. CASE \E j \in JobName : RemoveJob(j)
  BY <1>4, RemoveLife DEF RemoveJob, DeleteJob, OwnedBy
<1>5. CASE \E s \in ServiceName : PostService(s)
  BY <1>5, Unseen DEF PostService, UpsertService
<1>6. CASE \E j \in JobName : PostJob(j)
  BY <1>6, Unseen DEF PostJob, UpsertJob
<1>7. CASE \E n \in Node, id \in DOMAIN assignments, p \in ReportedPhases : ReportStatus(n, id, p)
  BY <1>7, ReportLife
<1>. QED BY <1>1, <1>2, <1>3, <1>4, <1>5, <1>6, <1>7 DEF HandlerStep

\* The clock, backups, crashes and restarts.
LEMMA SystemLife ==
    ASSUME TypeOK, Tick \/ Backup \/ Crash \/ Restart
    PROVE  [Abstract!LifecycleNext]_(Abstract!lifecycleVars)
<1>1. CASE Tick
  <2>1. /\ DOMAIN nodes' = DOMAIN nodes /\ UNCHANGED <<assignments, drawn>>
        /\ DOMAIN backup'.nodes = DOMAIN backup.nodes
        /\ backup'.assignments = backup.assignments
    BY <1>1 DEF Tick, AgedNodes, TypeOK, IsDatabase
  <2>. QED BY <2>1, Unseen
<1>2. CASE Backup
  <2>1. /\ DOMAIN backup'.nodes = DOMAIN nodes /\ backup'.assignments = assignments
        /\ UNCHANGED <<nodes, assignments, drawn>>
    BY <1>2 DEF Backup, Snapshot, tables
  <2>2. PhasesIn(assignments) = [i \in Abstract!Rows |-> LifePhase[i]]
    BY RowsAreRows, RowsAreDrawn DEF PhasesIn, LifePhase, LifeID, PhaseOf
  <2>3. Abstract!TakeSnapshot
    BY <2>1, <2>2 DEF Abstract!TakeSnapshot, PhasesIn, LifePhase, LifeID, PhaseOf
  <2>. QED BY <2>3 DEF Abstract!LifecycleNext
<1>3. CASE Crash \/ Boot
  BY <1>3, Unseen DEF Crash, Boot, tables
<1>4. CASE RestoreIfMissing
  <2>1. /\ nodes' = backup.nodes /\ assignments' = backup.assignments
        /\ UNCHANGED <<drawn, backup>>
    BY <1>4 DEF RestoreIfMissing, Load
  <2>2. \A i \in LifeID : PhaseOf(i) = "Unassigned" <=> i > drawn
    BY RowsAreDrawn, SamePhases DEF PhaseOf, LifeID
  <2>3. \A i \in LifeID : PhaseOf(i)' =
           IF i \in DOMAIN backup.assignments THEN PhasesIn(backup.assignments)[i]
           ELSE IF PhaseOf(i) = "Unassigned" THEN "Unassigned" ELSE "Removed"
    BY <2>1, <2>2, RowsAreDrawn DEF PhaseOf, PhasesIn, LifeID
  <2>4. DOMAIN PhasesIn(backup.assignments) = DOMAIN backup.assignments
    BY DEF PhasesIn
  <2>5. Abstract!RestoreSnapshot
    BY <2>1, <2>3, <2>4, SamePhases DEF Abstract!RestoreSnapshot, LifeID
  <2>. QED BY <2>5 DEF Abstract!LifecycleNext
<1>. QED BY <1>1, <1>2, <1>3, <1>4 DEF Restart

\* Every behaviour of the control plane, its handlers, its crashes and restores
\* included, is a behaviour of Lifecycle: no step of a pass that works from stale
\* lists reuses an ID, leaves a terminal phase or brings back a removed row.
THEOREM ControllerImplementsLifecycle == Spec => ImplementsLifecycle
<1>1. Init => Abstract!LifecycleInit
  BY InitLife
<1>2. TypeOK /\ [Next]_vars => [Abstract!LifecycleNext]_(Abstract!lifecycleVars)
  <2>1. TypeOK /\ UNCHANGED vars => UNCHANGED Abstract!lifecycleVars
    BY Unseen DEF vars, tables
  <2>. QED BY <2>1, ReconcileLife, HandlerLife, SystemLife DEF Next
<1>. QED BY <1>1, <1>2, TypeCorrect, PTL DEF Spec, ImplementsLifecycle, Abstract!LifecycleSpec
================================================================================
