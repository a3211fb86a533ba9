--------------------------------- MODULE Store ---------------------------------
(***************************************************************************)
(* Package internal/store: the four tables of the state database and the   *)
(* operations of the Store interface that change them.  SQLiteStore uses   *)
(* one connection and runs each operation as one statement or one          *)
(* transaction, MemoryStore holds its mutex for the whole of each, so      *)
(* every operation is one atomic step.                                     *)
(*                                                                         *)
(* A table is a function whose domain is the set of keys present.  A node  *)
(* row holds the age of its last heartbeat instead of its time: only ages  *)
(* are compared, always with NodeTimeout, so they stop at NodeTimeout + 1. *)
(***************************************************************************)
EXTENDS Scheduler

CONSTANTS
    NodeTimeout   \* the -node-timeout flag, in clock ticks

ASSUME NodeTimeoutAssumption == NodeTimeout \in Nat

VARIABLES
    nodes,        \* node ID -> labels, capacity, age of the last heartbeat
    services,     \* service name -> spec, status
    jobs,         \* job name -> spec, status
    assignments   \* assignment ID -> assignment

tables == <<nodes, services, jobs, assignments>>

EmptyTable == [k \in {} |-> 0]

Put(table, key, row) ==
    [k \in DOMAIN table \cup {key} |-> IF k = key THEN row ELSE table[k]]

Without(table, keys) == Restrict(table, DOMAIN table \ keys)

\* Any age beyond the timeout is as good as any other.
Stale == NodeTimeout + 1
Older(age) == IF age < Stale THEN age + 1 ELSE age

--------------------------------------------------------------------------------
\* Nodes

UpsertNode(n, spec) ==
    /\ nodes' = Put(nodes, n, [labels |-> spec.labels, capacity |-> spec.capacity, age |-> 0])
    /\ UNCHANGED <<services, jobs, assignments>>

TouchNode(n) ==
    /\ n \in DOMAIN nodes
    /\ nodes' = [nodes EXCEPT ![n].age = 0]
    /\ UNCHANGED <<services, jobs, assignments>>

--------------------------------------------------------------------------------
\* The assignments ListAssignmentsForOwner returns.
OwnedBy(kind, name) ==
    {i \in DOMAIN assignments : assignments[i].kind = kind /\ assignments[i].owner = name}

\* Services

UpsertService(s, spec) ==
    /\ services' = Put(services, s,
           [spec |-> spec, status |-> [desired |-> spec.replicas, pending |-> {}, running |-> {}]])
    /\ UNCHANGED <<nodes, jobs, assignments>>

UpdateServiceStatus(s, status) ==
    /\ services' = IF s \in DOMAIN services THEN [services EXCEPT ![s].status = status] ELSE services
    /\ UNCHANGED <<nodes, jobs, assignments>>

\* deleteOwner: the row and everything it owns go in one transaction.
DeleteService(s) ==
    /\ s \in DOMAIN services
    /\ services' = Without(services, {s})
    /\ assignments' = Without(assignments, OwnedBy(Service, s))
    /\ UNCHANGED <<nodes, jobs>>

--------------------------------------------------------------------------------
\* Jobs

NoJobStatus == [succeeded |-> FALSE, failedAttempts |-> 0, active |-> {}, last |-> {}]

UpsertJob(j, spec) ==
    /\ jobs' = Put(jobs, j, [spec |-> spec, status |-> NoJobStatus])
    /\ UNCHANGED <<nodes, services, assignments>>

UpdateJobStatus(j, status) ==
    /\ jobs' = IF j \in DOMAIN jobs THEN [jobs EXCEPT ![j].status = status] ELSE jobs
    /\ UNCHANGED <<nodes, services, assignments>>

DeleteJob(j) ==
    /\ j \in DOMAIN jobs
    /\ jobs' = Without(jobs, {j})
    /\ assignments' = Without(assignments, OwnedBy(Job, j))
    /\ UNCHANGED <<nodes, services>>

--------------------------------------------------------------------------------
\* Assignments

\* Slip: a late report overwrites a terminal phase.
applyStatusAlways(assignment, phase) == [assignment EXCEPT !.phase = phase]

\* Terminal phases are final; anything else takes the reported phase.
applyStatus(assignment, phase) ==
    IF IsTerminalPhase(assignment.phase)
    THEN assignment
    ELSE [assignment EXCEPT !.phase = phase]

SaveAssignment(id, assignment) ==
    /\ assignments' = Put(assignments, id, assignment)
    /\ UNCHANGED <<nodes, services, jobs>>

DeleteAssignment(id) ==
    /\ assignments' = Without(assignments, {id})
    /\ UNCHANGED <<nodes, services, jobs>>

UpdateAssignmentStatus(id, phase) ==
    /\ assignments' = IF id \in DOMAIN assignments
                      THEN [assignments EXCEPT ![id] = applyStatus(@, phase)]
                      ELSE assignments
    /\ UNCHANGED <<nodes, services, jobs>>

--------------------------------------------------------------------------------
\* What a snapshot of the database holds, and putting one in its place.
Snapshot == [nodes |-> nodes, services |-> services, jobs |-> jobs, assignments |-> assignments]

EmptyDatabase ==
    [nodes |-> EmptyTable, services |-> EmptyTable, jobs |-> EmptyTable, assignments |-> EmptyTable]

Load(database) ==
    /\ nodes' = database.nodes
    /\ services' = database.services
    /\ jobs' = database.jobs
    /\ assignments' = database.assignments

\* One tick of the clock, seen by a node table.
AgedNodes(table) == [n \in DOMAIN table |-> [table[n] EXCEPT !.age = Older(@)]]
================================================================================
