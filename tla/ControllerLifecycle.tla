-------------------------- MODULE ControllerLifecycle --------------------------
(***************************************************************************)
(* Controller implements Lifecycle: the tables and the loop are forgotten  *)
(* but for the phases of the assignments and the names of the nodes.       *)
(***************************************************************************)
EXTENDS Controller

PhasesIn(table) == [i \in DOMAIN table |-> table[i].phase]

PhaseOf(i) ==
    IF i \in DOMAIN assignments THEN assignments[i].phase
    ELSE IF i <= drawn THEN "Removed" ELSE "Unassigned"

Abstract == INSTANCE Lifecycle WITH
    NodeID <- Node,
    ID <- 1 .. MaxAssignments,
    known <- DOMAIN nodes,
    phase <- [i \in 1 .. MaxAssignments |-> PhaseOf(i)],
    saved <- [known |-> DOMAIN backup.nodes, phases |-> PhasesIn(backup.assignments)]

\* Every step of the loop and of the handlers is one step of an assignment's
\* life, as the agents are promised it, or changes nothing they see: stale lists
\* make no step reuse an ID, leave a terminal phase or bring back a removed row.
ImplementsLifecycle == Abstract!LifecycleSpec
================================================================================
