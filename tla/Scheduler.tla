------------------------------- MODULE Scheduler -------------------------------
(***************************************************************************)
(* Package internal/scheduler: first-fit placement of one assignment.      *)
(*                                                                         *)
(* Every operator takes the assignment table, a function from assignment   *)
(* IDs to assignments, and the node table, a function from node IDs to     *)
(* rows with labels and a capacity.  The caller passes the set of nodes    *)
(* whose heartbeat is recent enough at the pass's time: ChooseNode's own   *)
(* filter and the controller's liveNodeSet are the same comparison.        *)
(***************************************************************************)
EXTENDS Api, FiniteSetsExt

\* A key that is missing from a Go map reads as the empty string.
LabelOf(labels, key) == IF key \in DOMAIN labels THEN labels[key] ELSE ""

MatchesPlacement(labels, required) ==
    \A key \in DOMAIN required : LabelOf(labels, key) = required[key]

PortsClash(used, wanted) == used \cap wanted # {}

\* Definitions marked "Slip" are mistakes a maintainer could make; each stands
\* in for the definition below it to show that some property notices.
\* Slip: replicas that have not started yet hold nothing.
OccupantsRunningOnly(assignments, n) ==
    {i \in DOMAIN assignments : assignments[i].node = n /\ assignments[i].phase = Running}

\* The assignments that use resources and ports of node n.
Occupants(assignments, n) ==
    {i \in DOMAIN assignments : assignments[i].node = n /\ IsActivePhase(assignments[i].phase)}

UsedCPU(assignments, n) ==
    MapThenSumSet(LAMBDA i : assignments[i].resources.cpu, Occupants(assignments, n))

UsedMemory(assignments, n) ==
    MapThenSumSet(LAMBDA i : assignments[i].resources.memory, Occupants(assignments, n))

UsedPorts(assignments, n) ==
    UNION {assignments[i].ports : i \in Occupants(assignments, n)}

\* Slip: memory is not checked.
FitsCPUOnly(capacity, cpu, memory, req) == capacity.cpu - cpu >= req.cpu

\* What is left of the capacity covers the request.
Fits(capacity, cpu, memory, req) ==
    /\ capacity.cpu - cpu >= req.cpu
    /\ capacity.memory - memory >= req.memory

Eligible(live, nodes, assignments, req, placement, ports) ==
    {n \in live :
        /\ MatchesPlacement(nodes[n].labels, placement)
        /\ Fits(nodes[n].capacity, UsedCPU(assignments, n), UsedMemory(assignments, n), req)
        /\ ~ PortsClash(UsedPorts(assignments, n), ports)}

\* The eligible node with the least ID, as a set: {} is ErrNoEligibleNode.
ChooseNode(live, nodes, assignments, req, placement, ports) ==
    LET eligible == Eligible(live, nodes, assignments, req, placement, ports)
    IN  {n \in eligible : \A m \in eligible : n <= m}
================================================================================
