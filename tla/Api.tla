---------------------------------- MODULE Api ----------------------------------
(***************************************************************************)
(* The objects of package internal/api, reduced to the fields the control  *)
(* plane decides on.  Images, commands, environments, volumes, messages    *)
(* and the started/finished times are carried along by the code and never  *)
(* inspected, so they are left out.                                        *)
(*                                                                         *)
(* Node, service and job names are numbered in their sort order, since the *)
(* code lists and compares them as strings; a port list is the set of its  *)
(* ports; a label map is a function whose domain is its keys.              *)
(***************************************************************************)
EXTENDS Integers, FiniteSets

CONSTANTS
    Node,         \* node IDs
    ServiceName,  \* service names
    JobName,      \* job names
    Label,        \* label maps: node labels and required labels
    Port          \* host ports

ASSUME NamesAssumption ==
    /\ Node \subseteq Nat
    /\ ServiceName \subseteq Nat
    /\ JobName \subseteq Nat

\* WorkloadKind
Service == "service"
Job == "job"
WorkloadKind == {Service, Job}

\* AssignmentPhase
Pending == "Pending"
Running == "Running"
Succeeded == "Succeeded"
Failed == "Failed"
Stopped == "Stopped"
Lost == "Lost"
AssignmentPhase == {Pending, Running, Succeeded, Failed, Stopped, Lost}

IsTerminalPhase(phase) == phase \in {Succeeded, Failed, Stopped, Lost}

IsActivePhase(phase) == phase \in {Pending, Running}

\* Go's int may be negative and the API does not reject that; the model's
\* requests and capacities are the non-negative ones.
ResourceRequirements == [cpu : Nat, memory : Nat]

\* What a client posts and a reconcile pass reads of a service or a job.
ServiceSpecs ==
    [replicas : Int, resources : ResourceRequirements, placement : Label, ports : SUBSET Port]

JobSpecs ==
    [retries : Int, resources : ResourceRequirements, placement : Label]

NodeSpecs == [labels : Label, capacity : ResourceRequirements]

\* Assignment IDs are numbered in the order they are drawn.
AssignmentID == Nat \ {0}

\* AssignmentIDs is pending \cup running, the replica counts are their sizes.
ServiceStatus ==
    [desired : Int, pending : SUBSET AssignmentID, running : SUBSET AssignmentID]

\* ActiveAssignmentID and LastAssignmentID are sets: {} for the empty string.
JobStatus ==
    [succeeded : BOOLEAN, failedAttempts : Nat,
     active : SUBSET AssignmentID, last : SUBSET AssignmentID]

Assignment ==
    [kind : WorkloadKind, owner : Nat, node : Node,
     resources : ResourceRequirements, ports : SUBSET Port,
     attempt : Nat, phase : AssignmentPhase, createdAt : Nat]
================================================================================
