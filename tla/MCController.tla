------------------------------ MODULE MCController ------------------------------
(***************************************************************************)
(* Small instances of Controller for TLC.                                  *)
(***************************************************************************)
EXTENDS ControllerLifecycle

\* Label maps: none, and one key.
NoLabels == [k \in {} |-> ""]
Edge == [k \in {"zone"} |-> "edge"]
MCLabel == {NoLabels, Edge}

Amount(cpu, memory) == [cpu |-> cpu, memory |-> memory]
Machine(labels, cpu, memory) == [labels |-> labels, capacity |-> Amount(cpu, memory)]
Web(replicas, ports) ==
    [replicas |-> replicas, resources |-> Amount(1, 1), placement |-> NoLabels, ports |-> ports]
Task(retries) == [retries |-> retries, resources |-> Amount(1, 1), placement |-> NoLabels]

\* Specifications without some of the disturbances.
SteadyNext == ReconcileStep \/ HandlerStep \/ Tick
SteadySpec == Init /\ [][SteadyNext]_vars

SteadyFairSpec == SteadySpec /\ WF_vars(ReconcileStep) /\ WF_vars(Tick)

\* A service scaled up and down beside one whose replicas want the same port, on a
\* node that runs out of memory first.
ScaleRegistrations == [n \in Node |-> {Machine(NoLabels, 3, 2)}]
ScaleServices ==
    [s \in ServiceName |-> IF s = 1 THEN {Web(0, {}), Web(2, {})} ELSE {Web(2, {80})}]

\* A job over two nodes that hold one attempt each.
JobRegistrations == [n \in Node |-> {Machine(NoLabels, 1, 1)}]
Tasks == [j \in JobName |-> {Task(1)}]
NoServices == [s \in ServiceName |-> {}]

\* A replica that needs a label the node may register with or without.
EdgeRegistrations == [n \in Node |-> {Machine(NoLabels, 1, 1), Machine(Edge, 1, 1)}]
EdgeServices == [s \in ServiceName |-> {[Web(1, {80}) EXCEPT !.placement = Edge]}]

\* A replica with a port, on nodes with room for more.
PortRegistrations == [n \in Node |-> {Machine(NoLabels, 2, 2)}]
OneReplica == [s \in ServiceName |-> {Web(1, {80})}]

NoJobs == [j \in JobName |-> {}]
================================================================================
