------------------------------- MODULE Lifecycle -------------------------------
(***************************************************************************)
(* What the control plane promises the nodes about assignments, whatever   *)
(* its loop and handlers do inside: an ID is assigned once, moves among    *)
(* the active phases, ends in a terminal one for good, and is removed for  *)
(* good.  Only restoring an older snapshot takes any of this back, and     *)
(* even then an ID whose row is not in the snapshot never comes to life.   *)
(*                                                                         *)
(* Controller implements this specification (ControllerLifecycle); Agent   *)
(* runs against it.                                                        *)
(***************************************************************************)
EXTENDS Integers

CONSTANTS
    NodeID,   \* nodes that may be registered
    ID        \* assignment IDs

VARIABLES
    known,    \* nodes with a row in the node table
    phase,    \* ID -> phase, Unassigned before and Removed after its row exists
    saved     \* the newest snapshot: known nodes and the phases of its rows

lifecycleVars == <<known, phase, saved>>

Unassigned == "Unassigned"
Removed == "Removed"
Active == {"Pending", "Running"}
Terminal == {"Succeeded", "Failed", "Stopped", "Lost"}
Reportable == {"Running", "Succeeded", "Failed", "Stopped"}

Rows == {i \in ID : phase[i] \in Active \cup Terminal}

LifecycleInit ==
    /\ known = {}
    /\ phase = [i \in ID |-> Unassigned]
    /\ saved = [known |-> {}, phases |-> [i \in {} |-> Unassigned]]

Register(n) ==
    /\ known' = known \cup {n}
    /\ UNCHANGED <<phase, saved>>

Assign(i) ==
    /\ phase[i] = Unassigned
    /\ phase' = [phase EXCEPT ![i] = "Pending"]
    /\ UNCHANGED <<known, saved>>

\* A report is applied to an active assignment and ignored otherwise.
Report(i, reported) ==
    /\ phase' = IF phase[i] \in Active THEN [phase EXCEPT ![i] = reported] ELSE phase
    /\ UNCHANGED <<known, saved>>

Lose(i) ==
    /\ phase[i] \in Active
    /\ phase' = [phase EXCEPT ![i] = "Lost"]
    /\ UNCHANGED <<known, saved>>

Remove(ids) ==
    /\ phase' = [i \in ID |-> IF i \in ids THEN Removed ELSE phase[i]]
    /\ UNCHANGED <<known, saved>>

TakeSnapshot ==
    /\ saved' = [known |-> known, phases |-> [i \in Rows |-> phase[i]]]
    /\ UNCHANGED <<known, phase>>

RestoreSnapshot ==
    /\ known' = saved.known
    /\ phase' = [i \in ID |->
           IF i \in DOMAIN saved.phases THEN saved.phases[i]
           ELSE IF phase[i] = Unassigned THEN Unassigned ELSE Removed]
    /\ UNCHANGED saved

LifecycleNext ==
    \/ \E n \in NodeID : Register(n)
    \/ \E i \in ID : Assign(i) \/ Lose(i) \/ \E reported \in Reportable : Report(i, reported)
    \/ \E ids \in SUBSET Rows : Remove(ids)
    \/ TakeSnapshot
    \/ RestoreSnapshot

LifecycleSpec == LifecycleInit /\ [][LifecycleNext]_lifecycleVars
================================================================================
