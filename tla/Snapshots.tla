------------------------------- MODULE Snapshots -------------------------------
(***************************************************************************)
(* What backups promise, whatever files and crashes there are: a snapshot  *)
(* is some state the database was in, the last one that was completed is   *)
(* the one on offer, and a lost database is replaced by what is on offer   *)
(* or, when nothing is, by an empty one.  A power loss may take offers     *)
(* back, as far as the last one that is durable.  Controller's Backup and  *)
(* RestoreIfMissing rely on this; Backups implements it.                   *)
(***************************************************************************)
EXTENDS Naturals

CONSTANTS Missing   \* no database, no snapshot

Empty == 0          \* the state of a database that was just created

VARIABLES
    state,    \* the state of the database: a number, or Missing
    taken,    \* the snapshot that is being completed
    offered,  \* the snapshot a lost database is replaced by
    durable   \* the last that was offered and that a power loss cannot take back

snapshotVars == <<state, taken, offered, durable>>

SnapshotsInit == state = Missing /\ taken = Missing /\ offered = Missing /\ durable = Missing

Change ==
    /\ state # Missing
    /\ state' \in Nat
    /\ UNCHANGED <<taken, offered, durable>>

Take ==
    /\ state # Missing
    /\ taken' = state
    /\ UNCHANGED <<state, offered, durable>>

Offer ==
    /\ taken # Missing
    /\ offered' = taken
    /\ taken' = Missing
    /\ UNCHANGED <<state, durable>>

Abandon ==
    /\ taken' = Missing
    /\ UNCHANGED <<state, offered, durable>>

Lose ==
    /\ state' = Missing
    /\ UNCHANGED <<taken, offered, durable>>

Settle ==
    /\ durable' = offered
    /\ UNCHANGED <<state, taken, offered>>

\* Of a database that was just replaced the power loss may leave nothing.
Recede ==
    /\ offered' = durable
    /\ taken' = Missing
    /\ state' \in {state, Missing}
    /\ UNCHANGED durable

Replace ==
    /\ state = Missing
    /\ state' = IF offered = Missing THEN Empty ELSE offered
    /\ UNCHANGED <<taken, offered, durable>>

SnapshotsNext == Change \/ Take \/ Offer \/ Abandon \/ Lose \/ Settle \/ Recede \/ Replace

SnapshotsSpec == SnapshotsInit /\ [][SnapshotsNext]_snapshotVars
================================================================================
