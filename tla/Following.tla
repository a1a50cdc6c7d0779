------------------------------- MODULE Following -------------------------------
(***************************************************************************)
(* The store and the replica of Migration, with the states the store has   *)
(* been in: what the database no longer has, but a reader of the replica   *)
(* has to be told from.  history changes nothing else.                     *)
(***************************************************************************)
EXTENDS Migration

VARIABLE history    \* the store's tables as they were after each commit

tracedVars == <<migrationVars, history>>

TracedInit == MigrationInit /\ history = <<>>

TracedNext ==
    /\ MigrationNext
    /\ history' = IF feed' = feed THEN history ELSE Append(history, Here')

TracedSpec == TracedInit /\ [][TracedNext]_tracedVars

--------------------------------------------------------------------------------
(* The tables of a store that has nothing.                                 *)
EmptyTables ==
    [source |-> [s \in Source |-> "absent"], validFrom |-> [s \in Source |-> Open],
     recordedAt |-> [s \in Source |-> Open], claim |-> [s \in Source |-> NoRow],
     supports |-> [c \in Source |-> {}], contradicts |-> [c \in Source |-> {}],
     corrects |-> [c \in Source |-> NoClaim], profile |-> [k \in Key |-> NoClaim],
     profileAt |-> [k \in Key |-> Open], entry |-> [k \in Key |-> 0],
     review |-> [r \in Review |-> {}]]

(* A file publishes nothing before it is migrated.                         *)
Published == IF version = CurrentVersion THEN Here ELSE EmptyTables

(* The replica is at every moment in a state the store was in after one of *)
(* its commits, the one its cursor says, and only moves to later ones: no  *)
(* batch leaves it between two commits, or takes it back by what it brings *)
(* again; and the store changes with its commits only.                     *)
Store == INSTANCE Follower WITH
    Blank <- EmptyTables,
    place <- applied,
    leader <- Published,
    follower <- mirror

FollowsTheStore == Store!FollowerSpec
================================================================================
