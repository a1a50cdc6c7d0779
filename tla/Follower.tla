-------------------------------- MODULE Follower --------------------------------
(***************************************************************************)
(* What a replica of an append-only feed promises its readers, with nothing*)
(* of records, ledgers or batches: it is always in a state the store       *)
(* itself was in, never in a mixture of two, and it only moves towards     *)
(* later ones.  Replication keeps no such history; Migration gives one to  *)
(* its feed, and is checked and proved to implement this module.           *)
(***************************************************************************)
EXTENDS Naturals, Sequences

CONSTANT Blank      \* the state a store begins in

VARIABLES
    history,    \* the states the leader has published, in order
    place,      \* how many of them the follower has gone through
    leader,     \* the state the leader is in
    follower    \* the state the follower is in

followerVars == <<history, place, leader, follower>>

Passed(n) == IF n = 0 THEN Blank ELSE history[n]

FollowerInit ==
    /\ history = <<>>
    /\ place = 0
    /\ leader = Blank
    /\ follower = Blank

(* The leader goes into a state, and that is the next one to follow.       *)
Lead ==
    /\ UNCHANGED <<place, follower>>
    /\ history' = Append(history, leader')

(* The follower goes to where it was told to, but not back.                *)
CatchUp ==
    /\ UNCHANGED <<leader, history>>
    /\ place' \in place .. Len(history)
    /\ follower' = Passed(place')

FollowerSpec == FollowerInit /\ [][Lead \/ CatchUp]_followerVars
================================================================================
