----------------------------- MODULE MCHermesQueue -----------------------------
(***************************************************************************)
(* Finite instances of HermesQueue for TLC: two providers that share a     *)
(* queue file, in one process or in two.                                   *)
(***************************************************************************)
EXTENDS HermesQueue, TLC

CONSTANTS p1, p2, alice, bob

MCProvider == {p1, p2}

(* Each provider in a process of its own, same user.                       *)
MCTwoProcesses == [p \in MCProvider |-> p]
MCSameScope == [p \in MCProvider |-> alice]

(* Both in one process, configured for different users.                    *)
MCOneProcess == [p \in MCProvider |-> p1]
MCTwoScopes == [p \in MCProvider |-> IF p = p1 THEN alice ELSE bob]

(* Each provider captures one turn: the behaviours TLC keeps are those that*)
(* start with this assignment, which no step changes.                      *)
MCFirstTurn == CHOOSE t \in Turn : TRUE
OneTurnEach == \A t \in Turn : scope[t] = IF t = MCFirstTurn THEN p1 ELSE p2

TurnSymmetry == Permutations(Turn)
================================================================================
