-------------------------------- MODULE TurnLog --------------------------------
(***************************************************************************)
(* What the write-behind queue of the Hermes plugin promises a provider,   *)
(* with nothing of rows, attempts, workers, processes or crashes: a log of *)
(* captured turns that is settled from the front.  A turn is settled once  *)
(* it is stored, or given up; it is stored once, and it is not stored again*)
(* when the user deletes what was stored.                                  *)
(***************************************************************************)
EXTENDS Naturals

CONSTANT Turn       \* the turns that may be captured

VARIABLES
    position,   \* position[t]: where in the log turn t is, 0 before
    copies,     \* copies[t]: how often it was stored
    givenUp,    \* the turns whose delivery ended without an answer
    forgotten   \* the turns that were stored and then deleted

logVars == <<position, copies, givenUp, forgotten>>

Captured == {t \in Turn : position[t] # 0}

(* Every turn captured before t is stored or given up.                     *)
Foremost(t) ==
    \A u \in Captured : position[u] < position[t] => copies[u] > 0 \/ u \in givenUp

TurnLogInit ==
    /\ position = [t \in Turn |-> 0]
    /\ copies = [t \in Turn |-> 0]
    /\ givenUp = {}
    /\ forgotten = {}

(* A turn joins the log behind all others.                                 *)
Capture(t) ==
    /\ t \notin Captured
    /\ position' = [position EXCEPT ![t] = position'[t]]
    /\ position'[t] > 0
    /\ \A u \in Captured : position[u] < position'[t]
    /\ UNCHANGED <<copies, givenUp, forgotten>>

Settle(t) ==
    /\ t \in Captured
    /\ Foremost(t)
    /\ \/ /\ copies[t] = 0
          /\ copies' = [copies EXCEPT ![t] = 1]
          /\ UNCHANGED <<position, givenUp, forgotten>>
       \/ /\ givenUp' = givenUp \cup {t}
          /\ UNCHANGED <<position, copies, forgotten>>

Forget(t) ==
    /\ copies[t] > 0
    /\ forgotten' = forgotten \cup {t}
    /\ UNCHANGED <<position, copies, givenUp>>

TurnLogNext == \E t \in Turn : Capture(t) \/ Settle(t) \/ Forget(t)

TurnLogSpec == TurnLogInit /\ [][TurnLogNext]_logVars
================================================================================
