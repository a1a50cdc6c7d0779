---------------------------- MODULE EvidencedBelief ----------------------------
(***************************************************************************)
(* What an evidence-backed memory promises, with nothing of how it is      *)
(* stored: at every moment the memory believes exactly the claims that     *)
(* have been learnt, have not been replaced by a correction, and still     *)
(* have a live piece of supporting evidence.  The visible belief set is    *)
(* recomputed from the evidence after every step; MemoryStore maintains    *)
(* it row by row and is checked, and proved, to implement this module.     *)
(***************************************************************************)

CONSTANTS
    Evidence,   \* pieces of evidence
    Claim       \* claims evidence can support

VARIABLES
    known,      \* claims learnt so far
    support,    \* support[c]: the evidence that has been linked as supporting c
    live,       \* evidence that has been recorded and not deleted
    forgotten,  \* evidence that has been deleted
    replaced,   \* claims a correction has replaced
    believed    \* what the memory answers with

beliefVars == <<known, support, live, forgotten, replaced, believed>>

(* The belief set the evidence justifies: a view, never stored as such.    *)
Justified == {c \in known \ replaced : support[c] \cap live # {}}

BeliefInit ==
    /\ known = {}
    /\ support = [c \in Claim |-> {}]
    /\ live = {}
    /\ forgotten = {}
    /\ replaced = {}
    /\ believed = {}

(* New evidence is recorded; what was forgotten is not heard again.        *)
Record(e) ==
    /\ e \notin live \cup forgotten
    /\ live' = live \cup {e}
    /\ UNCHANGED forgotten

(* Evidence arrives alone, or with a claim it supports.                    *)
Hear(e) ==
    /\ Record(e)
    /\ UNCHANGED <<known, support, replaced>>

Learn(c, e) ==
    /\ c \notin known
    /\ Record(e)
    /\ known' = known \cup {c}
    /\ support' = [support EXCEPT ![c] = @ \cup {e}]
    /\ UNCHANGED replaced

(* Live evidence is linked to a claim the memory already believes.         *)
Corroborate(c, e) ==
    /\ c \in believed
    /\ e \in live
    /\ support' = [support EXCEPT ![c] = @ \cup {e}]
    /\ UNCHANGED <<known, live, forgotten, replaced>>

(* A believed claim is replaced by a new one with evidence of its own.     *)
Replace(old, new, e) ==
    /\ old \in believed
    /\ new \notin known
    /\ Record(e)
    /\ known' = known \cup {new}
    /\ support' = [support EXCEPT ![new] = @ \cup {e}]
    /\ replaced' = replaced \cup {old}

(* A piece of evidence is forgotten, and with it whatever it alone carried.*)
Forget(e) ==
    /\ e \in live
    /\ live' = live \ {e}
    /\ forgotten' = forgotten \cup {e}
    /\ UNCHANGED <<known, support, replaced>>

BeliefNext ==
    /\ \/ \E e \in Evidence : Hear(e) \/ Forget(e)
       \/ \E c \in Claim, e \in Evidence : Learn(c, e) \/ Corroborate(c, e)
       \/ \E old, new \in Claim, e \in Evidence : Replace(old, new, e)
    /\ believed' = Justified'

BeliefSpec == BeliefInit /\ [][BeliefNext]_beliefVars
================================================================================
