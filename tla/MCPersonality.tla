----------------------------- MODULE MCPersonality -----------------------------
(***************************************************************************)
(* Finite instances of Personality for TLC.                                *)
(***************************************************************************)
EXTENDS Personality, TLC

(* One reply at a time, two epochs apart.                                  *)
MCStrict == [mention |-> TRUE, command |-> TRUE, minInterval |-> 2, maxTurns |-> 1]

(* Two in a row, at any distance.                                          *)
MCLax == [mention |-> FALSE, command |-> TRUE, minInterval |-> 0, maxTurns |-> 2]

MCRules == {MCStrict, MCLax}

CONSTANTS ann, bob, x, y

(* Two mentions two epochs apart, a message beside the second, someone who *)
(* starts to type in between, and two removals that meet under one key.    *)
MCEvent ==
    {[epoch |-> 1, participant |-> ann, kind |-> "mention", text |-> x],
     [epoch |-> 3, participant |-> bob, kind |-> "mention", text |-> x],
     [epoch |-> 3, participant |-> ann, kind |-> "chat", text |-> x],
     [epoch |-> 2, participant |-> ann, kind |-> "typing", text |-> x],
     [epoch |-> 2, participant |-> ann, kind |-> "reaction_removed", text |-> x],
     [epoch |-> 2, participant |-> ann, kind |-> "reaction_removed", text |-> y]}

(* As many calls as there may be with mentions and messages alone, one     *)
(* less with a fault, a card, typing or a removal.                         *)
PlainOrShort ==
    \/ events < MaxEvents
    \/ /\ faults = 0
       /\ \A c \in Card : CardKey(c) \notin DOMAIN stored
       /\ \A r \in Runtime : \A i \in DOMAIN recent[r] : recent[r][i].kind \in Message

PersonalitySymmetry == Permutations(Runtime)
================================================================================
