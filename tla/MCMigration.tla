------------------------------ MODULE MCMigration ------------------------------
(***************************************************************************)
(* Finite instances of Following for TLC.                                  *)
(***************************************************************************)
EXTENDS Following, TLC

(* What remember may carry: a processed profile fact.                      *)
MCProfileFact ==
    {[key |-> k, tier |-> "short_term", processing |-> "processed"] : k \in Key}

MCFact == {[key |-> NoKey, tier |-> "short_term", processing |-> "processed"]}

MCOlderEntry == [k \in Key |-> MaxCommits + 1]

(* The first commit is one that remember wrote.                            *)
BeginsEmpty ==
    feed # <<>> =>
        /\ Cardinality(feed[1].sources) = 1
        /\ \A r \in feed[1].sources : r.state = "live"
        /\ \A r \in feed[1].claims : r.row.tier = "short_term"
        /\ feed[1].profiles \cup feed[1].reviews = {}

(* How much an older release wrote.                                        *)
OlderWrites ==
    Cardinality({s \in Source : source[s] # "absent"})
        + Cardinality({s \in Source : source[s] = "deleted"})
        + Cardinality({s \in Source : claim[s].tier # "short_term"})
        + Cardinality({l \in Source \X Source : l[1] # l[2] /\ Cites(l[1], l[2])})
        + Cardinality({k \in Key : profile[k] # NoClaim})
        + Cardinality({r \in Review : review[r] # {}})

(* As many commits as there may be in a store that begins empty and that   *)
(* one process migrates.  What follows the bootstrap of an older file, and *)
(* what happens while another process still holds an older version, is one *)
(* commit more; an older release writes four things.                       *)
PlainOrShort ==
    /\ version < FeedVersion => OlderWrites <= 3
    /\ reads # {} \/ ~BeginsEmpty => Len(feed) <= 1

SourceSymmetry == Permutations(Source)
================================================================================
