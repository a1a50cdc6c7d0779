--------------------------- MODULE ProjectionsProofs ---------------------------
(***************************************************************************)
(* Theorems about Projections for every set of sources, embedders, lanes   *)
(* and every batch limit.  The argument is that a target, once it has been *)
(* current, never becomes current again: so a vector is either of use or   *)
(* left over for good, and an operation can only turn the first into the   *)
(* second, when it enqueues the target.  That needs the invariant of the   *)
(* store (a fresh id is in no table yet).                                  *)
(***************************************************************************)
EXTENDS Projections, MemoryStoreProofs

(* There is a row behind target x.                                         *)
KnownTarget(x) ==
    IF x[1] = "source" THEN source[x[2]] # "absent" ELSE claim[x[2]].status # "none"

(* A vector was stored for a target that existed.                          *)
VectorsHaveTargets == \A x \in Target : embedding[x] # NoLane => KnownTarget(x)

ProjectionsInv ==
    StoreInv /\ ProjectionsTypeOK /\ VectorsHaveTargets /\ LeftoversAreQueued /\ OneLane

(* A target is a kind and the id of a row.                                 *)
LEMMA TargetShape ==
    ASSUME NEW x \in Target
    PROVE  /\ x = <<x[1], x[2]>> /\ x[1] \in {"source", "claim"} /\ x[2] \in Source
           /\ x[1] # "source" => x[1] = "claim"
  BY DEF Target

(* Closing, retracting or archiving a claim row, field by field.           *)
LEMMA ClosedRows ==
    ASSUME NEW row \in ClaimRow, NEW v \in ValidTime, NEW t \in RecordTime
    PROVE  /\ SupersededRow(row, v, t).status = "superseded"
           /\ RetractedRow(row, t).status = "retracted"
           /\ [row EXCEPT !.tier = "archive"].tier = "archive"
           /\ [row EXCEPT !.tier = "archive"].status = row.status
           /\ [row EXCEPT !.tier = "long_term"].status = row.status
           /\ [row EXCEPT !.tier = "long_term"].validUntil = row.validUntil
           /\ [row EXCEPT !.tier = "long_term"].recordedUntil = row.recordedUntil
           /\ [row EXCEPT !.tier = "long_term"].processing = row.processing
           /\ [row EXCEPT !.tier = "long_term"].tier = "long_term"
  BY DEF SupersededRow, RetractedRow, ClaimRow

--------------------------------------------------------------------------------
(* What an operation of the store does to targets that exist: it never     *)
(* makes one current that was not, and takes away only those in `lost`.    *)
Loses(lost) ==
    \A x \in Target :
        /\ KnownTarget(x) => KnownTarget(x)' /\ (Current(x)' => Current(x))
        /\ Current(x) => Current(x)' \/ x \in lost

(* A new source, with or without a claim, loses nothing.                   *)
LEMMA InsertLosesNothing ==
    ASSUME StoreInv, NEW s \in Source, NEW v \in ValidTime, NEW t \in RecordTime,
           InsertSource(s, v, t), NEW lost,
           \A c \in Source : c # s => \/ claim'[c] = claim[c]
                                      \/ /\ claim'[c].status # "none"
                                         /\ claim'[c].status # "accepted"
                                         /\ <<"claim", c>> \in lost
    PROVE  Loses(lost)
<1>1. claim[s].status = "none" /\ source[s] = "absent"
  BY FreshId DEF InsertSource
<1> SUFFICES ASSUME NEW x \in Target
             PROVE  /\ KnownTarget(x) => KnownTarget(x)' /\ (Current(x)' => Current(x))
                    /\ Current(x) => Current(x)' \/ x \in lost
  BY DEF Loses
<1>2. CASE x[1] = "source"
  <2>1. source'[x[2]] = IF x[2] = s THEN "live" ELSE source[x[2]]
    BY TargetShape DEF InsertSource, StoreInv, TypeOK
  <2> QED
    BY <1>1, <1>2, <2>1, TargetShape DEF KnownTarget, Current, Live
<1>3. CASE x[1] = "claim"
  <2>1. CASE x[2] = s
    BY <1>1, <1>3, <2>1 DEF KnownTarget, Current, CurrentClaim, Accepted
  <2>2. CASE x[2] # s /\ claim'[x[2]] = claim[x[2]]
    BY <1>3, <2>2, TargetShape DEF KnownTarget, Current, CurrentClaim, Accepted
  <2>3. CASE x[2] # s /\ claim'[x[2]] # claim[x[2]]
    <3>1. /\ claim'[x[2]].status # "none" /\ claim'[x[2]].status # "accepted"
          /\ <<"claim", x[2]>> \in lost
      BY <2>3, TargetShape
    <3> QED
      BY <1>3, <3>1, TargetShape DEF KnownTarget, Current, CurrentClaim, Accepted
  <2> QED
    BY <2>1, <2>2, <2>3
<1> QED
  BY <1>2, <1>3, TargetShape

LEMMA RecordLosesNothing ==
    ASSUME StoreInv, NEW s \in Source, NEW v \in ValidTime, NEW t \in RecordTime,
           Remember(s, v, t) \/ \E input \in ClaimInput : RememberClaim(s, v, t, input)
    PROVE  Loses({})
<1>1. InsertSource(s, v, t)
  BY DEF Remember, RememberClaim
<1>2. \A c \in Source : c # s => claim'[c] = claim[c]
  BY DEF Remember, RememberClaim, StoreInv, TypeOK
<1> QED
  BY <1>1, <1>2, InsertLosesNothing

LEMMA CorrectLosesOld ==
    ASSUME StoreInv, NEW s \in Source, NEW old \in Source, NEW v \in ValidTime,
           NEW t \in RecordTime, Correct(old, s, v, t)
    PROVE  Loses({<<"claim", old>>})
<1>1. InsertSource(s, v, t)
  BY DEF Correct
<1>2. \A c \in Source \ {s, old} : claim'[c] = claim[c]
  BY DEF Correct, StoreInv, TypeOK
<1>3. old # s
  BY <1>1, FreshId DEF Correct, Correctable, Accepted, InsertSource
<1>4. claim'[old].status = "superseded"
  <2>1. claim'[old] = SupersededRow(claim[old], v, t)
    BY <1>3 DEF Correct, StoreInv, TypeOK
  <2> QED
    BY <2>1, ClosedRows DEF StoreInv, TypeOK
<1> QED
  BY <1>1, <1>2, <1>4, InsertLosesNothing

LEMMA DeleteSourceLosesTargets ==
    ASSUME StoreInv, NEW s \in Source, NEW t \in RecordTime, DeleteSource(s, t)
    PROVE  Loses(DeletionTargets(s))
<1> SUFFICES ASSUME NEW x \in Target
             PROVE  /\ KnownTarget(x) => KnownTarget(x)' /\ (Current(x)' => Current(x))
                    /\ Current(x) => Current(x)' \/ x \in DeletionTargets(s)
  BY DEF Loses
<1>1. CASE x[1] = "source"
  <2>1. source'[x[2]] = IF x[2] = s THEN "deleted" ELSE source[x[2]]
    BY TargetShape DEF DeleteSource, StoreInv, TypeOK
  <2> QED
    BY <1>1, <2>1, TargetShape DEF KnownTarget, Current, Live, DeletionTargets
<1>2. CASE x[1] = "claim"
  <2>1. CASE x[2] \in LosesSupport(s)
    <3>1. claim'[x[2]].status = "retracted"
      <4>1. claim'[x[2]] = RetractedRow(claim[x[2]], t)
        BY <2>1, TargetShape DEF DeleteSource
      <4> QED
        BY <4>1, ClosedRows, TargetShape DEF StoreInv, TypeOK, RetractedRow
    <3>2. x \in DeletionTargets(s)
      BY <1>2, <2>1, TargetShape DEF DeletionTargets
    <3> QED
      BY <1>2, <3>1, <3>2 DEF KnownTarget, Current, CurrentClaim, Accepted
  <2>2. CASE x[2] \notin LosesSupport(s)
    <3>1. claim'[x[2]] = claim[x[2]]
      BY <2>2, TargetShape DEF DeleteSource
    <3> QED
      BY <1>2, <3>1, TargetShape DEF KnownTarget, Current, CurrentClaim, Accepted
  <2> QED
    BY <2>1, <2>2
<1> QED
  BY <1>1, <1>2, TargetShape

LEMMA ChangeTierLosesClaim ==
    ASSUME StoreInv, NEW c \in Source, NEW t \in RecordTime, Promote(c, t) \/ Archive(c, t)
    PROVE  Loses({<<"claim", c>>})
<1>1. source' = source
  BY DEF Promote, Archive
<1>2. \A d \in Source \ {c} : claim'[d] = claim[d]
  BY DEF Promote, Archive, StoreInv, TypeOK
<1>3. /\ claim'[c].status = claim[c].status
      /\ claim'[c].tier = "archive"
         \/ /\ claim[c].tier = "short_term"
            /\ claim'[c].validUntil = claim[c].validUntil
            /\ claim'[c].recordedUntil = claim[c].recordedUntil
            /\ claim'[c].processing = claim[c].processing
  <2>1. claim[c] \in ClaimRow
    BY DEF StoreInv, TypeOK
  <2>2. CASE Promote(c, t)
    <3>1. claim'[c] = [claim[c] EXCEPT !.tier = "long_term"]
      BY <2>2 DEF Promote, StoreInv, TypeOK
    <3> QED
      BY <2>1, <2>2, <3>1 DEF Promote, Promotable, ClaimRow
  <2>3. CASE Archive(c, t)
    <3>1. claim'[c] = [claim[c] EXCEPT !.tier = "archive"]
      BY <2>3 DEF Archive, StoreInv, TypeOK
    <3> QED
      BY <2>1, <3>1 DEF ClaimRow
  <2> QED
    BY <2>2, <2>3
<1> SUFFICES ASSUME NEW x \in Target
             PROVE  /\ KnownTarget(x) => KnownTarget(x)' /\ (Current(x)' => Current(x))
                    /\ Current(x) => Current(x)' \/ x \in {<<"claim", c>>}
  BY DEF Loses
<1>4. CASE x[1] = "source"
  BY <1>1, <1>4, TargetShape DEF KnownTarget, Current, Live
<1>5. CASE x[1] = "claim" /\ x[2] # c
  BY <1>2, <1>5, TargetShape DEF KnownTarget, Current, CurrentClaim, Accepted
<1>6. CASE x[1] = "claim" /\ x[2] = c
  BY <1>3, <1>6, TargetShape DEF KnownTarget, Current, CurrentClaim, Accepted
<1> QED
  BY <1>4, <1>5, <1>6, TargetShape

LEMMA OtherLosesNothing ==
    ASSUME Other \/ UNCHANGED vars
    PROVE  Loses({})
<1>1. source' = source /\ claim' = claim
  BY DEF Other, LinkSupport, LinkContradiction, StoreProfile, StoreReview, vars
<1> QED
  BY <1>1 DEF Loses, KnownTarget, Current, CurrentClaim, Live, Accepted

--------------------------------------------------------------------------------
(* What a step does to projections that are of use.                        *)
Stays ==
    /\ \A x \in Serving : Current(x)' => x \in Serving'
    /\ indexed \cap Live' \subseteq indexed'

(* Every operation of the store, with what it enqueues.                    *)
LEMMA StoreStep ==
    ASSUME ProjectionsInv, StoreInv', NEW lost \in SUBSET Target, Loses(lost),
           embedding' = embedding, job' = job, indexed' \subseteq Source,
           outbox \subseteq outbox', outbox' \subseteq [target : Target, at : RecordTime],
           \A x \in lost : \E row \in outbox' : row.target = x
    PROVE  /\ ProjectionsInv'
           /\ \A x \in Serving : Current(x)' => x \in Serving'
<1>1. ProjectionsTypeOK'
  BY DEF ProjectionsInv, ProjectionsTypeOK
<1>2. VectorsHaveTargets'
  BY DEF ProjectionsInv, VectorsHaveTargets, Loses
<1>3. Serving' \subseteq Serving
  BY DEF ProjectionsInv, VectorsHaveTargets, Loses, Serving
<1>4. OneLane'
  BY <1>3 DEF ProjectionsInv, OneLane
<1>5. LeftoversAreQueued'
  <2> SUFFICES ASSUME NEW x \in Target, Leftover(x)'
               PROVE  \E row \in outbox' : row.target = x
    BY DEF LeftoversAreQueued
  <2>1. CASE Current(x)
    BY <2>1 DEF Leftover, Loses
  <2>2. CASE ~Current(x)
    BY <2>2 DEF Leftover, ProjectionsInv, LeftoversAreQueued
  <2> QED
    BY <2>1, <2>2
<1>6. \A x \in Serving : Current(x)' => x \in Serving'
  BY DEF Serving
<1> QED
  BY <1>1, <1>2, <1>4, <1>5, <1>6 DEF ProjectionsInv

(* Enqueue leaves a well typed outbox with a row for every target given.   *)
LEMMA Enqueued ==
    ASSUME ProjectionsTypeOK, NEW targets \in SUBSET Target, NEW t \in RecordTime,
           Enqueue(targets, t)
    PROVE  /\ outbox \subseteq outbox'
           /\ outbox' \subseteq [target : Target, at : RecordTime]
           /\ \A x \in targets : \E row \in outbox' : row.target = x
<1>1. \A x \in targets : [target |-> x, at |-> t] \in outbox'
  BY DEF Enqueue
<1>2. [target : targets, at : {t}] \subseteq [target : Target, at : RecordTime]
  OBVIOUS
<1> QED
  BY <1>1, <1>2 DEF Enqueue, ProjectionsTypeOK

(* When all vectors in use share a lane, none of them is in the way.       *)
LEMMA UselessAreLeftovers ==
    ASSUME ProjectionsInv, NEW x \in Target, Useless(x)
    PROVE  Leftover(x)
<1> SUFFICES ASSUME x \in Serving PROVE Agrees(x, embedding[x])
  BY DEF Useless
<1>1. \A z \in Serving : embedding[z] = embedding[x] /\ embedding[z] \in Nat
  BY ProjectionAssumption
     DEF ProjectionsInv, OneLane, ProjectionsTypeOK, Serving
<1> QED
  BY <1>1 DEF Agrees

LEMMA StoreEmbeddingStep ==
    ASSUME ProjectionsInv, StoreInv', NEW w \in Embedder, NEW lane \in Lane,
           StoreEmbedding(w, lane)
    PROVE  ProjectionsInv' /\ Stays
<1>1. \A x \in Target : Current(x)' <=> Current(x)
  BY DEF StoreEmbedding, vars, Current, CurrentClaim, Live, Accepted
<1>2. job[w] \in Target /\ Current(job[w]) /\ Agrees(job[w], lane)
  BY DEF StoreEmbedding, Acceptable, ProjectionsInv, ProjectionsTypeOK
<1>3. \A x \in Target : embedding'[x] = IF x = job[w] THEN lane ELSE embedding[x]
  BY DEF StoreEmbedding, ProjectionsInv, ProjectionsTypeOK
<1>4. ProjectionsTypeOK'
  BY DEF StoreEmbedding, ProjectionsInv, ProjectionsTypeOK
<1>5. VectorsHaveTargets'
  <2>1. KnownTarget(job[w])
    BY <1>2 DEF Current, CurrentClaim, KnownTarget, Live, Accepted
  <2>2. \A x \in Target : KnownTarget(x)' <=> KnownTarget(x)
    BY DEF StoreEmbedding, vars, KnownTarget
  <2> QED
    BY <1>3, <2>1, <2>2 DEF ProjectionsInv, VectorsHaveTargets
<1>6. LeftoversAreQueued'
  BY <1>1, <1>2, <1>3 DEF StoreEmbedding, ProjectionsInv, LeftoversAreQueued, Leftover
<1>7. Serving' \subseteq Serving \cup {job[w]} /\ Serving \subseteq Serving'
  BY <1>1, <1>2, <1>3, ProjectionAssumption DEF Serving
<1>8. \A y \in Serving : y # job[w] => embedding[y] = lane
  BY <1>2 DEF Agrees, ProjectionsInv, OneLane
<1>9. OneLane'
  <2> SUFFICES ASSUME NEW x \in Serving' PROVE embedding'[x] = lane
    BY DEF OneLane
  <2> QED
    BY <1>3, <1>7, <1>8 DEF Serving
<1>10. Stays
  BY <1>7 DEF Stays, StoreEmbedding
<1> QED
  BY <1>4, <1>5, <1>6, <1>9, <1>10 DEF ProjectionsInv

LEMMA RepairStep ==
    ASSUME ProjectionsInv, StoreInv', NEW batch \in SUBSET outbox, Repair(batch)
    PROVE  ProjectionsInv' /\ Stays
<1> DEFINE targets == {row.target : row \in batch}
<1>1. \A x \in Target : /\ Current(x)' <=> Current(x)
                        /\ KnownTarget(x)' <=> KnownTarget(x)
  BY DEF Repair, vars, Current, CurrentClaim, Live, Accepted, KnownTarget
<1>2. \A x \in Target : embedding'[x] = IF x \in targets /\ Useless(x) THEN NoLane
                                                                     ELSE embedding[x]
  BY DEF Repair
<1>3. \A x \in Serving : embedding'[x] = embedding[x]
  BY <1>2, UselessAreLeftovers DEF Leftover, Serving
<1>4. ProjectionsTypeOK'
  <2>1. \A x \in Target : embedding'[x] \in Lane \cup {NoLane}
    BY <1>2 DEF ProjectionsInv, ProjectionsTypeOK
  <2>2. embedding' \in [Target -> Lane \cup {NoLane}]
    BY <2>1 DEF Repair
  <2> QED
    BY <2>2 DEF Repair, ProjectionsInv, ProjectionsTypeOK
<1>5. VectorsHaveTargets'
  BY <1>1, <1>2 DEF ProjectionsInv, VectorsHaveTargets
<1>6. Serving' = Serving
  BY <1>1, <1>2, <1>3 DEF Serving
<1>7. OneLane'
  BY <1>3, <1>6 DEF ProjectionsInv, OneLane
<1>8. LeftoversAreQueued'
  <2> SUFFICES ASSUME NEW x \in Target, Leftover(x)'
               PROVE  \E row \in outbox' : row.target = x
    BY DEF LeftoversAreQueued
  <2>1. Leftover(x) /\ x \notin targets
    BY <1>1, <1>2 DEF Leftover, Useless
  <2>2. PICK row \in outbox : row.target = x
    BY <2>1 DEF ProjectionsInv, LeftoversAreQueued
  <2> QED
    BY <2>1, <2>2 DEF Repair
<1>9. Stays
  BY <1>6 DEF Stays, Repair, Live, vars
<1> QED
  BY <1>4, <1>5, <1>7, <1>8, <1>9 DEF ProjectionsInv

(* Steps that move only an embedder's job, or nothing.                     *)
LEMMA JobStep ==
    ASSUME ProjectionsInv, StoreInv', UNCHANGED <<vars, projections>>,
           job' \in [Embedder -> Target \cup {NoTarget}]
    PROVE  ProjectionsInv' /\ Stays
<1>1. /\ source' = source /\ claim' = claim
      /\ embedding' = embedding /\ indexed' = indexed /\ outbox' = outbox
  BY DEF vars, projections
<1> QED
  BY <1>1 DEF ProjectionsInv, ProjectionsTypeOK, VectorsHaveTargets, KnownTarget,
     LeftoversAreQueued, Leftover, OneLane, Serving, Current, CurrentClaim, Live,
     Accepted, Stays

--------------------------------------------------------------------------------
LEMMA ProjectionsInitInv == ProjectionsInit => ProjectionsInv
<1> SUFFICES ASSUME ProjectionsInit PROVE ProjectionsInv
  OBVIOUS
<1>1. ProjectionsTypeOK /\ VectorsHaveTargets /\ LeftoversAreQueued /\ OneLane
  BY DEF ProjectionsInit, ProjectionsTypeOK, VectorsHaveTargets, LeftoversAreQueued,
         Leftover, OneLane, Serving
<1> QED
  BY <1>1, InvInit DEF ProjectionsInit, ProjectionsInv

LEMMA ProjectionsStep ==
    ASSUME ProjectionsInv, [ProjectionsNext]_projectionVars
    PROVE  ProjectionsInv' /\ Stays
<1>0. StoreInv'
  <2>1. [Next]_vars
    BY DEF ProjectionsNext, projectionVars, Next, Record, CorrectP, DeleteSourceP,
           ChangeTier, Other, ReadTarget, StoreEmbedding, RefuseEmbedding, RepairSome,
           Repair
  <2> QED
    BY <2>1, InvStep DEF ProjectionsInv
<1> USE <1>0
<1>1. ASSUME NEW s \in Source, NEW v \in ValidTime, NEW t \in RecordTime, Record(s, v, t)
      PROVE  ProjectionsInv' /\ Stays
  <2>1. Loses({})
    BY <1>1, RecordLosesNothing DEF Record, ProjectionsInv
  <2>2. /\ embedding' = embedding /\ job' = job /\ outbox' = outbox
        /\ indexed' = indexed \cup {s}
    BY <1>1 DEF Record
  <2> QED
    BY <2>1, <2>2, StoreStep DEF ProjectionsInv, ProjectionsTypeOK, Stays
<1>2. ASSUME NEW s \in Source, NEW v \in ValidTime, NEW t \in RecordTime,
             NEW old \in Source, CorrectP(old, s, v, t)
      PROVE  ProjectionsInv' /\ Stays
  <2>1. Loses({<<"claim", old>>}) /\ {<<"claim", old>>} \in SUBSET Target
    BY <1>2, CorrectLosesOld DEF CorrectP, ProjectionsInv, Target
  <2>2. /\ embedding' = embedding /\ job' = job /\ indexed' = indexed \cup {s}
        /\ Enqueue({<<"claim", old>>}, t)
    BY <1>2 DEF CorrectP
  <2> QED
    BY <2>1, <2>2, StoreStep, Enqueued DEF ProjectionsInv, ProjectionsTypeOK, Stays
<1>3. ASSUME NEW s \in Source, NEW t \in RecordTime, DeleteSourceP(s, t)
      PROVE  ProjectionsInv' /\ Stays
  <2>1. Loses(DeletionTargets(s)) /\ DeletionTargets(s) \in SUBSET Target
    BY <1>3, DeleteSourceLosesTargets
       DEF DeleteSourceP, ProjectionsInv, DeletionTargets, Target, LosesSupport, Accepted
  <2>2. /\ embedding' = embedding /\ job' = job /\ indexed' = indexed \ {s}
        /\ Enqueue(DeletionTargets(s), t)
        /\ s \notin Live'
    BY <1>3 DEF DeleteSourceP, DeleteSource, Live, ProjectionsInv, StoreInv, TypeOK
  <2> QED
    BY <2>1, <2>2, StoreStep, Enqueued DEF ProjectionsInv, ProjectionsTypeOK, Stays
<1>4. ASSUME NEW c \in Source, NEW t \in RecordTime, ChangeTier(c, t)
      PROVE  ProjectionsInv' /\ Stays
  <2>1. Loses({<<"claim", c>>}) /\ {<<"claim", c>>} \in SUBSET Target
    BY <1>4, ChangeTierLosesClaim DEF ChangeTier, ProjectionsInv, Target
  <2>2. /\ embedding' = embedding /\ job' = job /\ indexed' = indexed
        /\ Enqueue({<<"claim", c>>}, t)
    BY <1>4 DEF ChangeTier
  <2> QED
    BY <2>1, <2>2, StoreStep, Enqueued DEF ProjectionsInv, ProjectionsTypeOK, Stays
<1>5. ASSUME Other
      PROVE  ProjectionsInv' /\ Stays
  <2>1. Loses({})
    BY <1>5, OtherLosesNothing
  <2>2. /\ embedding' = embedding /\ job' = job /\ outbox' = outbox /\ indexed' = indexed
    BY <1>5 DEF Other, projections
  <2> QED
    BY <2>1, <2>2, StoreStep DEF ProjectionsInv, ProjectionsTypeOK, Stays
<1>6. ASSUME NEW w \in Embedder, NEW x \in Target, ReadTarget(w, x)
      PROVE  ProjectionsInv' /\ Stays
  <2>1. job' \in [Embedder -> Target \cup {NoTarget}]
    BY <1>6 DEF ReadTarget, ProjectionsInv, ProjectionsTypeOK
  <2> QED
    BY <1>6, <2>1, JobStep DEF ReadTarget
<1>7. ASSUME NEW w \in Embedder, NEW lane \in Lane, RefuseEmbedding(w, lane)
      PROVE  ProjectionsInv' /\ Stays
  <2>1. job' \in [Embedder -> Target \cup {NoTarget}]
    BY <1>7 DEF RefuseEmbedding, ProjectionsInv, ProjectionsTypeOK
  <2> QED
    BY <1>7, <2>1, JobStep DEF RefuseEmbedding
<1>8. CASE UNCHANGED projectionVars
  BY <1>8, JobStep DEF projectionVars, projections, ProjectionsInv, ProjectionsTypeOK
<1> QED
  BY <1>1, <1>2, <1>3, <1>4, <1>5, <1>6, <1>7, <1>8, StoreEmbeddingStep, RepairStep
     DEF ProjectionsNext, RepairSome

LEMMA ProjectionsInvariant == ProjectionsSpec => []ProjectionsInv
  BY ProjectionsInitInv, ProjectionsStep, PTL DEF ProjectionsSpec

(* For every set of sources and embedders, every batch limit and every     *)
(* interleaving of store operations, embedders and repair calls: a vector  *)
(* whose target is gone has a repair row that will remove it.              *)
THEOREM LeftoversAlwaysQueued == ProjectionsSpec => []LeftoversAreQueued
<1>1. ProjectionsInv => LeftoversAreQueued
  BY DEF ProjectionsInv
<1> QED
  BY <1>1, ProjectionsInvariant, PTL

(* Vectors of use never disagree about the lane of their model version.    *)
THEOREM VectorsShareALane == ProjectionsSpec => []OneLane
<1>1. ProjectionsInv => OneLane
  BY DEF ProjectionsInv
<1> QED
  BY <1>1, ProjectionsInvariant, PTL

(* No step drops the projection of a target that stays current.            *)
THEOREM UsefulProjectionsAlwaysStay == ProjectionsSpec => UsefulProjectionsStay
<1>1. ProjectionsInv /\ [ProjectionsNext]_projectionVars =>
        [/\ \A x \in Serving : Current(x)' => x \in Serving'
         /\ indexed \cap Live' \subseteq indexed']_projectionVars
  BY ProjectionsStep DEF Stays
<1> QED
  BY <1>1, ProjectionsInvariant, PTL DEF ProjectionsSpec, UsefulProjectionsStay

(* Every repair row names a source or a claim, and every vector has a lane.*)
THEOREM ProjectionsTypes == ProjectionsSpec => []ProjectionsTypeOK
<1>1. ProjectionsInv => ProjectionsTypeOK
  BY DEF ProjectionsInv
<1> QED
  BY <1>1, ProjectionsInvariant, PTL
================================================================================
