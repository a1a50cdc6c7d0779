----------------------------- MODULE Projections -----------------------------
(***************************************************************************)
(* The rebuildable projections of one scope and the outbox that repairs    *)
(* them (src/store/repair.rs, src/store/embeddings.rs).  A projection is   *)
(* the embedding of a target for one model and version, or the full-text   *)
(* row of a source.  The operations of the store enqueue, in their own     *)
(* transaction, a repair row for every target that may stop being current; *)
(* repair drains the outbox in batches, oldest created_at first.  Vectors  *)
(* come from an embedder outside the store, which reads a target in one    *)
(* call and stores its vector in a later one.                              *)
(*                                                                         *)
(* The text behind a target never changes, so an embedding is stale only   *)
(* when its target is no longer current or its lane (dimension,            *)
(* normalization and distance) is not the one of the model version.        *)
(* Source s and evidence s are one target: they become current, and stop,  *)
(* in the same transactions.  Rows for one target with one created_at are  *)
(* one row of the outbox.                                                  *)
(***************************************************************************)
EXTENDS MemoryStore

CONSTANTS
    Embedder,     \* processes that compute vectors
    NoTarget,     \* what an embedder with no work has read
    Lane,         \* lanes of the model version, ordered as tuples are
    NoLane,       \* no embedding is stored
    BatchLimit    \* limit of one repair call

ASSUME ProjectionAssumption ==
    /\ Lane \subseteq Nat
    /\ NoLane \notin Lane
    /\ BatchLimit \in Nat \ {0}

Target == {"source", "claim"} \X Source

ASSUME NoTargetAssumption == NoTarget \notin Target

VARIABLES
    embedding,    \* embedding[x]: the lane of the vector stored for target x
    indexed,      \* sources with a row in source_fts
    outbox,       \* memory_repair_outbox rows not processed yet
    job           \* job[w]: the target embedder w has read and not stored yet

projections == <<embedding, indexed, outbox>>
projectionVars == <<vars, embedding, indexed, outbox, job>>

ProjectionsTypeOK ==
    /\ embedding \in [Target -> Lane \cup {NoLane}]
    /\ indexed \subseteq Source
    /\ outbox \subseteq [target : Target, at : RecordTime]
    /\ job \in [Embedder -> Target \cup {NoTarget}]

ProjectionsInit ==
    /\ Init
    /\ embedding = [x \in Target |-> NoLane]
    /\ indexed = {}
    /\ outbox = {}
    /\ job = [w \in Embedder |-> NoTarget]

--------------------------------------------------------------------------------
(* projection_input_from finds the target: the source is live, or the claim*)
(* is one that a current search may answer with, support aside.            *)
CurrentClaim(c) ==
    /\ c \in Accepted
    /\ claim[c].validUntil = Open /\ claim[c].recordedUntil = Open
    /\ claim[c].tier # "archive" /\ claim[c].processing = "processed"

Current(x) == IF x[1] = "source" THEN x[2] \in Live ELSE CurrentClaim(x[2])

(* The targets whose embedding a vector search may still use.              *)
Serving == {x \in Target : embedding[x] # NoLane /\ Current(x)}

(* An embedding nothing will ever use again.                               *)
Leftover(x) == embedding[x] # NoLane /\ ~Current(x)

(* Seeded fault: a target that has a vector may change lanes at any time.  *)
AgreesIfStored(x, lane) ==
    \/ Serving = {}
    \/ x \in Serving
    \/ \E y \in Serving : embedding[y] = lane /\ \A z \in Serving : lane <= embedding[z]

(* current_embedding_lane puts no constraint on the only vector there is;  *)
(* otherwise the least lane in use is the lane of the model version.       *)
Agrees(x, lane) ==
    \/ Serving \subseteq {x}
    \/ \E y \in Serving : embedding[y] = lane /\ \A z \in Serving : lane <= embedding[z]

(* enqueue_projection_repairs.                                             *)
Enqueue(targets, t) == outbox' = outbox \cup [target : targets, at : {t}]

--------------------------------------------------------------------------------
(* The operations of MemoryStore with what they do to projections.         *)
Record(s, v, t) ==
    /\ \/ Remember(s, v, t)
       \/ \E input \in ClaimInput : RememberClaim(s, v, t, input)
    /\ indexed' = indexed \cup {s}
    /\ UNCHANGED <<embedding, outbox, job>>

CorrectP(old, s, v, t) ==
    /\ Correct(old, s, v, t)
    /\ indexed' = indexed \cup {s}
    /\ Enqueue({<<"claim", old>>}, t)
    /\ UNCHANGED <<embedding, job>>

(* enqueue_deletion_repairs: the source and the claims it took away.       *)
DeletionTargets(s) == {<<"source", s>>} \cup {<<"claim", c>> : c \in LosesSupport(s)}

DeleteSourceP(s, t) ==
    /\ DeleteSource(s, t)
    /\ indexed' = indexed \ {s}
    /\ Enqueue(DeletionTargets(s), t)
    /\ UNCHANGED <<embedding, job>>

ChangeTier(c, t) ==
    /\ Promote(c, t) \/ Archive(c, t)
    /\ Enqueue({<<"claim", c>>}, t)
    /\ UNCHANGED <<embedding, indexed, job>>

(* Links, profile entries and reviews touch no projection.                 *)
Other ==
    /\ \/ \E c, e \in Source : LinkSupport(c, e) \/ LinkContradiction(c, e)
       \/ \E c \in Source, t \in RecordTime : StoreProfile(c, t)
       \/ \E r \in Review, cited \in SUBSET Source : StoreReview(r, cited)
    /\ UNCHANGED <<projections, job>>

--------------------------------------------------------------------------------
(* projection_input, outside any transaction that stores the vector.       *)
ReadTarget(w, x) ==
    /\ job[w] = NoTarget
    /\ Current(x)
    /\ job' = [job EXCEPT ![w] = x]
    /\ UNCHANGED <<vars, projections>>

(* Seeded fault: what the embedder read is trusted when it answers.        *)
AcceptedAsRead(w, lane) == job[w] # NoTarget /\ Agrees(job[w], lane)

(* What upsert_embedding checks in its transaction.                        *)
Acceptable(w, lane) == job[w] # NoTarget /\ Current(job[w]) /\ Agrees(job[w], lane)

StoreEmbedding(w, lane) ==
    /\ Acceptable(w, lane)
    /\ embedding' = [embedding EXCEPT ![job[w]] = lane]
    /\ job' = [job EXCEPT ![w] = NoTarget]
    /\ UNCHANGED <<vars, indexed, outbox>>

RefuseEmbedding(w, lane) ==
    /\ job[w] # NoTarget
    /\ ~Acceptable(w, lane)
    /\ job' = [job EXCEPT ![w] = NoTarget]
    /\ UNCHANGED <<vars, projections>>

(* The rows one repair call takes.                                         *)
Due(batch) ==
    /\ batch # {}
    /\ \A row \in batch, later \in outbox \ batch : row.at <= later.at
    /\ batch = outbox \/ Cardinality(batch) = BatchLimit

(* Seeded fault: vectors of targets that are gone are left alone.          *)
OnlyWrongLane(x) == x \in Serving /\ ~Agrees(x, embedding[x])

(* Seeded fault: a repair row is taken as an order to delete.              *)
AnyVector(x) == embedding[x] # NoLane

(* process_repair_target deletes the vector of x.                          *)
Useless(x) == Leftover(x) \/ (x \in Serving /\ ~Agrees(x, embedding[x]))

(* repair_projections: decides on the state before the batch, deletes, and *)
(* marks the batch processed, in one transaction.                          *)
Repair(batch) ==
    LET targets == {row.target : row \in batch}
    IN  /\ Due(batch)
        /\ embedding' = [x \in Target |-> IF x \in targets /\ Useless(x) THEN NoLane
                                                                        ELSE embedding[x]]
        /\ indexed' = indexed \ {s \in Source \ Live : <<"source", s>> \in targets}
        /\ outbox' = outbox \ batch
        /\ UNCHANGED <<vars, job>>

RepairSome == \E batch \in SUBSET outbox : Repair(batch)

ProjectionsNext ==
    \/ \E s \in Source, v \in ValidTime, t \in RecordTime :
          Record(s, v, t) \/ \E old \in Source : CorrectP(old, s, v, t)
    \/ \E s \in Source, t \in RecordTime : DeleteSourceP(s, t) \/ ChangeTier(s, t)
    \/ Other
    \/ \E w \in Embedder, x \in Target : ReadTarget(w, x)
    \/ \E w \in Embedder, lane \in Lane : StoreEmbedding(w, lane) \/ RefuseEmbedding(w, lane)
    \/ RepairSome

ProjectionsSpec == ProjectionsInit /\ [][ProjectionsNext]_projectionVars

(* The host keeps calling repair while the outbox has rows.                *)
RepairedSpec == ProjectionsSpec /\ WF_projectionVars(RepairSome)

--------------------------------------------------------------------------------
(* Crash safety of the outbox: as long as a vector outlives its target, a  *)
(* row that will remove it is still there.  Every operation that takes a   *)
(* target away enqueues it, repair never drops a row without its effect,   *)
(* and no embedder brings a vector in late.                                *)
LeftoversAreQueued ==
    \A x \in Target : Leftover(x) => \E row \in outbox : row.target = x

(* All vectors a search may compare for one model version have one lane,   *)
(* whatever embedders answer in whatever order, and although vectors of    *)
(* targets that are gone, of any lane, may still be stored.                *)
OneLane == \A x, y \in Serving : embedding[x] = embedding[y]

(* No operation, and no repair, takes away the projection of a target that *)
(* is still current.                                                       *)
UsefulProjectionsStay ==
    [][/\ \A x \in Serving : Current(x)' => x \in Serving'
       /\ indexed \cap Live' \subseteq indexed']_projectionVars

(* When the host keeps calling repair, every leftover is removed.          *)
LeftoversGo == \A x \in Target : Leftover(x) ~> ~Leftover(x)
================================================================================
