------------------------------ MODULE CommitFeed ------------------------------
(***************************************************************************)
(* The commit feed of one scope (src/store/export.rs, and the records the  *)
(* operations of lifecycle.rs hand to append_commit).  Every operation     *)
(* that writes a table appends one commit in the same transaction: the     *)
(* rows it names, as they are once it has written them, and the deletions  *)
(* it names.  Nothing compares a commit with what really changed.          *)
(*                                                                         *)
(* A commit is a record with one set of export records per kind.  Source   *)
(* and evidence share an id in MemoryStore and are always exported         *)
(* together, so one record of kind sources stands for both.                *)
(***************************************************************************)
EXTENDS MemoryStore, Sequences

CONSTANT MaxCommits    \* bound on the operations that write

ASSUME FeedAssumption == MaxCommits \in Nat

VARIABLES
    feed,    \* memory_commits with their memory_export_events, by sequence
    entry    \* entry[k]: id of the profile entry of key k, 0 when there is none

feedVars == <<vars, feed, entry>>

NoRecords ==
    [sources |-> {}, claims |-> {}, links |-> {}, profiles |-> {}, reviews |-> {},
     corrections |-> {}, deletedSources |-> {}, deletedEntries |-> {}, deletedReviews |-> {}]

FeedInit ==
    /\ Init
    /\ feed = <<>>
    /\ entry = [k \in Key |-> 0]

(* begin_commit and append_records. *)
Publish(commit) ==
    /\ Len(feed) < MaxCommits
    /\ feed' = Append(feed, commit)

--------------------------------------------------------------------------------
(* The rows an operation exports, read back inside its transaction.        *)
SourceRecord(s) ==
    [id |-> s, state |-> source'[s], capturedAt |-> validFrom'[s], recordedAt |-> recordedAt'[s]]
ClaimRecord(c) == [id |-> c, row |-> claim'[c]]
LinkRecord(c, e, relation) == [claim |-> c, evidence |-> e, relation |-> relation]

RememberRecords(s) == [NoRecords EXCEPT !.sources = {SourceRecord(s)}]

RememberClaimRecords(s) ==
    [NoRecords EXCEPT !.sources = {SourceRecord(s)},
                      !.claims = {ClaimRecord(s)},
                      !.links = {LinkRecord(s, s, "supports")}]

(* The profile entries behind claim c when the operation started.          *)
EntriesOf(c) == {entry[k] : k \in {x \in Key : profile[x] = c}}

(* Seeded fault: only what correct inserts is exported.                    *)
NewRowsOnly(old, s) ==
    [RememberClaimRecords(s) EXCEPT !.corrections = {[claim |-> s, old |-> old]},
                                    !.deletedEntries = EntriesOf(old)]

(* build_correction_records: both claims, the correction itself and the    *)
(* profile entries it removed.                                             *)
CorrectionRecords(old, s) ==
    [RememberClaimRecords(s) EXCEPT !.claims = @ \cup {ClaimRecord(old)},
                                    !.corrections = {[claim |-> s, old |-> old]},
                                    !.deletedEntries = EntriesOf(old)]

(* build_deletion_records: the tombstones, the claims retracted, the       *)
(* profile entries of claims citing the source that are gone by now, and   *)
(* the reviews that cited it.                                              *)
DeletionRecords(s) ==
    [NoRecords EXCEPT
        !.sources = {SourceRecord(s)},
        !.deletedSources = {s},
        !.claims = {ClaimRecord(c) : c \in LosesSupport(s)},
        !.deletedEntries =
            {entry[k] : k \in {x \in Key : profile[x] # NoClaim /\ Cites(profile[x], s)
                                              /\ profile'[x] = NoClaim}},
        !.deletedReviews = {r \in Review : s \in review[r]}]

ProfileRecords(k) ==
    [NoRecords EXCEPT !.profiles =
        {[id |-> entry'[k], key |-> k, claim |-> profile'[k], at |-> profileAt'[k]]}]

(* The entry ids after an operation that only deletes profile entries.     *)
DropEntries == entry' = [k \in Key |-> IF profile'[k] = NoClaim THEN 0 ELSE entry[k]]

(* A review id is minted once.                                             *)
FreshReview(r) ==
    \A i \in DOMAIN feed : \A record \in feed[i].reviews : record.id # r

--------------------------------------------------------------------------------
(* The operations of MemoryStore with the commit each one appends.         *)
RememberC(s, v, t) ==
    Remember(s, v, t) /\ UNCHANGED entry /\ Publish(RememberRecords(s))

RememberClaimC(s, v, t, input) ==
    RememberClaim(s, v, t, input) /\ UNCHANGED entry /\ Publish(RememberClaimRecords(s))

CorrectC(old, s, v, t) ==
    Correct(old, s, v, t) /\ DropEntries /\ Publish(CorrectionRecords(old, s))

DeleteSourceC(s, t) == DeleteSource(s, t) /\ DropEntries /\ Publish(DeletionRecords(s))

PromoteC(c, t) ==
    /\ Promote(c, t)
    /\ UNCHANGED entry
    /\ Publish([NoRecords EXCEPT !.claims = {ClaimRecord(c)}])

ArchiveC(c, t) ==
    /\ Archive(c, t)
    /\ UNCHANGED entry
    /\ Publish([NoRecords EXCEPT !.claims = {ClaimRecord(c)}])

LinkSupportC(c, e) ==
    /\ LinkSupport(c, e)
    /\ UNCHANGED entry
    /\ Publish([NoRecords EXCEPT !.links = {LinkRecord(c, e, "supports")}])

LinkContradictionC(c, e) ==
    /\ LinkContradiction(c, e)
    /\ UNCHANGED entry
    /\ Publish([NoRecords EXCEPT !.links = {LinkRecord(c, e, "contradicts")}])

(* A replaced entry keeps its id; a new one gets a fresh id, here the      *)
(* number of the commit that creates it.                                   *)
StoreProfileC(c, t) ==
    LET k == claim[c].key
    IN  /\ StoreProfile(c, t)
        /\ entry' = [entry EXCEPT ![k] = IF profile[k] = NoClaim THEN Len(feed) + 1 ELSE @]
        /\ Publish(ProfileRecords(k))

StoreReviewC(r, cited) ==
    /\ FreshReview(r)
    /\ StoreReview(r, cited)
    /\ UNCHANGED entry
    /\ Publish([NoRecords EXCEPT !.reviews = {[id |-> r, cited |-> cited]}])

FeedNext ==
    \/ \E s \in Source, v \in ValidTime, t \in RecordTime :
          \/ RememberC(s, v, t)
          \/ \E input \in ClaimInput : RememberClaimC(s, v, t, input)
          \/ \E old \in Source : CorrectC(old, s, v, t)
    \/ \E s \in Source, t \in RecordTime :
          DeleteSourceC(s, t) \/ PromoteC(s, t) \/ ArchiveC(s, t) \/ StoreProfileC(s, t)
    \/ \E c, e \in Source : LinkSupportC(c, e) \/ LinkContradictionC(c, e)
    \/ \E r \in Review, cited \in SUBSET Source : StoreReviewC(r, cited)

FeedSpec == FeedInit /\ [][FeedNext]_feedVars
================================================================================
