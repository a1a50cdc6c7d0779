------------------------------ MODULE Replication ------------------------------
(***************************************************************************)
(* A second store that materializes the feed of the first with apply       *)
(* (src/store/apply.rs).  A host carries complete commits from export to   *)
(* apply; it may deliver any run of commits again, in batches of any size, *)
(* but it never skips one: it moves its cursor past a commit only after    *)
(* apply returned.  A batch is one transaction on the replica.             *)
(*                                                                         *)
(* What apply writes joins the replica's own feed.  EchoSpec adds a host   *)
(* that carries that feed back to the store the records came from.  The    *)
(* origins of sources, which replay compares, are no part of the tables.   *)
(***************************************************************************)
EXTENDS CommitFeed, ExportPages

CONSTANTS
    MaxBatch,     \* bound on the commits of one batch
    PageLimit     \* the limits and byte budgets pages are asked for with

ASSUME BatchAssumption == MaxBatch \in Nat \ {0} /\ PageLimit \subseteq Nat \ {0}

VARIABLES
    mirror,       \* the replica's tables
    ledger,       \* memory_applied_records of the replica
    mirrorFeed,   \* the replica's own commit feed
    applied,      \* the host's applied cursor over feed
    echoLedger,   \* memory_applied_records of the store itself
    echoed        \* the host's applied cursor over mirrorFeed

mirrorVars == <<mirror, ledger, mirrorFeed, applied>>
echoVars == <<echoLedger, echoed>>
allVars == <<feedVars, mirrorVars, echoVars>>

(* The tables of the store itself, in the form the replica has them.       *)
Here ==
    [source |-> source, validFrom |-> validFrom, recordedAt |-> recordedAt,
     claim |-> claim, supports |-> supports, contradicts |-> contradicts,
     corrects |-> corrects, profile |-> profile, profileAt |-> profileAt,
     entry |-> entry, review |-> review]

--------------------------------------------------------------------------------
Ids(records) == {record.id : record \in records}

(* The one record for id, among records that have it.                      *)
Only(records, id) == CHOOSE record \in records : record.id = id

(* Seeded fault: the ledger keys claims by their id alone.                 *)
UnseenIds(commit, seen) ==
    [kind \in DOMAIN commit |->
        IF kind = "claims" THEN {r \in commit[kind] : r.id \notin Ids(seen[kind])}
                           ELSE commit[kind] \ seen[kind]]

(* Seeded fault: nothing is skipped.                                       *)
EveryRecord(commit, seen) == commit

(* The records that are not in the ledger, which keys them by kind, id and *)
(* payload hash.                                                           *)
Unseen(commit, seen) == [kind \in DOMAIN commit |-> commit[kind] \ seen[kind]]

(* insert_seen: every record taken goes into memory_applied_records.       *)
Remembered(seen, new) == [kind \in DOMAIN seen |-> seen[kind] \cup new[kind]]

(* A claim, or evidence, some earlier pass or commit has stored.           *)
ClaimKnown(tables, new, c) == tables.claim[c].status # "none" \/ c \in Ids(new.claims)
EvidenceKnown(tables, new, e) == tables.source[e] # "absent" \/ e \in Ids(new.sources)

LinksOf(new, c, relation) ==
    {l.evidence : l \in {x \in new.links : x.claim = c /\ x.relation = relation}}

(* The records apply refuses, and the whole batch with them: evidence that *)
(* would come back to life, and a reference to what is not stored or a     *)
(* link or review that contradicts what is.                                *)
Refused(tables, new) ==
    \/ \E r \in new.sources : tables.source[r.id] = "deleted" /\ r.state = "live"
    \/ \E l \in new.links :
          \/ ~ClaimKnown(tables, new, l.claim) \/ ~EvidenceKnown(tables, new, l.evidence)
          \/ l.relation = "supports" /\ l.evidence \in tables.contradicts[l.claim]
          \/ l.relation = "contradicts" /\ l.evidence \in tables.supports[l.claim]
    \/ \E p \in new.profiles : ~ClaimKnown(tables, new, p.claim)
    \/ \E r \in new.reviews :
          \/ \E e \in r.cited : ~EvidenceKnown(tables, new, e)
          \/ tables.review[r.id] \notin {{}, r.cited}
    \/ \E x \in new.corrections :
          ~ClaimKnown(tables, new, x.claim) \/ ~ClaimKnown(tables, new, x.old)
    \/ \E s \in new.deletedSources : ~EvidenceKnown(tables, new, s)

(* apply_source and apply_evidence, then apply_deletion of either.         *)
SourceAfter(tables, new, s) ==
    IF s \in new.deletedSources THEN "deleted"
    ELSE IF s \in Ids(new.sources) THEN Only(new.sources, s).state
    ELSE tables.source[s]

(* Seeded fault: a claim that is stored is not written again.              *)
ClaimIfNew(tables, new, c) ==
    IF c \in Ids(new.claims) /\ tables.claim[c].status = "none"
    THEN Only(new.claims, c).row ELSE tables.claim[c]

(* apply_claim: the row is overwritten, whatever it was.                   *)
ClaimAfter(tables, new, c) ==
    IF c \in Ids(new.claims) THEN Only(new.claims, c).row ELSE tables.claim[c]

CorrectsAfter(tables, new, c) ==
    IF \E x \in new.corrections : x.claim = c
    THEN (CHOOSE x \in new.corrections : x.claim = c).old
    ELSE tables.corrects[c]

(* apply_profile replaces whatever entry the key has; apply_deletion       *)
(* removes an entry by its id.                                             *)
ProfileAfter(tables, new, k) ==
    LET p == IF \E x \in new.profiles : x.key = k
             THEN CHOOSE x \in new.profiles : x.key = k
             ELSE [id |-> tables.entry[k], key |-> k, claim |-> tables.profile[k],
                   at |-> tables.profileAt[k]]
    IN  IF p.id \in new.deletedEntries
        THEN [id |-> 0, key |-> k, claim |-> NoClaim, at |-> Open]
        ELSE p

ReviewAfter(tables, new, r) ==
    IF r \in new.deletedReviews THEN {}
    ELSE IF r \in Ids(new.reviews) THEN Only(new.reviews, r).cited
    ELSE tables.review[r]

(* The passes of apply_commit over the unseen records of one commit.       *)
Materialized(tables, new) ==
    [source |-> [s \in Source |-> SourceAfter(tables, new, s)],
     validFrom |-> [s \in Source |-> IF s \in Ids(new.sources)
                                     THEN Only(new.sources, s).capturedAt
                                     ELSE tables.validFrom[s]],
     recordedAt |-> [s \in Source |-> IF s \in Ids(new.sources)
                                      THEN Only(new.sources, s).recordedAt
                                      ELSE tables.recordedAt[s]],
     claim |-> [c \in Source |-> ClaimAfter(tables, new, c)],
     supports |-> [c \in Source |-> tables.supports[c] \cup LinksOf(new, c, "supports")],
     contradicts |-> [c \in Source |->
                         tables.contradicts[c] \cup LinksOf(new, c, "contradicts")],
     corrects |-> [c \in Source |-> CorrectsAfter(tables, new, c)],
     profile |-> [k \in Key |-> ProfileAfter(tables, new, k).claim],
     profileAt |-> [k \in Key |-> ProfileAfter(tables, new, k).at],
     entry |-> [k \in Key |-> ProfileAfter(tables, new, k).id],
     review |-> [r \in Review |-> ReviewAfter(tables, new, r)]]

(* apply_commit, on a store in the middle of a batch.  A commit with no    *)
(* unseen record is skipped; otherwise the records accepted are a commit of*)
(* the store's own feed.                                                   *)
ApplyCommit(store, commit) ==
    LET new == Unseen(commit, store.seen)
    IN  IF ~store.ok \/ new = NoRecords THEN store
        ELSE IF Refused(store.tables, new) THEN [store EXCEPT !.ok = FALSE]
        ELSE [tables |-> Materialized(store.tables, new),
              seen |-> Remembered(store.seen, new),
              commits |-> Append(store.commits, new),
              ok |-> TRUE]

(* apply: the store after a batch, or ok = FALSE when a record is refused. *)
Apply(tables, seen, batch) ==
    LET after[i \in 0 .. Len(batch)] ==
            IF i = 0 THEN [tables |-> tables, seen |-> seen, commits |-> <<>>, ok |-> TRUE]
            ELSE ApplyCommit(after[i - 1], batch[i])
    IN  after[Len(batch)]

--------------------------------------------------------------------------------
(* Batches a host may deliver from a feed: runs of complete commits that   *)
(* leave no gap behind its cursor.                                         *)
Batches(cursor, log) ==
    {range \in (1..Len(log)) \X (1..Len(log)) :
        range[1] <= cursor + 1 /\ range[1] <= range[2] /\ range[2] < range[1] + MaxBatch}

Batch(range, log) == SubSeq(log, range[1], range[2])

Further(cursor, range) == IF range[2] > cursor THEN range[2] ELSE cursor

Deliver(range) ==
    LET store == Apply(mirror, ledger, Batch(range, feed))
    IN  /\ store.ok
        /\ mirror' = store.tables
        /\ ledger' = store.seen
        /\ mirrorFeed' = mirrorFeed \o store.commits
        /\ applied' = Further(applied, range)
        /\ UNCHANGED <<feedVars, echoVars>>

(* The replica's feed, applied to the store the records were written by.   *)
Echo(range) ==
    LET store == Apply(Here, echoLedger, Batch(range, mirrorFeed))
    IN  /\ store.ok
        /\ source' = store.tables.source
        /\ validFrom' = store.tables.validFrom
        /\ recordedAt' = store.tables.recordedAt
        /\ claim' = store.tables.claim
        /\ supports' = store.tables.supports
        /\ contradicts' = store.tables.contradicts
        /\ corrects' = store.tables.corrects
        /\ profile' = store.tables.profile
        /\ profileAt' = store.tables.profileAt
        /\ entry' = store.tables.entry
        /\ review' = store.tables.review
        /\ echoLedger' = store.seen
        /\ feed' = feed \o store.commits
        /\ echoed' = Further(echoed, range)
        /\ UNCHANGED mirrorVars

ReplicationInit ==
    /\ FeedInit
    /\ mirror = Here
    /\ ledger = NoRecords
    /\ mirrorFeed = <<>>
    /\ applied = 0
    /\ echoLedger = NoRecords
    /\ echoed = 0

Operate == FeedNext /\ UNCHANGED <<mirrorVars, echoVars>>
DeliverSome == \E range \in Batches(applied, feed) : Deliver(range)
EchoSome == \E range \in Batches(echoed, mirrorFeed) : Echo(range)

OneWaySpec == ReplicationInit /\ [][Operate \/ DeliverSome]_allVars
EchoSpec == ReplicationInit /\ [][Operate \/ DeliverSome \/ EchoSome]_allVars

--------------------------------------------------------------------------------
(* A replica that has been handed the whole feed, in whatever batches and  *)
(* however often, has the tables of the store: no operation leaves a row it*)
(* changed out of its commit, and no redelivery takes the replica back.    *)
MirrorEqualsStore == feed # <<>> /\ applied = Len(feed) => mirror = Here

(* The host is never stuck: the replica accepts the whole feed, what it    *)
(* has already applied and what is new, at any time.                       *)
FeedIsNeverRefused == Apply(mirror, ledger, feed).ok

(* The replica re-exports exactly the commits it applied, each once.       *)
ReplicaReexports == mirrorFeed = SubSeq(feed, 1, applied)

(* The events of a commit: sources and evidence are events of their own.   *)
EventCount(commit) ==
    2 * (Cardinality(commit.sources) + Cardinality(commit.deletedSources))
        + Cardinality(commit.claims) + Cardinality(commit.links)
        + Cardinality(commit.corrections) + Cardinality(commit.profiles)
        + Cardinality(commit.deletedEntries) + Cardinality(commit.reviews)
        + Cardinality(commit.deletedReviews)

(* The number of events of the first i - 1 commits, for every i.           *)
EventEnds(log) ==
    LET events[i \in 0 .. Len(log)] ==
            IF i = 0 THEN 0 ELSE events[i - 1] + EventCount(log[i])
    IN  [i \in 1 .. Len(log) + 1 |-> events[i - 1]]

(* Following the cursor from any commit to a mark that was frozen while the*)
(* feed was at least that long, whatever the limits: a page either moves   *)
(* the cursor, so that it can be followed, or says it is the last one, and *)
(* the last page is the one that reaches the mark.  As a page has all the  *)
(* commits between two cursors, the host loses none and gets none twice.   *)
PagesTileTheFeed ==
    LET ends == EventEnds(feed)
    IN  \A mark \in 0..Len(feed), limit, budget \in PageLimit : \A cursor \in 0..mark :
            LET page == Page(ends, cursor, mark, limit, budget)
            IN  /\ page.next \in cursor..mark
                /\ page.complete => page.next = mark
                /\ ~page.complete => page.next > cursor

(* A source that was deleted stays deleted, in the store and on the        *)
(* replica, whatever older commits about it come in again from either side.*)
DeletionsAreFinal ==
    [][\A s \in Source :
          /\ source[s] = "deleted" => source'[s] = "deleted"
          /\ mirror.source[s] = "deleted" => mirror'.source[s] = "deleted"]_<<source, mirror>>

(* What apply returns for a batch it has nothing to do for.                *)
NothingDone(tables, seen) == [tables |-> tables, seen |-> seen, commits |-> <<>>, ok |-> TRUE]

(* A host that did not hear the answer to a batch may send it again, on    *)
(* either side and however much was written, applied or echoed since: no   *)
(* row, no ledger entry and no commit comes of it, and no error.           *)
RedeliveryChangesNothing ==
    /\ \A range \in Batches(applied, feed) : range[2] <= applied =>
          Apply(mirror, ledger, Batch(range, feed)) = NothingDone(mirror, ledger)
    /\ \A range \in Batches(echoed, mirrorFeed) : range[2] <= echoed =>
          Apply(Here, echoLedger, Batch(range, mirrorFeed)) = NothingDone(Here, echoLedger)

(* Two stores that feed each other fall silent: whatever comes in, and     *)
(* again, the replica publishes no record twice and no commit without one. *)
PassedOnOnce ==
    \A i \in DOMAIN mirrorFeed :
        /\ mirrorFeed[i] # NoRecords
        /\ \A j \in DOMAIN mirrorFeed : i < j =>
              \A kind \in DOMAIN mirrorFeed[i] : mirrorFeed[i][kind] \cap mirrorFeed[j][kind] = {}

(* README.md says corrections supersede history instead of rewriting it: a *)
(* superseded claim is not taken back into force.                          *)
CorrectionsAreFinal ==
    [][\A c \in Superseded : claim'[c].status = "superseded"]_claim
================================================================================
