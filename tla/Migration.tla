------------------------------ MODULE Migration ------------------------------
(***************************************************************************)
(* A store from the file an older release left, or from an empty one, to   *)
(* the present schema (src/store/schema.rs), and on from there with the    *)
(* operations and the replica of Replication.                              *)
(*                                                                         *)
(* migrate reads the version first and takes the write lock afterwards; it *)
(* does not read it again.  Whatever another process commits in between,   *)
(* it runs the steps of the version it read.  The steps are one            *)
(* transaction, so a migration that fails or crashes leaves the file as it *)
(* was.                                                                    *)
(*                                                                         *)
(* What an older release wrote is external: the rows of MemoryStore,       *)
(* consistent with each other, with one profile entry per key and without  *)
(* a commit.  Where a file from before step 6 has more entries for a key,  *)
(* profile is the one step 6 keeps, as it rewrites it from its claim; rows *)
(* of the present release it leaves as they are.  The steps that only      *)
(* create tables, columns and triggers are left out, and so are the files  *)
(* migrate rejects.                                                        *)
(***************************************************************************)
EXTENDS Replication, FiniteSetsExt

CONSTANTS
    StartVersion,    \* user_version of the file when it is first opened
    OlderEntry       \* OlderEntry[k]: id of the entry an older release gave key k

CurrentVersion == 13    \* SCHEMA_VERSION
OriginVersion == 6      \* the step that fills in origin_claim_id
FeedVersion == 8        \* the step that creates corrections and the feed

ASSUME StartAssumption == StartVersion \subseteq 0 .. FeedVersion - 1

ASSUME OlderEntryAssumption ==
    /\ \A k \in Key : OlderEntry[k] \in Nat /\ OlderEntry[k] > MaxCommits
    /\ \A k, l \in Key : OlderEntry[k] = OlderEntry[l] => k = l

VARIABLES
    version,    \* user_version
    reads,      \* versions processes have read and still have to migrate from
    origin      \* origin[s]: origin_claim_id of source s

migrationVars == <<allVars, version, reads, origin>>

MigrationInit ==
    /\ ReplicationInit
    /\ version \in StartVersion
    /\ reads = {}
    /\ origin = [s \in Source |-> NoClaim]

--------------------------------------------------------------------------------
(* A write of an older release, which may go on until the file is migrated.*)
OlderRelease ==
    /\ version \in 1 .. FeedVersion - 1
    /\ Next
    /\ entry' = [k \in Key |-> IF profile'[k] = NoClaim THEN 0 ELSE OlderEntry[k]]
    /\ origin' = [s \in Source |-> IF version >= OriginVersion /\ claim'[s].status # "none"
                                   THEN s ELSE NoClaim]
    /\ UNCHANGED <<feed, mirrorVars, echoVars, version, reads>>

(* PRAGMA user_version, before the lock.  A process that reads the present *)
(* version has nothing to migrate.                                         *)
ReadVersion ==
    /\ version # CurrentVersion
    /\ reads' = reads \cup {version}
    /\ UNCHANGED <<allVars, version, origin>>

(* The claims the evidence of source s supports.                           *)
SupportedBy(s) == {c \in Source : s \in supports[c]}

(* migrate_v6: the origin of a source that has none is the only claim its  *)
(* evidence supports, when there is exactly one.                           *)
BackfilledOrigin ==
    [s \in Source |-> IF origin[s] = NoClaim /\ Cardinality(SupportedBy(s)) = 1
                      THEN CHOOSE c \in SupportedBy(s) : TRUE
                      ELSE origin[s]]

(* bootstrap_records: every row of the scope as it is, but no correction,  *)
(* for which older releases had no table.                                  *)
BootstrapRecords ==
    [NoRecords EXCEPT
        !.sources = {SourceRecord(s) : s \in {x \in Source : source[x] # "absent"}},
        !.claims = {ClaimRecord(c) : c \in {x \in Source : claim[x].status # "none"}},
        !.links = {LinkRecord(l[1], l[2], "supports") :
                      l \in {x \in Source \X Source : x[2] \in supports[x[1]]}}
                  \cup {LinkRecord(l[1], l[2], "contradicts") :
                      l \in {x \in Source \X Source : x[2] \in contradicts[x[1]]}},
        !.profiles = {[id |-> entry[k], key |-> k, claim |-> profile[k], at |-> profileAt[k]] :
                         k \in {x \in Key : profile[x] # NoClaim}},
        !.reviews = {[id |-> r, cited |-> review[r]] : r \in {x \in Review : review[x] # {}}}]

(* Seeded fault: the feed is bootstrapped whether it is empty or not.      *)
BootstrapAlways(commits) ==
    IF BootstrapRecords = NoRecords THEN commits ELSE Append(commits, BootstrapRecords)

(* Seeded fault: tombstones are not bootstrapped.                          *)
BootstrapLive(commits) ==
    IF commits = <<>> /\ BootstrapRecords # NoRecords
    THEN <<[BootstrapRecords EXCEPT !.sources = {r \in @ : r.state = "live"}]>>
    ELSE commits

(* migrate_v8: one commit with all there is, when the feed has none.       *)
Bootstrapped(commits) ==
    IF commits = <<>> /\ BootstrapRecords # NoRecords THEN <<BootstrapRecords>> ELSE commits

(* migrate, from the lock to the commit, by a process that read version v. *)
Migrate(v) ==
    /\ v \in reads
    /\ reads' \in {reads, reads \ {v}}
    /\ version' = CurrentVersion
    /\ origin' = IF v < OriginVersion THEN BackfilledOrigin ELSE origin
    /\ corrects' = IF version < FeedVersion THEN [c \in Source |-> NoClaim] ELSE corrects
    /\ UNCHANGED <<source, validFrom, recordedAt, claim, supports, contradicts,
                   profile, profileAt, review, entry>>
    /\ feed' = IF v < FeedVersion THEN Bootstrapped(feed) ELSE feed
    /\ UNCHANGED <<mirrorVars, echoVars>>

--------------------------------------------------------------------------------
(* The operations of the present release; remember and correct set the     *)
(* origin of the source they insert together with a claim.                 *)
PresentRelease ==
    /\ version = CurrentVersion
    /\ Operate
    /\ origin' = [s \in Source |-> IF source[s] = "absent" /\ claim'[s].status # "none"
                                   THEN s ELSE origin[s]]
    /\ UNCHANGED <<version, reads>>

Replicate ==
    /\ version = CurrentVersion
    /\ DeliverSome
    /\ UNCHANGED <<version, reads, origin>>

MigrationNext ==
    \/ OlderRelease
    \/ ReadVersion
    \/ \E v \in reads : Migrate(v)
    \/ PresentRelease
    \/ Replicate

MigrationSpec == MigrationInit /\ [][MigrationNext]_migrationVars

--------------------------------------------------------------------------------
CommitsWith(kind, record) == {i \in DOMAIN feed : record \in feed[i][kind]}

(* The last commit that names a source or a claim by its id.               *)
LastNaming(kind, id) ==
    LET named == {i \in DOMAIN feed : id \in Ids(feed[i][kind])}
    IN  IF named = {} THEN {} ELSE {r \in feed[Max(named)][kind] : r.id = id}

(* The feed of a migrated store tells the whole store, once: every link and*)
(* review is in exactly one commit, whether the migration bootstrapped it  *)
(* or an operation wrote it, and the last commit that names a source or a  *)
(* claim has the row as it is.  However many processes migrate, and        *)
(* whatever others wrote before they got the lock.                         *)
EveryRowPublishedOnce ==
    version = CurrentVersion =>
        /\ \A c, e \in Source :
              /\ e \in supports[c] =>
                    Cardinality(CommitsWith("links", LinkRecord(c, e, "supports"))) = 1
              /\ e \in contradicts[c] =>
                    Cardinality(CommitsWith("links", LinkRecord(c, e, "contradicts"))) = 1
        /\ \A r \in Review : review[r] # {} =>
              Cardinality(CommitsWith("reviews", [id |-> r, cited |-> review[r]])) = 1
        /\ \A s \in Source :
              /\ source[s] # "absent" =>
                    {r.state : r \in LastNaming("sources", s)} = {source[s]}
              /\ claim[s].status # "none" =>
                    {r.row : r \in LastNaming("claims", s)} = {claim[s]}

(* remember, called again with the key and the payload of a source that    *)
(* was stored with claim c, or with none, finds what it stored.            *)
ReplayAccepted(s, c) == source[s] = "live" /\ origin[s] = c

(* What src/store/tests/lifecycle.rs says of a source that was stored      *)
(* without a claim: links to its evidence do not change what a replay of   *)
(* remember finds.                                                         *)
RawReplaysAreUnchanged ==
    \A s \in Live : claim[s].status = "none" => ReplayAccepted(s, NoClaim)
================================================================================
