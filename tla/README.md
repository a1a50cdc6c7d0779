# zkr in TLA+

zkr is an evidence-backed, bitemporal memory for agents over one SQLite file. This directory
holds TLA+ models of its stateful parts, TLC runs that check them on small instances, and
proofs, checked by TLAPS, of what holds for every value of the constants.
`PROJECT.json` lists the runs, the mutants that show each property can fail, the source lines
behind every definition, the hazards of the code and the theorems.

## The system

| component | source | state it keeps | operations |
|---|---|---|---|
| memory store | `src/store/lifecycle.rs`, triggers of `schema.rs` | sources, evidence, claims, claim-evidence links, corrections, profile entries, daily reviews | remember, correct, delete_source, promote, archive, link_claim_evidence, store_profile, store_review |
| retrieval | `src/store/retrieval.rs` | none | current and `as_of` search |
| commit feed | `src/store/export.rs` | commits and their export events | append in every operation, export page by page |
| apply | `src/store/apply.rs` | ledger of applied records | apply a batch of exported commits |
| projections | `src/store/embeddings.rs`, `repair.rs`, full-text rows of `lifecycle.rs` | embeddings, `source_fts`, repair outbox | upsert_embedding, rebuild_embedding, repair_projections |
| summary tree | `src/store/summaries.rs` | ranges of summaries over evidence, live or stale | nap, merge, rebuild, wake, zoom |
| migrations | `src/store/schema.rs` | `user_version` | read the version, take the write lock, upgrade |
| Hermes plugin | `plugins/hermes/__init__.py` | pending and failed turns in a queue file, a worker thread per provider | initialize, sync_turn, shutdown, drain |
| project records, dream | `src/store/projects.rs` | none of its own beside the claims it writes | remember_project_record, project_memories, dream |
| personality router | `src/personality.rs` | turn counters and an event buffer in memory; decisions, signals and cards as sources | route_event, record_event, store_voice_card, store_persona, record_calibration |
| modes, self-improvement | `mode.rs`, `self_improve.rs` | none | presets and text over remember and search |
| OpenClaw plugin, CLI | `plugins/openclaw/`, `src/main.rs` | none | one zkr process per call |


How they interact. Every CLI call is one process that runs one store operation in one
`IMMEDIATE` SQLite transaction. The transaction writes the authoritative tables and, beside
them, the commit that describes what it wrote, the repair rows for projections that may have
become stale, and the staleness marks of summaries. Everything outside the store reaches it
through such calls: an embedder reads a target in one call and stores its vector in another; a
host pages the feed out of one store and applies it to a second; the Hermes worker hands over
the turns it has queued; a personality object looks a record up in one call and writes it in the
next. So inside the store the hard part is long sequences of legal calls
over tables that must agree; between calls it is interleaving, redelivery, crashes and
timeouts.

What makes each component correct:

* memory store: a claim is accepted exactly as long as it is not corrected and has live
  support; what a transaction writes into several tables never drifts apart; profile entries
  and reviews never outlive what they rest on; nothing final is revived; lineages of
  corrections do not fork and never give two answers for one point in time.
* feed and apply: a commit names every row its operation changed; a replica that has the whole
  feed has the store's tables, whatever was delivered twice; it re-exports each commit once; the
  pages of the feed leave nothing out and repeat nothing while commits go on.
* migrations: every row is published in the feed exactly once, however many processes open the
  file and whatever the older release wrote before one of them got the lock.
* projections: a vector whose target is gone is queued for removal until it is removed; vectors
  in use have one lane; nothing useful is removed.
* Hermes queue: an accepted turn is never lost, is stored at most once, in order, and does not
  stay queued for ever.
* summary tree: live ranges do not overlap within a level, a live parent has live children,
  and a live summary cites live evidence.
* personality router: what a call returned is what the store says, for good; replies keep the
  limits in force however calls fail; an object finds its own records whatever its clock says.
* project records: `connected_to` finds all that lies within its hops; dream and the traversal
  agree on what is close and on what a name refers to.

## Modules

`EvidencedBelief` (abstract) <- refined by - `MemoryStore` <- extended by - `CommitFeed` <- extended
by - `Replication` (with `ExportPages`) <- extended by - `Migration` <- extended by - `Following`, which
refines `Follower` (abstract); `MemoryStore` <- extended by - `Projections`. `TurnLog` (abstract) <-
refined by - `HermesQueue`. `SummaryTree` <- extended by - `SummaryWake`. `Personality` and
`ProjectGraph` stand alone. `MC*` modules hold the finite instances, `*Proofs` modules the theorems,
on top of each other as their modules are (`ReplicationProofs` uses `MemoryStoreProofs`);
`Recursion` has the induction and the recursive functions they share. In the modules, operators
commented "Seeded fault" are used by nothing: the mutants put them in place of the definition that
follows them.

**MemoryStore** models the tables of one (tenant, person) scope; scopes share no rows and every
statement filters by scope, so one scope is enough. One action is one operation with its guards
(validation, the rows it must find, the schema triggers that would abort it) and everything it
writes. An operation that fails, or that replays a stored result (the same ingestion key, an
archive of an archived claim), changes nothing and is a stuttering step. Abstractions:

* remember and correct insert one source, one piece of evidence quoting it and at most one
  claim. They share an id, so `source[s]` is the state of source `s` and its evidence,
  `claim[s]` the claim that originates in it. delete_source tombstones both together.
* contents, quotes, confidences and locators are left out. `captured_at` equals `valid_from`,
  as correct always makes it.
* a claim row keeps status, tier, processing state, the profile key (for `profile_fact`
  claims) and the two interval ends; the beginnings are `validFrom` and `recordedAt`.
* `ClaimInput` is the set of claims a caller may attach: any legal combination of tier and
  processing state that `is_legal_state_combination` accepts.

`CurrentAnswers` and `AsOf` are the predicates of the search queries in `retrieval.rs`; ranking
and byte budgets only order and cut an answer set and are not modelled.

**EvidencedBelief** says what a memory of this kind promises with no tables: the belief set is
recomputed from the evidence after each step. `MemoryStore!Belief` is the refinement mapping
(accepted claims are the beliefs).

**CommitFeed** wraps each operation with the commit it appends, a record with one set per
export-record kind, built from the rows as they are after the operation, as `append_commit`
callers do by hand. **Replication** adds a second store that applies the feed: skip by ledger,
refuse, materialize by kind, ledger, re-export; a batch is one transaction. The host may
deliver any run of commits again but leaves no gap (the applied cursor). `EchoSpec` adds the
way back, to a store that goes on writing. What `apply_deletion`, `apply_claim` and the rest do to tables the feed has no records
for (summaries, the outbox) is in `SummaryTree` or left out.

**ExportPages** is the pagination of `export` as a function of the feed: the fetch whose `LIMIT`
doubles until its last commit is whole, `pack_export_page`, which packs whole commits under both
budgets and always at least one, the cursor, and the mark a caller freezes with its first page.
A record counts as one unit of the byte budget. `Replication!PagesTileTheFeed` asks it of every
feed, cursor and mark that can occur, so commits between two pages are covered.
`docs/architecture.md:35` says that "a page boundary may split a commit"; the code never does, and
`apply` depends on that.

**Migration** puts before the present release the file an older one left. Older releases write
rows and no commits. A process reads `user_version`, later takes the lock and runs the steps of the
version it read: step 6 fills in the origin of sources, step 8 creates corrections and publishes all
rows in one bootstrap commit if the feed is empty. Any number of processes may hold an old
version. Step 8 cannot recover corrections from before it, which `docs/architecture.md:35`
documents. An older binary that still writes after the migration is not modelled: the present
triggers stop some of what it would do and not the rest.

**Follower** says what a replica promises a reader, with no records, ledgers or batches: it is in a
state the store was in, and only moves to later ones. **Following** shows it: the database does
not keep the states it was in, so the module adds them to `Migration` as a variable `history` that nothing
else reads. Every behaviour of `MigrationSpec` has such a history, so `TracedSpec` rules out none.
The leader of the abstract module is what the store has published: nothing, until its file is
migrated. The bootstrap then publishes everything at once, which `Follower` has as one step.

**Projections** adds to each operation its full-text row and its repair rows, an embedder that
reads a target (`projection_input`) and stores a vector in a later transaction
(`upsert_embedding` with its checks), and `repair_projections` in batches. One model version is
modelled; its lane (dimension, normalization, distance) is a number, ordered like the tuples.
Target text never changes in a store that only runs these operations, so hash and revision
checks reduce to whether the target is current.

**HermesQueue** models the queue file, the worker thread of each provider step by step (each
step is one SQLite statement, one wait or one answer of the child), `sync_turn`, shutdown and
restart, the 10 s timeout (the answer fails before or after the child's commit), a crash that
leaves a child running, a thread that dies, quarantine of rows of another scope, and providers
in one process (one lock per queue file) or in several (no lock). zkr is a set of ingestion
keys with a count. **TurnLog** is what a provider gets of all that: a log of captured turns that is
settled from the front, each turn stored once or given up. A turn's place in the log is its row id,
and a place is never given twice.

**SummaryTree** models the `summary_nodes` of one scope: nap, merge, rebuild of a leaf and of a
parent, each with its checks, the insert trigger and the unique index on live ranges, and the
invalidation that delete_source and correct call. `Affected` is the recursive query of
`invalidate_summaries_for_evidence` as a least closed set. Evidence is recorded, deleted and
corrected by actions of the module, since MemoryStore's other tables do not matter to the tree.
`recorded_at` is left out: an operation given one that is too early fails and nothing else reads
it. `ReplicaSpec` adds the deletion that `apply` makes. zoom and wake write nothing.

**SummaryWake** is the cover of the live summaries that wake computes for a number of bytes, as a
function of the tree: roots from the newest on as long as they fit, then parents opened from the
newest on until one does not fit. Of a text it keeps the length, `Bytes`. `Clamped` raises a
`max_bytes` of zero to one and cuts one beyond the largest page, as the code does.

**Personality** models the objects (turn counters, recent events, rules) and the store they share,
a map from ingestion keys to records. A call is a list of records, written one by one; each record
is two steps, the look-up of `recorded_at` under its key (`ingestion_timestamps`) and `remember`,
which answers as a replay, inserts, or fails. Before any of it the event is pushed and the counters
move, and they stay moved if the call fails. The rules, the learned policy and `derive_signals` are
operators; a message is one of a few kinds, by the words the code looks for. Subtractions that
are not saturating are modulo `Modulus` (2^64 in the code). A failure ends a call at any record;
a restart drops an object, its counters and its call; a deletion leaves a tombstone under the key.

**ProjectGraph** models current claims as records with connections, where one project fact is named
by several strings: claim id, subject (the ordered list of its categories), predicate, project,
category, and category within the project. Beside project facts (`Candidates`) there are ordinary
claims, whose value may parse as a record and so have targets, too: dream reads all of them
(`Live`), `connected_to` only project facts. The actions are remember and its project variants,
correct (which mints a new claim id, so that targets by id dangle) and the loss of a claim by
delete_source or archive. `Activated` is the loop of `compute_activated_project_ids`, and
`Associated` and `Unresolved` are those of dream. The two use different claims and different tests
of what a string names (`fact_matches_node`, `claim_points_to`), which is why it is worth a property
how far they agree: associated facts are two hops apart unless they only meet in an
ordinary claim (`BridgedOutside`), and of the targets that name no project fact dream leaves out of
its unresolved ones exactly names of ordinary claims.

## Runs

| run | instance | shows |
|---|---|---|
| `store` | 3 sources, 1 profile key, 1 review, 3 x 3 times | support, profile and review invariants, table agreement, current search = end of the as_of history, one answer per lineage, nothing final is revived, refinement of EvidencedBelief |
| `store_rewrite` | without profiles and links | **violated**: a correction changes what an earlier recorded time answers |
| `replica_follows` | 3 sources, files of versions 0, 5 and 7, 4 commits, batches of up to 2, pages of 3 | replica = store, never refused, re-exported once, in no state the store was not in (refinement of Follower); pages tile the feed; every row published once |
| `migration_race` | a new file, 2 processes | **violated**: a migration that lost the race gives a raw source an origin |
| `replica_echo` | 2 sources, 2 commits | **violated**: an echoed older record takes a superseded claim back into force |
| `projections` | 2 sources (4 targets), 2 lanes, 1 embedder, batches of 1 | outbox safety, one lane, nothing useful removed; every leftover vector goes |
| `queue_two_processes` | 2 turns, 2 processes, 2 attempts, 1 fault | no loss, order, refinement of TurnLog (so no duplicate) |
| `queue_drains` | 2 turns of 2 users in one process | no turn stays queued |
| `summaries_tree` | 2 pieces of evidence, 7 nodes in minting order | live summaries over live evidence, parents match children, ranges nest, repair never stuck; the cover of wake fits, covers once, newest detail first, for four budgets |
| `summaries_replica` | 2 pieces of evidence, 3 nodes | **violated**: a deletion that arrives by apply leaves summaries live |
| `personality` | 2 objects, 6 events of 2 participants, 2 rule sets, 2 clock readings, 3 calls, 1 fault | what was returned stays on record, replies keep the limits, own replays ignore the clock |
| `project_graph` | 3 claims, 2 predicates, 2 categories, 1 other subject, 1 connection each, 2 hops | the traversal is complete, associations are two hops apart, unresolved targets name no fact, and resolved ones a fact or an ordinary claim |

Bounds. Three sources are the least with which a claim can have its own support, gain a second,
and be corrected or lose one while a third thing happens; chains of two corrections need three
times on each axis. `OneSize` bounds `store` to one of three sizes: one lineage over three times;
or two times with up to two links beyond a claim's own evidence; or two times with one such link
beside a profile entry or a review. The theorems lift them all.

In `replica_follows` four commits are enough for remember, link or profile, correct, delete, with
every split into batches and pages; the theorems lift the bounds. The start versions are a new file, one before step 6 and one
before step 8. `PlainOrShort` gives all four commits to a store that begins empty; after the
bootstrap of an older file, or while a process still holds an older version, there is one commit
more, and an older release writes up to four things (sources, deletions, promotions, links, an entry,
a review).

In `projections`, `RecordedWhenValid` ties the two times together, because projections look at
neither; two sources give four targets, so a vector in use, a leftover and a late embedder exist at
once. `LinksOrLanes`: where a claim has evidence beyond its own, there is one vector of one lane,
one repair row and no embedder at work; without such a link all of it is free. `LeftoversGo` is
checked under both constraints.

For the queue, two turns show order, two attempts the last and the one before, one fault a crash or a
dead thread at every point; the theorems lift all these bounds.

Seven nodes are four leaves, two halves and a root, or two leaves, their parent and all three
rebuilt. `IdsInOrder` uses node ids in the order they are minted; `SmallOrPlain` stops trees
with a leaf that cites both pieces of evidence at five nodes. Texts of one to three bytes make
parents both shorter and longer than their children; the budgets are zero, one that fits a root,
one that fits some, and one beyond the largest page. The theorems lift these bounds.

In `personality` two objects meet in every step of two calls about the same event, and three calls
are a reply, one more than the limit, and its repetition. The rule sets differ in both limits. The
events make the interval bite, wrap (a late event) and not apply, and produce several signals of one
message, so that a call has records left when it fails; two removals of a reaction have one key and
different texts, so the second conflicts. `PlainOrShort` allows the third call when there was no fault,
no card and no event but mentions and messages. With a modulus of 8 and epochs up to 3 a difference that
wraps is larger than any interval, as it is with 2^64. The theorems lift these bounds.

In `project_graph` three claims make a bridge (two facts with a common neighbour, of the project or
not), with every way to name the target. A subject lists one category there, and a correction may add
the other. The code caps `max_hops` at 4; two hops reach everything among three claims. The
theorems lift these bounds.

Deadlock is not checked anywhere: ids, times, commits, turns, nodes and events run out and the store
may simply not be called again.

Fairness. The store itself has none: nobody is obliged to call it. `HermesQueue!Spec` assumes
weak fairness of each provider's worker: a running thread is scheduled, and each wait in its
loop (`_wake`, the child, the SQLite lock) has a timeout. It is not assumed that anybody starts
a worker again, so `QueueDrains` is conditional on some worker staying alive.
`RepairedSpec` assumes that the host keeps calling repair as long as the outbox has rows, which
is what `docs/` asks of a host; the embedder and the operations get no fairness.

### What the violated runs say

* `store_rewrite`: `docs/research.md:31` and `docs/architecture.md:15` promise that a correction
  does not overwrite history. A claim has one row, and `supersede_stale_claim`
  (`lifecycle.rs:1049`) closes its valid interval for all recorded times: after a correction, a
  query as of a recorded time before it gets no answer for valid times at or after `valid_at`.
* `migration_race`: `migrate` reads the version (`schema.rs:12`) before it takes the lock (`:21`) and
  does not read it again. A process that read 0, and waited while another migrated the file and used
  it, runs step 6 over rows of the present release: a source stored without a claim gets as origin the
  one claim its evidence was linked to, and a retry of its remember is refused as a conflict
  (`lifecycle.rs:107`). The test `raw_ingestion_replay_is_not_changed_by_later_claim_links`
  (`tests/lifecycle.rs:80`) says it must not be. The feed is not harmed: `EveryRowPublishedOnce`
  holds in the presence of the race, because step 8 looks whether the feed is empty under the lock.
* `replica_echo`: `README.md:13` promises that corrections supersede history. `apply_claim`
  (`apply.rs:544`) overwrites what it finds, and the ledger knows only what the store applied,
  not what it wrote. A store that is handed its own older record by a replica accepts a
  superseded claim again.
* `summaries_replica`: `README.md:45` and `docs/architecture.md:25` promise that deletion marks
  the summaries of what it deletes stale, on every replica. `apply_deletion` (`apply.rs:755`)
  tombstones the evidence and does not call `invalidate_summaries_for_evidence`.

## Proofs

All theorems hold for arbitrary constants under the named assumptions of the modules: times are
naturals below `Open`, sentinels are no ids, claim inputs are legal, attempts are positive,
lanes are naturals, epochs lie below the modulus of their type, rules and clocks are naturals.
Batches and pages are at least one, older releases know schema versions below 8, `max_hops` may be
at least two (it is four in the code, and a bridge is two hops), and a page has room for a byte.
Ids need not be finite in number, except in SummaryWake: a cover is computed from finitely many
summaries (`IdsAreFinite`).

*Recursion.* The library states induction for predicates given as operators, which the provers cannot
instantiate, so this module states it for sets: a set of naturals with 0 that is closed under successor
has all naturals (`InductiveSet`), likewise with all smaller numbers as hypothesis (`ProgressiveSet`).
From that follows that functions defined by recursion exist, along the naturals (`IterationExists`,
`EndlessIterationExists`) and over finite sets (`FoldExists`), and so that what a definition like
`Within` or `CoverWithin` chooses satisfies its own equation.

*MemoryStoreProofs.* The inductive invariant is
`StoreInv == TypeOK /\ TablesAgree /\ AcceptedIffSupported`. `AcceptedIffSupported` alone is not
inductive: that a fresh id can be used by remember needs that nothing refers to an absent id
(`AbsentIdsAreUnused`); that a correction leaves the other claims' status right needs
`SupersededIffCorrected`; that intervals stay proper needs `IntervalsFollowStatus`, and that no
archived claim is ever superseded (the schema forbids the row) needs `StatesAreLegal`. Each action
has a lemma (`RememberInv`, `CorrectInv`, `DeleteSourceInv`, ...) and `InvStep` combines them.
From it follow the type invariant, the safety invariants, the action property `ForwardOnly`,
the agreement of the two searches, and `StoreImplementsBelief`: every action maps to an action
of EvidencedBelief or to a stutter. `LineagesAnswerOnce` takes an induction besides, over the
sum of the times from which two claims of one lineage are valid: two of them with a correction
each follow from their predecessors, and the one without is the root, the earliest.

*ReplicationProofs.* A feed has a replay `R`: `R[i]` are the tables its first `i` commits make of empty
ones. `FeedInv` says of the store that no record is in two commits, that all records are of the past
(`Past`: the rows they have are there, as they were or further on, so a later record of the same row
differs), and that the feed tells the tables (`Told`). `ReplicaInv` says that the replica is
on the replay, that the ledger, the cursor and the replica's feed all say how far, and that the replay
ends in the store's tables. One fact about operations carries both: a commit has every row its
operation writes and no other (`Writes`, with one lemma for each operation, `RememberWrites`,
`CorrectWrites`, `DeleteSourceWrites`, ...), and then it materializes, on the tables before the operation,
as those after it (`FollowsMaterializes`, `Written`). `ApplyFollows` takes a batch along the replay,
skipping what the ledger has; `Bootstraps` does for the one commit of a migration what `Written` does for
operations. `MirrorMeetsStore`, `ReplicaPassesOn`, `FeedIsAccepted` and `RowsArePublishedOnce` follow.
All four are about `MigrationSpec`, so about a store that begins as any older release left it, too.
`ReplicaFollowsTheStore` is the refinement of `Follower`: `TraceInv` ties the history to the
replay (`OnTheReplay`: the replica's tables are the entry of the history at its cursor), and every step,
a batch with commits the replica had included, maps to `CatchUp`, `Lead` or a stutter (`TracedStep`).
For `PagesTile` commits must be finite (`FiniteInv`): at no time has a store infinitely many rows.
Then each commit ends after the one before, the fetch that doubles finds a limit that is enough, and a
page is a run of whole commits.

With feeds both ways (`EchoSpec`) neither store is on a replay of anything: rows come back changed,
and the invariants above are lost, `AcceptedIffSupported` among them. What survives is proved of `Apply`
for any tables, any ledger and any batch (`ApplyGains`, by induction over the commits of a batch): the
ledger gains the whole batch or the batch is refused, tombstones stay (`TombstonesStay`), and a
batch the ledger has changes nothing. Whence `EchoInv`: each ledger has the other feed up to its
cursor, and all commits tell of sources that are there (`Settled`), which is all that
`NoSourceComesBack` and `RedeliveryIsHarmless` need. `RecordsArePassedOnOnce` adds that the ledger of
the replica has its own feed (`Once`). `DeletionsAreFinal`, `RedeliveryChangesNothing` and
`PassedOnOnce` have no run beside the violated `replica_echo`: they are true in all 23,397 states of its
instance with three commits and a review, and proved for every other.

*ProjectionsProofs.* The key fact (`Loses`) is that a target that exists never becomes current
again once it is not: ids are not reused, statuses are final, tiers move one way. So an
operation can only turn useful vectors into leftovers, and only those it enqueues. The
invariant adds to `StoreInv` that a stored vector has a row behind its target. Type correctness
(`ProjectionsTypes`, which no run repeats) comes from the same induction.

*HermesQueueProofs.* The invariant `QueueInv` says what the program counter of a worker implies
for the row it holds: the row was queued, nothing ahead of it is undecided, a child exists only
while the worker waits, an answered child has stored its turn. `NothingAhead` is what makes
order survive two workers on the same file. `QueueTypes` is part of the invariant: an attempt
count below the limit needs that only a worker holding the row raises it. `QueueIsALog` is the
refinement of TurnLog from the same invariant (`LogStep`): what a worker or an orphaned child is at
work on is foremost in the log (`WorkIsForemost`), so that its commit, its quarantine or its last failure
settles a turn in its order, and a new row id is above all others (`CapturesATurn`).

*SummaryTreeProofs.* The invariant `TreeInv` says that every node, stale ones included, keeps
two halves as children, that live ranges differ, and that a live parent cites what its two live
children cite. Hence (`AffectedIsCiting`) the nodes that cite some evidence are closed under
live parents, so the recursion in the query adds nothing to a direct match, and
(`RebuiltParentHasHalves`) a rebuilt parent joins exactly two live nodes. `TreeTypes` needs that the
leaf a nap continues from exists (`HasLastLeaf`). `BlockInv` adds that every node is at an aligned range
of its level, `Width[level]` positions from a multiple of it; such ranges nest, whence
`LiveRangesAlwaysNest`. For wake, `CoverOK` is an invariant of the loop: the nodes fit, are apart, have
the positions of the roots, and are in full detail after any part (`NewestInDetail`). Roots are
(`RootsAreApart`: whatever lies within a live summary of a higher level has a live parent), and opening
the newest parent keeps all of it (`OpeningKeepsCover`), because a summary has one parent.
`RepairAlwaysGoesOn` is `RepairNeverStuck` with the step of Rebuild spelled out in place of ENABLED
(`RebuildAllowed`, which `AllowedIsRebuild` shows to be a step of Rebuild): of the nodes dream reports,
one of the lowest level can be rebuilt, since what was below it is live or has a live node in its place.

*PersonalityProofs.* The invariant `PersonalityInv` adds to the shape of rows and calls in
progress: that the records of a call before `next` are in the store as written
(`WrittenIsOnRecord`); `CountsReplies`, which ties `consecutive_agent_turns` to the
decisions made; and `DatesReplies`, which ties `last_agent_reply_epoch` to the last reply. From
the first follows `ReturnedStaysOnRecord`: when a call returns, all its records are on record, and a
row never changes except into a tombstone. `OwnReplaysKeepTheirTime` rests on rows never changing their time or author.

*ProjectGraphProofs.* `UnresolvedIsUnknown` needs no invariant: for every graph, what dream knows as
an identifier is what `fact_matches_node` would match, or else a name of an ordinary claim
(`KnownMatches`). Neither does `TraversalFindsAll`, an induction over hops (`AllCovered`: what is
within `n` connections is activated after `n` rounds, and its names are on the frontier).
`AssociationsAreClose` gives the two hops between facts with a shared target or a bridge inside the
project; it rests on `GraphTypes`, an invariant of the operations.

Only model-checked: `RepairNeverStuck` as it is stated (ENABLED), the liveness properties (`QueueDrains`,
`LeftoversGo`), which the prover cannot do under fairness, and the violations.

## Notes on behaviour that a reader may not expect

None of these contradicts a promise of the repository closely enough to be a violated run; the models
have all of them.

* A platform that delivers a late event makes `epoch - last_agent_reply_epoch` wrap in a release
  build: the interval rule lets the event pass. A debug build panics.
* `route_event` counts its reply before it has recorded it. If the record fails, the event counts
  against the limits though the caller got an error.
* Two personality objects whose clocks differ, and who meet on one record between look-up and
  write, conflict although they say the same. A call that failed in its middle can meet the
  same conflict on every retry, when what it derives has changed since.
* The traversal may report a fact that no chain of `max_hops` connections reaches: a string on the
  frontier is matched against targets too, so siblings with the same dangling target, subject or
  predicate are drawn in. `TraversalIsComplete` states the other direction only.
* dream's `claim_points_to` knows neither category nor project names, so connections that use them
  take part in the traversal and in `Unresolved` but not in associations.

## Not modelled

* Projects: filters, scores, vectors, category suggestions, hubs and schemas. They choose among
  facts and order them; `remember_project_record` is otherwise `remember` of MemoryStore, and its
  vector an `upsert_embedding` of Projections.
* Personality: raw events, hypotheses and findings, whose keys contain the clock; `advance_epoch`;
  `signal_summary`, `assess_risk`, `analyze_conversation`, `validate_persona` and search contexts,
  which compute an answer and keep nothing.
* A replica that is also written to locally, and so two writers of one scope: `replica_echo` shows the
  first thing that goes wrong then, and the theorems of `EchoSpec` say what holds when one of two
  stores that feed each other writes. Projections that apply changes on a replica.
* Several model versions at once, and the read-only audit `projection_issues`.
* Hermes: prefetch, tool calls and system prompt text run zkr and keep no state.
* Migration steps that only create tables, columns or triggers, and files `migrate` rejects. A file
  from before version 6 may have several entries for one profile key, and entries that differ from
  their claim; step 6 keeps the newest of each key and rewrites it from its claim. `profile` of an
  older file stands for what step 6 leaves; on the rows of the present release, which the race of
  `migration_race` hands it, step 6 changes no entry.
* The origin columns of a replica's sources (`apply_source_origin`), which are not among the tables
  compared: they are two fields of the source record, and apply writes nothing else from them.
* The settled flag of the OpenClaw plugin; modes, self-improvement and the CLI, which keep nothing.
* Ranking, full-text matching and vector scores, rendering, byte budgets of search results,
  repository parsing, and all wording: functions of the state that decide no state change.

What would come next: a second writer beside the replica, of which `EchoInv` assumes nothing that would
be lost, and projections on a replica.
