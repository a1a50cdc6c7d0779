------------------------------ MODULE MemoryStore ------------------------------
(***************************************************************************)
(* The authoritative tables of one (tenant, person) scope of a zkr store   *)
(* (src/store/lifecycle.rs): sources, evidence, claims, claim-evidence     *)
(* links, corrections, profile entries and daily reviews.  Every operation *)
(* runs as one SQLite transaction, so every operation is one action; an    *)
(* operation that returns an error or that only replays a stored result    *)
(* changes no table and is a stuttering step.                              *)
(*                                                                         *)
(* remember and correct each write one source, one piece of evidence that  *)
(* quotes it and at most one claim, with one recorded_at.  The three rows  *)
(* share one id here: evidence s quotes source s, claim s originates in it.*)
(* captured_at equals valid_from, as correct always makes it.              *)
(*                                                                         *)
(* What the same transactions write beside these tables is modelled by the *)
(* modules that extend this one: the projection-repair outbox by           *)
(* Projections, the commit feed by CommitFeed.                             *)
(***************************************************************************)
EXTENDS Naturals, FiniteSets

CONSTANTS
    Source,       \* ids the store can mint
    NoClaim,      \* stands for an absent claim reference
    Review,       \* ids of daily reviews
    Key,          \* predicates of profile_fact claims: the profile's keys
    NoKey,        \* the key of a claim of any other kind
    ValidTime,    \* valid_from and valid_at values callers supply
    RecordTime,   \* recorded_at and deleted_at values callers supply
    Open,         \* the NULL end of a half-open interval
    ClaimInput    \* claims a caller may attach to remember

Status == {"none", "accepted", "superseded", "retracted"}
Tier == {"short_term", "long_term", "archive"}
Processing == {"pending", "processed", "blocked"}

ASSUME TimeAssumption ==
    /\ ValidTime \subseteq Nat
    /\ RecordTime \subseteq Nat
    /\ Open \in Nat
    /\ \A t \in ValidTime \cup RecordTime : t < Open

ASSUME SentinelAssumption == NoClaim \notin Source /\ NoKey \notin Key

(* is_legal_state_combination, without the status conjunct that a new,     *)
(* accepted claim cannot break.                                            *)
LegalInput(input) ==
    input.tier \in {"long_term", "archive"} => input.processing = "processed"

ASSUME ClaimInputAssumption ==
    /\ ClaimInput \subseteq [key : Key \cup {NoKey}, tier : Tier, processing : Processing]
    /\ \A input \in ClaimInput : LegalInput(input)

VARIABLES
    source,        \* source[s]: absent, live or deleted; its evidence goes with it
    validFrom,     \* captured_at of source s and valid_from of claim s
    recordedAt,    \* recorded_at of source and evidence s, recorded_from of claim s
    claim,         \* claim[s]: the row of the claim that originates in source s
    supports,      \* supports[c]: evidence linked to claim c with relation supports
    contradicts,   \* contradicts[c]: evidence linked to claim c with relation contradicts
    corrects,      \* corrects[c]: the claim that claim c replaced (table corrections)
    profile,       \* profile[k]: the claim behind the profile entry of key k
    profileAt,     \* profileAt[k]: recorded_at of that entry
    review         \* review[r]: evidence review r cites, {} when there is no such row

vars == <<source, validFrom, recordedAt, claim, supports, contradicts, corrects,
          profile, profileAt, review>>

ClaimRow == [status : Status, tier : Tier, processing : Processing,
             key : Key \cup {NoKey},
             validUntil : ValidTime \cup {Open}, recordedUntil : RecordTime \cup {Open}]

NoRow == [status |-> "none", tier |-> "short_term", processing |-> "pending",
          key |-> NoKey, validUntil |-> Open, recordedUntil |-> Open]

TypeOK ==
    /\ source \in [Source -> {"absent", "live", "deleted"}]
    /\ validFrom \in [Source -> ValidTime \cup {Open}]
    /\ recordedAt \in [Source -> RecordTime \cup {Open}]
    /\ claim \in [Source -> ClaimRow]
    /\ supports \in [Source -> SUBSET Source]
    /\ contradicts \in [Source -> SUBSET Source]
    /\ corrects \in [Source -> Source \cup {NoClaim}]
    /\ profile \in [Key -> Source \cup {NoClaim}]
    /\ profileAt \in [Key -> RecordTime \cup {Open}]
    /\ review \in [Review -> SUBSET Source]

Live == {s \in Source : source[s] = "live"}
Accepted == {c \in Source : claim[c].status = "accepted"}
Superseded == {c \in Source : claim[c].status = "superseded"}
Retracted == {c \in Source : claim[c].status = "retracted"}

Init ==
    /\ source = [s \in Source |-> "absent"]
    /\ validFrom = [s \in Source |-> Open]
    /\ recordedAt = [s \in Source |-> Open]
    /\ claim = [s \in Source |-> NoRow]
    /\ supports = [c \in Source |-> {}]
    /\ contradicts = [c \in Source |-> {}]
    /\ corrects = [c \in Source |-> NoClaim]
    /\ profile = [k \in Key |-> NoClaim]
    /\ profileAt = [k \in Key |-> Open]
    /\ review = [r \in Review |-> {}]

--------------------------------------------------------------------------------
(* The rows remember and correct both insert: a live source, the evidence  *)
(* quoting it, and the times of both.                                      *)
InsertSource(s, v, t) ==
    /\ source[s] = "absent"
    /\ source' = [source EXCEPT ![s] = "live"]
    /\ validFrom' = [validFrom EXCEPT ![s] = v]
    /\ recordedAt' = [recordedAt EXCEPT ![s] = t]

(* insert_claim: an accepted, open row, supported by its own evidence.     *)
NewClaim(input) ==
    [status |-> "accepted", tier |-> input.tier, processing |-> input.processing,
     key |-> input.key, validUntil |-> Open, recordedUntil |-> Open]

(* remember of an observation that carries no claim.                       *)
Remember(s, v, t) ==
    /\ InsertSource(s, v, t)
    /\ UNCHANGED <<claim, supports, contradicts, corrects, profile, profileAt, review>>

(* remember of an observation together with the claim extracted from it.   *)
RememberClaim(s, v, t, input) ==
    /\ InsertSource(s, v, t)
    /\ claim' = [claim EXCEPT ![s] = NewClaim(input)]
    /\ supports' = [supports EXCEPT ![s] = {s}]
    /\ UNCHANGED <<contradicts, corrects, profile, profileAt, review>>

(* Seeded fault: corrections and deletions leave the profile table alone.  *)
KeepProfilesOf(gone) == gone \subseteq Source /\ UNCHANGED <<profile, profileAt>>

(* The profile table once the entries of the claims in `gone` are deleted. *)
DropProfilesOf(gone) ==
    /\ profile' = [k \in Key |-> IF profile[k] \in gone THEN NoClaim ELSE profile[k]]
    /\ profileAt' = [k \in Key |-> IF profile[k] \in gone THEN Open ELSE profileAt[k]]

(* Seeded fault: the status flips, but neither interval is closed.         *)
SupersededStillOpenRow(row, v, t) == [row EXCEPT !.status = "superseded"]

(* The old row after supersede_stale_claim: both intervals are closed.     *)
SupersededRow(row, v, t) ==
    [row EXCEPT !.status = "superseded", !.validUntil = v, !.recordedUntil = t]

(* validate_correction_time.                                               *)
CorrectionAdvances(old, v, t) == v > validFrom[old] /\ t > recordedAt[old]

(* Seeded fault: a claim that was already replaced can be corrected again. *)
CorrectableAgain(old) == claim[old].status # "none" /\ claim[old].tier # "archive"

(* find_correction_targets takes accepted claims only, and the schema's    *)
(* legal-state trigger aborts the transaction for an archived one.         *)
Correctable(old) == old \in Accepted /\ claim[old].tier # "archive"

(* correct: closes both intervals of an accepted claim and records its     *)
(* replacement with a user_correction source of its own.                   *)
Correct(old, s, v, t) ==
    /\ Correctable(old)
    /\ CorrectionAdvances(old, v, t)
    /\ InsertSource(s, v, t)
    /\ claim' = [claim EXCEPT
                    ![old] = SupersededRow(@, v, t),
                    ![s] = NewClaim([key |-> claim[old].key, tier |-> "long_term",
                                     processing |-> "processed"])]
    /\ supports' = [supports EXCEPT ![s] = {s}]
    /\ corrects' = [corrects EXCEPT ![s] = old]
    /\ DropProfilesOf({old})
    /\ UNCHANGED <<contradicts, review>>

--------------------------------------------------------------------------------
(* Claim c is linked, by either relation, to the evidence of source s.     *)
Cites(c, s) == s \in supports[c] \cup contradicts[c]

(* Seeded fault: the relation is not looked at, any live link keeps c.     *)
Unlinked(c, s) == (supports[c] \cup contradicts[c]) \cap (Live \ {s}) = {}

(* No supporting evidence of c is left once source s is tombstoned.        *)
Unsupported(c, s) == supports[c] \cap (Live \ {s}) = {}

(* retract_claims: the accepted claims the deletion of source s takes away.*)
LosesSupport(s) == {c \in Accepted : Cites(c, s) /\ Unsupported(c, s)}

(* Seeded fault: the claim gets the word its source has for being gone.    *)
DeletedRow(row, t) == [row EXCEPT !.status = "deleted", !.recordedUntil = t]

(* The row retract_claims leaves.                                          *)
RetractedRow(row, t) == [row EXCEPT !.status = "retracted", !.recordedUntil = t]

(* Seeded fault: only reviews with no other citation go.                   *)
ReviewsOnlyOf(s) == [r \in Review |-> IF review[r] = {s} THEN {} ELSE review[r]]

(* delete_dependent_projections: reviews citing the source's evidence go.  *)
ReviewsWithout(s) == [r \in Review |-> IF s \in review[r] THEN {} ELSE review[r]]

(* delete_source: tombstones the source and its evidence, retracts what    *)
(* loses its last support, and deletes the profile entries of retracted    *)
(* claims and the reviews that cite the evidence.  The schema's interval   *)
(* trigger aborts the whole deletion unless deleted_at is later than the   *)
(* recorded_from of every claim it retracts.                               *)
DeleteSource(s, t) ==
    /\ source[s] = "live"
    /\ t >= recordedAt[s]
    /\ \A c \in LosesSupport(s) : t > recordedAt[c]
    /\ source' = [source EXCEPT ![s] = "deleted"]
    /\ claim' = [c \in Source |-> IF c \in LosesSupport(s) THEN RetractedRow(claim[c], t)
                                                           ELSE claim[c]]
    /\ DropProfilesOf(Retracted \cup LosesSupport(s))
    /\ review' = ReviewsWithout(s)
    /\ UNCHANGED <<validFrom, recordedAt, supports, contradicts, corrects>>

--------------------------------------------------------------------------------
(* Seeded fault: the tier is not looked at.                                *)
PromotableFromAnyTier(row) == row.status = "accepted" /\ row.processing = "processed"

(* The checks promote makes on the row.                                    *)
Promotable(row) ==
    row.status = "accepted" /\ row.processing = "processed" /\ row.tier = "short_term"

(* promote: a processed short_term claim in force becomes long_term.       *)
Promote(c, t) ==
    /\ Promotable(claim[c])
    /\ t >= recordedAt[c]
    /\ claim' = [claim EXCEPT ![c].tier = "long_term"]
    /\ UNCHANGED <<source, validFrom, recordedAt, supports, contradicts, corrects,
                   profile, profileAt, review>>

(* archive: any processed claim that is not superseded, a retracted one    *)
(* included; archiving an archived claim returns without writing.          *)
Archive(c, t) ==
    /\ claim[c].status \in {"accepted", "retracted"}
    /\ claim[c].tier # "archive"
    /\ claim[c].processing = "processed"
    /\ t >= recordedAt[c]
    /\ claim' = [claim EXCEPT ![c].tier = "archive"]
    /\ UNCHANGED <<source, validFrom, recordedAt, supports, contradicts, corrects,
                   profile, profileAt, review>>

(* Seeded fault: evidence that was deleted can still be linked.            *)
LinkableToAny(c, e) == c \in Accepted /\ source[e] # "absent" /\ ~Cites(c, e)

(* What link_claim_evidence asks of both ends, and that no link exists yet.*)
Linkable(c, e) == c \in Accepted /\ e \in Live /\ ~Cites(c, e)

(* link_claim_evidence with relation supports.                             *)
LinkSupport(c, e) ==
    /\ Linkable(c, e)
    /\ supports' = [supports EXCEPT ![c] = @ \cup {e}]
    /\ UNCHANGED <<source, validFrom, recordedAt, claim, contradicts, corrects,
                   profile, profileAt, review>>

(* link_claim_evidence with relation contradicts.                          *)
LinkContradiction(c, e) ==
    /\ Linkable(c, e)
    /\ contradicts' = [contradicts EXCEPT ![c] = @ \cup {e}]
    /\ UNCHANGED <<source, validFrom, recordedAt, claim, supports, corrects,
                   profile, profileAt, review>>

(* A claim that may stand behind a profile entry.                          *)
ProfileFact(c) ==
    /\ c \in Accepted
    /\ claim[c].key # NoKey
    /\ claim[c].validUntil = Open
    /\ claim[c].recordedUntil = Open

(* store_profile: one entry per key, replaced only by a later one.         *)
StoreProfile(c, t) ==
    /\ ProfileFact(c)
    /\ t >= recordedAt[c]
    /\ LET k == claim[c].key
       IN  /\ profile[k] # NoClaim => t > profileAt[k]
           /\ profile' = [profile EXCEPT ![k] = c]
           /\ profileAt' = [profileAt EXCEPT ![k] = t]
    /\ UNCHANGED <<source, validFrom, recordedAt, claim, supports, contradicts,
                   corrects, review>>

(* store_review: a review cites at least one piece of evidence, all live.  *)
StoreReview(r, cited) ==
    /\ review[r] = {}
    /\ cited # {}
    /\ cited \subseteq Live
    /\ review' = [review EXCEPT ![r] = cited]
    /\ UNCHANGED <<source, validFrom, recordedAt, claim, supports, contradicts,
                   corrects, profile, profileAt>>

Next ==
    \/ \E s \in Source, v \in ValidTime, t \in RecordTime :
          \/ Remember(s, v, t)
          \/ \E input \in ClaimInput : RememberClaim(s, v, t, input)
          \/ \E old \in Source : Correct(old, s, v, t)
    \/ \E s \in Source, t \in RecordTime :
          DeleteSource(s, t) \/ Promote(s, t) \/ Archive(s, t) \/ StoreProfile(s, t)
    \/ \E c, e \in Source : LinkSupport(c, e) \/ LinkContradiction(c, e)
    \/ \E r \in Review, cited \in SUBSET Source : StoreReview(r, cited)

Spec == Init /\ [][Next]_vars

--------------------------------------------------------------------------------
(* The claims search can answer with when no as_of is given: in force, not *)
(* archived, processed, and supported by live evidence of a live source.   *)
CurrentAnswers ==
    {c \in Accepted : /\ claim[c].validUntil = Open /\ claim[c].recordedUntil = Open
                      /\ claim[c].tier # "archive" /\ claim[c].processing = "processed"
                      /\ supports[c] \cap Live # {}}

(* The claims a bitemporal search can answer with: what the store says held*)
(* at valid time v, as it was recorded at time t.                          *)
AsOf(v, t) ==
    {c \in Accepted \cup Superseded :
        /\ validFrom[c] <= v /\ v < claim[c].validUntil
        /\ recordedAt[c] <= t /\ t < claim[c].recordedUntil
        /\ claim[c].processing = "processed"
        /\ \E e \in supports[c] \cap Live : recordedAt[e] <= t /\ validFrom[e] <= v}

--------------------------------------------------------------------------------
(* A claim is accepted exactly when it was recorded, no correction has     *)
(* replaced it, and some supporting evidence of it is still live: deleting *)
(* sources in any order retracts neither too little (remember, link and    *)
(* delete_source of other sources in between) nor too much.                *)
AcceptedIffSupported ==
    \A c \in Source :
        c \in Accepted <=> /\ claim[c].status # "none"
                          /\ \A d \in Source : corrects[d] # c
                          /\ supports[c] \cap Live # {}

(* An id nobody minted is used nowhere.                                    *)
AbsentIdsAreUnused ==
    \A s \in Source : source[s] = "absent" =>
        /\ claim[s].status = "none"
        /\ corrects[s] = NoClaim
        /\ supports[s] \cup contradicts[s] = {}
        /\ \A c \in Source : ~Cites(c, s)

(* A claim is superseded exactly when a correction names it.               *)
SupersededIffCorrected ==
    \A c \in Source : c \in Superseded <=> \E d \in Source : corrects[d] = c

(* A claim in force is open at both ends, a superseded one is closed at    *)
(* both, a retracted one in recorded time, and no interval is ever empty;  *)
(* what was recorded carries the times it came with.                       *)
IntervalsFollowStatus ==
    /\ \A c \in Accepted : claim[c].validUntil = Open /\ claim[c].recordedUntil = Open
    /\ \A c \in Superseded \cup Retracted :
          claim[c].recordedUntil \in RecordTime /\ recordedAt[c] < claim[c].recordedUntil
    /\ \A c \in Superseded :
          claim[c].validUntil \in ValidTime /\ validFrom[c] < claim[c].validUntil
    /\ \A c \in Retracted : claim[c].validUntil = Open
    /\ \A s \in Source : source[s] # "absent" =>
          validFrom[s] \in ValidTime /\ recordedAt[s] \in RecordTime

(* No claim is replaced twice, and a replacement begins, on both time axes,*)
(* exactly where the correction closed what it replaced.                   *)
CorrectionsAbut ==
    \A c, old \in Source : corrects[c] = old =>
        /\ validFrom[c] = claim[old].validUntil
        /\ recordedAt[c] = claim[old].recordedUntil
        /\ \A d \in Source : corrects[d] = old => d = c

(* No sequence of operations leaves a row in a state that                  *)
(* is_legal_state_combination rules out.                                   *)
StatesAreLegal ==
    \A c \in Source :
        /\ LegalInput(claim[c])
        /\ c \in Superseded => claim[c].tier # "archive"

(* The rows of different tables that one transaction writes never drift    *)
(* apart: the ids of remember and correct, corrections and the status of   *)
(* what they replaced, a claim's status, its tier and its two intervals.   *)
TablesAgree ==
    /\ AbsentIdsAreUnused
    /\ SupersededIffCorrected
    /\ IntervalsFollowStatus
    /\ StatesAreLegal
    /\ CorrectionsAbut

(* Every profile entry is backed by an accepted, open profile_fact claim   *)
(* with the entry's key, whatever corrections and deletions came after     *)
(* store_profile.                                                          *)
ProfilesAreBacked ==
    \A k \in Key : profile[k] # NoClaim =>
        ProfileFact(profile[k]) /\ claim[profile[k]].key = k

(* A stored review cites only evidence that is still live: delete_source   *)
(* removes every review that cites the evidence it tombstones.             *)
ReviewsCiteLiveEvidence == \A r \in Review : review[r] \subseteq Live

(* The original claim of the correction lineage c belongs to.              *)
LineageRoot ==
    LET root[c \in Source] == IF corrects[c] = NoClaim THEN c ELSE root[corrects[c]]
    IN  root

(* At every point of valid and recorded time, as_of search answers with at *)
(* most one claim of a correction lineage: corrections never fork, and a   *)
(* superseded claim's intervals never overlap those of its replacements.   *)
OneAnswerPerLineage ==
    \A v \in ValidTime, t \in RecordTime : \A c, d \in AsOf(v, t) :
        LineageRoot[c] = LineageRoot[d] => c = d

(* Ordinary search and as_of search agree at the end of both time axes:    *)
(* what is in force is what no interval has closed, archived claims aside. *)
CurrentAnswersAreTheOpenHistory ==
    CurrentAnswers = {c \in AsOf(Open - 1, Open - 1) : claim[c].tier # "archive"}

TierRank == [short_term |-> 0, long_term |-> 1, archive |-> 2]

(* No operation takes a row back: a tombstoned source stays tombstoned, a  *)
(* superseded or retracted claim is final, a tier only moves towards the   *)
(* archive.                                                                *)
ForwardOnly ==
    [][\A s \in Source :
          /\ source[s] = "deleted" => source'[s] = "deleted"
          /\ claim[s].status \in {"superseded", "retracted"} =>
                claim'[s].status = claim[s].status
          /\ claim[s].status # "none" => TierRank[claim[s].tier] <= TierRank[claim'[s].tier]]_vars

(* The store implements the abstract belief memory: the rows lifecycle.rs  *)
(* maintains one by one are at every step the belief set the live evidence *)
(* justifies.                                                              *)
Belief == INSTANCE EvidencedBelief WITH
    Evidence <- Source,
    Claim <- Source,
    known <- {c \in Source : claim[c].status # "none"},
    support <- supports,
    live <- Live,
    forgotten <- {s \in Source : source[s] = "deleted"},
    replaced <- Superseded,
    believed <- Accepted

ImplementsBelief == Belief!BeliefSpec

(* What docs/research.md says of corrections: they do not overwrite        *)
(* history.  A query as of a time before the correction was recorded       *)
(* should answer as it did before.                                         *)
CorrectionKeepsHistory ==
    [][\A v \in ValidTime, t \in RecordTime : \A old \in AsOf(v, t) :
          claim'[old].status = "superseded" /\ claim[old].status = "accepted"
                /\ t < claim'[old].recordedUntil
            => old \in AsOf(v, t)']_vars
================================================================================
