--------------------------- MODULE MemoryStoreProofs ---------------------------
(***************************************************************************)
(* Theorems about MemoryStore for every set of sources, keys, reviews,     *)
(* claims a caller may attach and times.  TypeOK is inductive by itself;   *)
(* AcceptedIffSupported is inductive only together with TablesAgree, which *)
(* rules out a fresh id that old rows already refer to.                    *)
(***************************************************************************)
EXTENDS MemoryStore, Recursion, TLAPS

--------------------------------------------------------------------------------
(* A row remember or correct inserts is a claim row.                       *)
LEMMA NewClaimType ==
    ASSUME NEW input \in [key : Key \cup {NoKey}, tier : Tier, processing : Processing]
    PROVE  NewClaim(input) \in ClaimRow
  BY TimeAssumption DEF NewClaim, ClaimRow, Status

(* Closing a claim's intervals keeps it a claim row.                       *)
LEMMA SupersededRowType ==
    ASSUME NEW row \in ClaimRow, NEW v \in ValidTime, NEW t \in RecordTime
    PROVE  SupersededRow(row, v, t) \in ClaimRow
  BY DEF SupersededRow, ClaimRow, Status

(* Retracting a claim keeps it a claim row.                                *)
LEMMA RetractedRowType ==
    ASSUME NEW row \in ClaimRow, NEW t \in RecordTime
    PROVE  RetractedRow(row, t) \in ClaimRow
  BY DEF RetractedRow, ClaimRow, Status

(* Moving a claim to another tier keeps it a claim row.                    *)
LEMMA TierRowType ==
    ASSUME NEW row \in ClaimRow, NEW tier \in Tier
    PROVE  [row EXCEPT !.tier = tier] \in ClaimRow
  BY DEF ClaimRow

(* Deleting profile entries keeps the profile table well typed.            *)
LEMMA DropProfilesType ==
    ASSUME TypeOK, NEW gone, DropProfilesOf(gone)
    PROVE  /\ profile' \in [Key -> Source \cup {NoClaim}]
           /\ profileAt' \in [Key -> RecordTime \cup {Open}]
  BY DEF TypeOK, DropProfilesOf

(* Inserting a source keeps its three tables well typed.                   *)
LEMMA InsertSourceType ==
    ASSUME TypeOK, NEW s \in Source, NEW v \in ValidTime, NEW t \in RecordTime,
           InsertSource(s, v, t)
    PROVE  /\ source' \in [Source -> {"absent", "live", "deleted"}]
           /\ validFrom' \in [Source -> ValidTime \cup {Open}]
           /\ recordedAt' \in [Source -> RecordTime \cup {Open}]
  BY DEF TypeOK, InsertSource

LEMMA TypeInit == Init => TypeOK
  BY DEF Init, TypeOK, NoRow, ClaimRow, Status, Tier, Processing

LEMMA TypeStep == TypeOK /\ [Next]_vars => TypeOK'
<1> SUFFICES ASSUME TypeOK, [Next]_vars PROVE TypeOK'
  OBVIOUS
<1>1. ASSUME NEW s \in Source, NEW v \in ValidTime, NEW t \in RecordTime, Remember(s, v, t)
      PROVE  TypeOK'
  BY <1>1, InsertSourceType DEF TypeOK, Remember
<1>2. ASSUME NEW s \in Source, NEW v \in ValidTime, NEW t \in RecordTime,
             NEW input \in ClaimInput, RememberClaim(s, v, t, input)
      PROVE  TypeOK'
  <2>1. NewClaim(input) \in ClaimRow
    BY ClaimInputAssumption, NewClaimType
  <2> QED
    BY <1>2, <2>1, InsertSourceType DEF TypeOK, RememberClaim
<1>3. ASSUME NEW s \in Source, NEW v \in ValidTime, NEW t \in RecordTime,
             NEW old \in Source, Correct(old, s, v, t)
      PROVE  TypeOK'
  <2> DEFINE input == [key |-> claim[old].key, tier |-> "long_term", processing |-> "processed"]
  <2>1. claim[old] \in ClaimRow
    BY DEF TypeOK
  <2>2. NewClaim(input) \in ClaimRow
    <3>1. input \in [key : Key \cup {NoKey}, tier : Tier, processing : Processing]
      BY <2>1 DEF ClaimRow, Tier, Processing
    <3> QED
      BY <3>1, NewClaimType
  <2>3. SupersededRow(claim[old], v, t) \in ClaimRow
    BY <2>1, SupersededRowType
  <2>4. claim' = [claim EXCEPT ![old] = SupersededRow(@, v, t), ![s] = NewClaim(input)]
    BY <1>3 DEF Correct
  <2>5. claim' \in [Source -> ClaimRow]
    BY <2>2, <2>3, <2>4 DEF TypeOK
  <2> QED
    BY <1>3, <2>5, InsertSourceType, DropProfilesType DEF TypeOK, Correct
<1>4. ASSUME NEW s \in Source, NEW t \in RecordTime, DeleteSource(s, t)
      PROVE  TypeOK'
  <2>1. claim' \in [Source -> ClaimRow]
    BY <1>4, RetractedRowType DEF TypeOK, DeleteSource
  <2>2. review' \in [Review -> SUBSET Source]
    BY <1>4 DEF TypeOK, DeleteSource, ReviewsWithout
  <2> QED
    BY <1>4, <2>1, <2>2, DropProfilesType DEF TypeOK, DeleteSource
<1>5. ASSUME NEW c \in Source, NEW t \in RecordTime, Promote(c, t)
      PROVE  TypeOK'
  BY <1>5, TierRowType DEF TypeOK, Promote, Tier
<1>6. ASSUME NEW c \in Source, NEW t \in RecordTime, Archive(c, t)
      PROVE  TypeOK'
  BY <1>6, TierRowType DEF TypeOK, Archive, Tier
<1>7. ASSUME NEW c \in Source, NEW e \in Source, LinkSupport(c, e)
      PROVE  TypeOK'
  BY <1>7 DEF TypeOK, LinkSupport
<1>8. ASSUME NEW c \in Source, NEW e \in Source, LinkContradiction(c, e)
      PROVE  TypeOK'
  BY <1>8 DEF TypeOK, LinkContradiction
<1>9. ASSUME NEW c \in Source, NEW t \in RecordTime, StoreProfile(c, t)
      PROVE  TypeOK'
  BY <1>9 DEF TypeOK, StoreProfile
<1>10. ASSUME NEW r \in Review, NEW cited \in SUBSET Source, StoreReview(r, cited)
       PROVE  TypeOK'
  BY <1>10 DEF TypeOK, StoreReview
<1>11. CASE UNCHANGED vars
  BY <1>11 DEF TypeOK, vars
<1> QED
  BY <1>1, <1>2, <1>3, <1>4, <1>5, <1>6, <1>7, <1>8, <1>9, <1>10, <1>11 DEF Next

(* Every reachable state has the tables' types, whatever the operations.   *)
THEOREM TypeCorrect == Spec => []TypeOK
  BY TypeInit, TypeStep, PTL DEF Spec

--------------------------------------------------------------------------------
(* The claim rows after correct.                                           *)
LEMMA CorrectRows ==
    ASSUME TypeOK, NEW s \in Source, NEW v \in ValidTime, NEW t \in RecordTime,
           NEW old \in Source, old # s, Correct(old, s, v, t)
    PROVE  /\ claim'[s].status = "accepted"
           /\ claim'[s].validUntil = Open /\ claim'[s].recordedUntil = Open
           /\ claim'[old].status = "superseded"
           /\ claim'[old].validUntil = v /\ claim'[old].recordedUntil = t
           /\ claim'[s].processing = "processed"
           /\ claim'[old].tier = claim[old].tier
           /\ claim'[old].processing = claim[old].processing
           /\ \A c \in Source \ {s, old} : claim'[c] = claim[c]
<1> DEFINE input == [key |-> claim[old].key, tier |-> "long_term", processing |-> "processed"]
<1>1. claim' = [claim EXCEPT ![old] = SupersededRow(@, v, t), ![s] = NewClaim(input)]
  BY DEF Correct
<1>2. /\ claim'[s] = NewClaim(input)
      /\ claim'[old] = SupersededRow(claim[old], v, t)
      /\ \A c \in Source \ {s, old} : claim'[c] = claim[c]
  BY <1>1 DEF TypeOK
<1>3. /\ SupersededRow(claim[old], v, t).status = "superseded"
      /\ SupersededRow(claim[old], v, t).validUntil = v
      /\ SupersededRow(claim[old], v, t).recordedUntil = t
      /\ SupersededRow(claim[old], v, t).tier = claim[old].tier
      /\ SupersededRow(claim[old], v, t).processing = claim[old].processing
  <2>1. claim[old] \in ClaimRow
    BY DEF TypeOK
  <2> QED
    BY <2>1 DEF ClaimRow, SupersededRow
<1>4. /\ NewClaim(input).status = "accepted"
      /\ NewClaim(input).validUntil = Open /\ NewClaim(input).recordedUntil = Open
      /\ NewClaim(input).processing = "processed"
  BY DEF NewClaim
<1> QED
  BY <1>2, <1>3, <1>4

(* The claim rows after delete_source.                                     *)
LEMMA DeleteRows ==
    ASSUME TypeOK, NEW s \in Source, NEW t \in RecordTime, DeleteSource(s, t)
    PROVE  /\ \A c \in LosesSupport(s) : /\ c \in Source /\ claim[c].status = "accepted"
                                         /\ claim'[c].status = "retracted"
                                         /\ claim'[c].recordedUntil = t
                                         /\ claim'[c].validUntil = claim[c].validUntil
                                         /\ claim'[c].tier = claim[c].tier
                                         /\ claim'[c].processing = claim[c].processing
           /\ \A c \in Source \ LosesSupport(s) : claim'[c] = claim[c]
<1>1. claim' = [c \in Source |-> IF c \in LosesSupport(s) THEN RetractedRow(claim[c], t)
                                                          ELSE claim[c]]
  BY DEF DeleteSource
<1>2. \A c \in LosesSupport(s) : c \in Source /\ claim[c].status = "accepted"
  BY DEF LosesSupport, Accepted
<1>3. \A row \in ClaimRow : /\ RetractedRow(row, t).status = "retracted"
                            /\ RetractedRow(row, t).recordedUntil = t
                            /\ RetractedRow(row, t).validUntil = row.validUntil
                            /\ RetractedRow(row, t).tier = row.tier
                            /\ RetractedRow(row, t).processing = row.processing
  BY DEF ClaimRow, RetractedRow
<1>4. \A c \in Source : claim[c] \in ClaimRow
  BY DEF TypeOK
<1> QED
  BY <1>1, <1>2, <1>3, <1>4

(* What promote and archive leave of the claim rows.                       *)
LEMMA TierRows ==
    ASSUME TypeOK, NEW c \in Source, NEW tier \in Tier,
           claim' = [claim EXCEPT ![c].tier = tier]
    PROVE  \A d \in Source : /\ claim'[d].status = claim[d].status
                            /\ claim'[d].key = claim[d].key
                            /\ claim'[d].validUntil = claim[d].validUntil
                            /\ claim'[d].recordedUntil = claim[d].recordedUntil
                            /\ claim'[d].processing = claim[d].processing
                            /\ claim'[d].tier = IF d = c THEN tier ELSE claim[d].tier
<1>1. \A row \in ClaimRow : /\ [row EXCEPT !.tier = tier].status = row.status
                            /\ [row EXCEPT !.tier = tier].key = row.key
                            /\ [row EXCEPT !.tier = tier].validUntil = row.validUntil
                            /\ [row EXCEPT !.tier = tier].recordedUntil = row.recordedUntil
                            /\ [row EXCEPT !.tier = tier].processing = row.processing
                            /\ [row EXCEPT !.tier = tier].tier = tier
  BY DEF ClaimRow
<1>2. \A d \in Source : claim[d] \in ClaimRow
  BY DEF TypeOK
<1>3. \A d \in Source : claim'[d] = IF d = c THEN [claim[c] EXCEPT !.tier = tier] ELSE claim[d]
  BY DEF TypeOK
<1>4. \A d \in Source \ {c} : claim'[d] = claim[d]
  BY <1>3
<1>5. claim'[c] = [claim[c] EXCEPT !.tier = tier]
  BY <1>3
<1>6. [claim[c] EXCEPT !.tier = tier].tier = tier
  BY <1>1, <1>2
<1>7. claim'[c].tier = tier
  BY <1>5, <1>6
<1>8. /\ claim'[c].status = claim[c].status
      /\ claim'[c].key = claim[c].key
      /\ claim'[c].validUntil = claim[c].validUntil
      /\ claim'[c].recordedUntil = claim[c].recordedUntil
      /\ claim'[c].processing = claim[c].processing
  BY <1>1, <1>2, <1>5
<1> QED
  BY <1>4, <1>7, <1>8

(* promote and archive set a tier.                                         *)
LEMMA TierSet ==
    ASSUME NEW c \in Source, NEW t \in RecordTime, Promote(c, t) \/ Archive(c, t)
    PROVE  \E tier \in Tier : claim' = [claim EXCEPT ![c].tier = tier]
  BY DEF Promote, Archive, Tier

--------------------------------------------------------------------------------
(* The inductive invariant behind the safety theorems.                     *)
StoreInv == TypeOK /\ TablesAgree /\ AcceptedIffSupported

LEMMA InvInit == Init => StoreInv
  BY TypeInit, SentinelAssumption
     DEF StoreInv, TablesAgree, AbsentIdsAreUnused, SupersededIffCorrected,
         IntervalsFollowStatus, StatesAreLegal, LegalInput, CorrectionsAbut,
         AcceptedIffSupported, Init, NoRow, Accepted, Superseded, Retracted, Cites

(* A fresh id is no claim, corrects nothing, is corrected by nothing and   *)
(* is linked to nothing.                                                   *)
LEMMA FreshId ==
    ASSUME StoreInv, NEW s \in Source, source[s] = "absent"
    PROVE  /\ claim[s].status = "none"
           /\ corrects[s] = NoClaim
           /\ \A d \in Source : corrects[d] # s
           /\ supports[s] = {} /\ contradicts[s] = {}
           /\ \A c \in Source : s \notin supports[c] /\ s \notin contradicts[c]
  BY DEF StoreInv, TablesAgree, AbsentIdsAreUnused, SupersededIffCorrected, Cites, Superseded

LEMMA RememberInv ==
    ASSUME StoreInv, NEW s \in Source, NEW v \in ValidTime, NEW t \in RecordTime,
           Remember(s, v, t)
    PROVE  TablesAgree' /\ AcceptedIffSupported'
<1> USE DEF Accepted, Superseded, Retracted
<1>1. /\ source[s] = "absent"
      /\ source' = [source EXCEPT ![s] = "live"]
      /\ validFrom' = [validFrom EXCEPT ![s] = v]
      /\ recordedAt' = [recordedAt EXCEPT ![s] = t]
      /\ UNCHANGED <<claim, supports, contradicts, corrects>>
  BY DEF Remember, InsertSource
<1>2. AbsentIdsAreUnused'
  BY <1>1 DEF StoreInv, TypeOK, TablesAgree, AbsentIdsAreUnused, Cites
<1>3. SupersededIffCorrected'
  BY <1>1 DEF StoreInv, TablesAgree, SupersededIffCorrected
<1>4. IntervalsFollowStatus'
  BY <1>1, FreshId DEF StoreInv, TypeOK, TablesAgree, IntervalsFollowStatus
<1>5. CorrectionsAbut'
  BY <1>1, FreshId, SentinelAssumption DEF StoreInv, TypeOK, TablesAgree, CorrectionsAbut
<1>6. AcceptedIffSupported'
  BY <1>1, FreshId DEF StoreInv, TypeOK, AcceptedIffSupported, Live
<1>7. StatesAreLegal'
  BY <1>1 DEF StoreInv, TablesAgree, StatesAreLegal
<1> QED
  BY <1>2, <1>3, <1>4, <1>5, <1>6, <1>7 DEF TablesAgree

LEMMA RememberClaimInv ==
    ASSUME StoreInv, NEW s \in Source, NEW v \in ValidTime, NEW t \in RecordTime,
           NEW input \in ClaimInput, RememberClaim(s, v, t, input)
    PROVE  TablesAgree' /\ AcceptedIffSupported'
<1> USE DEF Accepted, Superseded, Retracted
<1>1. /\ source[s] = "absent"
      /\ source' = [source EXCEPT ![s] = "live"]
      /\ validFrom' = [validFrom EXCEPT ![s] = v]
      /\ recordedAt' = [recordedAt EXCEPT ![s] = t]
      /\ claim' = [claim EXCEPT ![s] = NewClaim(input)]
      /\ supports' = [supports EXCEPT ![s] = {s}]
      /\ UNCHANGED <<contradicts, corrects>>
  BY DEF RememberClaim, InsertSource
<1>2. /\ claim'[s].status = "accepted"
      /\ claim'[s].validUntil = Open /\ claim'[s].recordedUntil = Open
      /\ \A c \in Source \ {s} : claim'[c] = claim[c] /\ supports'[c] = supports[c]
      /\ supports'[s] = {s}
  BY <1>1 DEF StoreInv, TypeOK, NewClaim
<1>3. AbsentIdsAreUnused'
  BY <1>1, <1>2, FreshId DEF StoreInv, TypeOK, TablesAgree, AbsentIdsAreUnused, Cites
<1>4. SupersededIffCorrected'
  BY <1>1, <1>2, FreshId DEF StoreInv, TablesAgree, SupersededIffCorrected
<1>5. IntervalsFollowStatus'
  BY <1>1, <1>2, FreshId DEF StoreInv, TypeOK, TablesAgree, IntervalsFollowStatus
<1>6. CorrectionsAbut'
  BY <1>1, <1>2, FreshId, SentinelAssumption DEF StoreInv, TypeOK, TablesAgree, CorrectionsAbut
<1>7. AcceptedIffSupported'
  BY <1>1, <1>2, FreshId DEF StoreInv, TypeOK, AcceptedIffSupported, Live
<1>8. StatesAreLegal'
  <2>1. LegalInput(claim'[s])
    BY <1>1, ClaimInputAssumption DEF StoreInv, TypeOK, NewClaim, LegalInput
  <2> QED
    BY <2>1, <1>2 DEF StoreInv, TablesAgree, StatesAreLegal
<1> QED
  BY <1>3, <1>4, <1>5, <1>6, <1>7, <1>8 DEF TablesAgree

LEMMA CorrectInv ==
    ASSUME StoreInv, NEW s \in Source, NEW v \in ValidTime, NEW t \in RecordTime,
           NEW old \in Source, Correct(old, s, v, t)
    PROVE  TablesAgree' /\ AcceptedIffSupported'
<1> USE DEF Accepted, Superseded, Retracted
<1>1. /\ claim[old].status = "accepted" /\ claim[old].tier # "archive"
      /\ v > validFrom[old] /\ t > recordedAt[old]
      /\ source[s] = "absent"
      /\ source' = [source EXCEPT ![s] = "live"]
      /\ validFrom' = [validFrom EXCEPT ![s] = v]
      /\ recordedAt' = [recordedAt EXCEPT ![s] = t]
      /\ supports' = [supports EXCEPT ![s] = {s}]
      /\ corrects' = [corrects EXCEPT ![s] = old]
      /\ contradicts' = contradicts
  BY DEF Correct, Correctable, CorrectionAdvances, InsertSource
<1>2. old # s
  BY <1>1, FreshId
<1>3. /\ claim'[s].status = "accepted"
      /\ claim'[s].validUntil = Open /\ claim'[s].recordedUntil = Open
      /\ claim'[old].status = "superseded"
      /\ claim'[old].validUntil = v /\ claim'[old].recordedUntil = t
      /\ claim'[s].processing = "processed"
      /\ claim'[old].tier = claim[old].tier /\ claim'[old].processing = claim[old].processing
      /\ \A c \in Source \ {s, old} : claim'[c] = claim[c]
  BY <1>2, CorrectRows DEF StoreInv
<1>4. /\ \A c \in Source \ {s} : supports'[c] = supports[c] /\ corrects'[c] = corrects[c]
      /\ supports'[s] = {s} /\ corrects'[s] = old
  BY <1>1 DEF StoreInv, TypeOK
<1>5. AbsentIdsAreUnused'
  BY <1>1, <1>3, <1>4, FreshId DEF StoreInv, TypeOK, TablesAgree, AbsentIdsAreUnused, Cites
<1>6. SupersededIffCorrected'
  BY <1>1, <1>2, <1>3, <1>4, FreshId, SentinelAssumption
     DEF StoreInv, TablesAgree, SupersededIffCorrected
<1>7. IntervalsFollowStatus'
  <2>1. validFrom'[old] = validFrom[old] /\ recordedAt'[old] = recordedAt[old]
    BY <1>1, <1>2 DEF StoreInv, TypeOK
  <2>2. source[old] # "absent"
    BY <1>1 DEF StoreInv, TablesAgree, AbsentIdsAreUnused
  <2>3. validFrom[old] < v /\ recordedAt[old] < t
    BY <1>1, <2>2, TimeAssumption DEF StoreInv, TablesAgree, IntervalsFollowStatus
  <2>4. \A c \in Source \ {s} : validFrom'[c] = validFrom[c] /\ recordedAt'[c] = recordedAt[c]
    BY <1>1 DEF StoreInv, TypeOK
  <2>5. validFrom'[s] = v /\ recordedAt'[s] = t
    BY <1>1 DEF StoreInv, TypeOK
  <2>6. \A c \in Source : claim'[c].status = "accepted" =>
           claim'[c].validUntil = Open /\ claim'[c].recordedUntil = Open
    BY <1>3 DEF StoreInv, TablesAgree, IntervalsFollowStatus
  <2>7. \A c \in Source : claim'[c].status \in {"superseded", "retracted"} =>
           claim'[c].recordedUntil \in RecordTime /\ recordedAt'[c] < claim'[c].recordedUntil
    BY <1>3, <2>3, <2>4 DEF StoreInv, TablesAgree, IntervalsFollowStatus
  <2>8. \A c \in Source : claim'[c].status = "superseded" =>
           claim'[c].validUntil \in ValidTime /\ validFrom'[c] < claim'[c].validUntil
    BY <1>3, <2>3, <2>4 DEF StoreInv, TablesAgree, IntervalsFollowStatus
  <2>9. \A c \in Source : claim'[c].status = "retracted" => claim'[c].validUntil = Open
    BY <1>3 DEF StoreInv, TablesAgree, IntervalsFollowStatus
  <2>10. \A c \in Source : source'[c] # "absent" =>
            validFrom'[c] \in ValidTime /\ recordedAt'[c] \in RecordTime
    BY <1>1, <2>4, <2>5 DEF StoreInv, TypeOK, TablesAgree, IntervalsFollowStatus
  <2> QED
    BY <2>6, <2>7, <2>8, <2>9, <2>10 DEF IntervalsFollowStatus
<1>8. CorrectionsAbut'
  <2>1. \A d \in Source : corrects[d] # old
    BY <1>1 DEF StoreInv, TablesAgree, SupersededIffCorrected
  <2>2. \A d \in Source \ {s} : validFrom'[d] = validFrom[d] /\ recordedAt'[d] = recordedAt[d]
    BY <1>1 DEF StoreInv, TypeOK
  <2>3. validFrom'[s] = v /\ recordedAt'[s] = t
    BY <1>1 DEF StoreInv, TypeOK
  <2>4. SUFFICES ASSUME NEW c \in Source, NEW gone \in Source, corrects'[c] = gone
                 PROVE  /\ validFrom'[c] = claim'[gone].validUntil
                        /\ recordedAt'[c] = claim'[gone].recordedUntil
                        /\ \A d \in Source : corrects'[d] = gone => d = c
    BY DEF CorrectionsAbut
  <2>5. CASE c = s
    BY <2>1, <2>3, <2>4, <2>5, <1>3, <1>4
  <2>6. CASE c # s
    <3>1. corrects[c] = gone /\ gone # old /\ gone # s
      BY <2>1, <2>4, <2>6, <1>1, <1>4, FreshId
    <3> QED
      BY <3>1, <2>2, <2>6, <1>3, <1>4 DEF StoreInv, TablesAgree, CorrectionsAbut
  <2> QED
    BY <2>5, <2>6
<1>9. AcceptedIffSupported'
  BY <1>1, <1>2, <1>3, <1>4, FreshId, SentinelAssumption
     DEF StoreInv, TypeOK, AcceptedIffSupported, Live
<1>10. StatesAreLegal'
  BY <1>1, <1>3 DEF StoreInv, TablesAgree, StatesAreLegal, LegalInput
<1> QED
  BY <1>5, <1>6, <1>7, <1>8, <1>9, <1>10 DEF TablesAgree

LEMMA DeleteSourceInv ==
    ASSUME StoreInv, NEW s \in Source, NEW t \in RecordTime, DeleteSource(s, t)
    PROVE  TablesAgree' /\ AcceptedIffSupported'
<1> USE DEF Accepted, Superseded, Retracted
<1>1. /\ source[s] = "live"
      /\ source' = [source EXCEPT ![s] = "deleted"]
      /\ claim' = [c \in Source |-> IF c \in LosesSupport(s) THEN RetractedRow(claim[c], t)
                                                              ELSE claim[c]]
      /\ UNCHANGED <<validFrom, recordedAt, supports, contradicts, corrects>>
  BY DEF DeleteSource
<1>2. /\ \A c \in LosesSupport(s) :
            /\ claim'[c].status = "retracted" /\ claim'[c].recordedUntil = t
            /\ claim'[c].validUntil = claim[c].validUntil
            /\ claim'[c].tier = claim[c].tier /\ claim'[c].processing = claim[c].processing
      /\ \A c \in Source \ LosesSupport(s) : claim'[c] = claim[c]
      /\ \A c \in LosesSupport(s) : c \in Source /\ claim[c].status = "accepted"
  BY DeleteRows DEF StoreInv
<1>3. Live' = Live \ {s}
  BY <1>1 DEF Live, StoreInv, TypeOK
<1>4. AbsentIdsAreUnused'
  BY <1>1, <1>2 DEF StoreInv, TypeOK, TablesAgree, AbsentIdsAreUnused, Cites
<1>5. SupersededIffCorrected'
  BY <1>1, <1>2 DEF StoreInv, TablesAgree, SupersededIffCorrected
<1>6. IntervalsFollowStatus'
  <2>1. \A c \in LosesSupport(s) : recordedAt[c] < t
    <3>1. \A c \in LosesSupport(s) : t > recordedAt[c]
      BY DEF DeleteSource
    <3>2. \A c \in LosesSupport(s) : source[c] # "absent"
      BY <1>2 DEF StoreInv, TablesAgree, AbsentIdsAreUnused
    <3>3. \A c \in LosesSupport(s) : recordedAt[c] \in Nat
      BY <1>2, <3>2, TimeAssumption DEF StoreInv, TablesAgree, IntervalsFollowStatus
    <3> QED
      BY <3>1, <3>3, TimeAssumption
  <2> QED
    BY <2>1, <1>1, <1>2 DEF StoreInv, TypeOK, TablesAgree, IntervalsFollowStatus
<1>7. CorrectionsAbut'
  <2>1. \A c, old \in Source : corrects[c] = old => old \notin LosesSupport(s)
    BY <1>2 DEF StoreInv, TablesAgree, SupersededIffCorrected
  <2> QED
    BY <2>1, <1>1, <1>2 DEF StoreInv, TablesAgree, CorrectionsAbut
<1>8. AcceptedIffSupported'
  <2> SUFFICES ASSUME NEW c \in Source
               PROVE  c \in Accepted' <=> /\ claim'[c].status # "none"
                                          /\ \A d \in Source : corrects'[d] # c
                                          /\ supports'[c] \cap Live' # {}
    BY DEF AcceptedIffSupported
  <2>1. CASE c \in LosesSupport(s)
    BY <2>1, <1>1, <1>2, <1>3 DEF LosesSupport, Unsupported
  <2>2. CASE c \notin LosesSupport(s)
    <3>1. c \in Accepted => supports[c] \cap Live' # {}
      BY <2>2, <1>3 DEF LosesSupport, Unsupported, Cites, StoreInv, AcceptedIffSupported
    <3>2. supports[c] \cap Live' \subseteq supports[c] \cap Live
      BY <1>3
    <3> QED
      BY <2>2, <3>1, <3>2, <1>1, <1>2 DEF StoreInv, AcceptedIffSupported
  <2> QED
    BY <2>1, <2>2
<1>9. StatesAreLegal'
  BY <1>2 DEF StoreInv, TablesAgree, StatesAreLegal, LegalInput
<1> QED
  BY <1>4, <1>5, <1>6, <1>7, <1>8, <1>9 DEF TablesAgree

(* promote and archive change nothing but a tier.                          *)
LEMMA TierInv ==
    ASSUME StoreInv, NEW c \in Source, NEW tier \in Tier,
           claim' = [claim EXCEPT ![c].tier = tier],
           claim[c].processing = "processed",
           claim[c].status = "superseded" => tier # "archive",
           UNCHANGED <<source, validFrom, recordedAt, supports, contradicts, corrects>>
    PROVE  TablesAgree' /\ AcceptedIffSupported'
<1>1. \A d \in Source : /\ claim'[d].status = claim[d].status
                        /\ claim'[d].validUntil = claim[d].validUntil
                        /\ claim'[d].recordedUntil = claim[d].recordedUntil
                        /\ claim'[d].processing = claim[d].processing
                        /\ claim'[d].tier = IF d = c THEN tier ELSE claim[d].tier
  BY TierRows DEF StoreInv
<1>2. TablesAgree'
  <2>1. AbsentIdsAreUnused' /\ SupersededIffCorrected' /\ CorrectionsAbut'
    BY <1>1 DEF StoreInv, TablesAgree, AbsentIdsAreUnused, SupersededIffCorrected,
       CorrectionsAbut, Accepted, Superseded, Cites
  <2>2. IntervalsFollowStatus'
    BY <1>1 DEF StoreInv, TablesAgree, IntervalsFollowStatus, Accepted, Superseded, Retracted
  <2>3. StatesAreLegal'
    BY <1>1 DEF StoreInv, TablesAgree, StatesAreLegal, LegalInput, Superseded
  <2> QED
    BY <2>1, <2>2, <2>3 DEF TablesAgree
<1>3. AcceptedIffSupported'
  BY <1>1 DEF StoreInv, AcceptedIffSupported, Accepted, Live
<1> QED
  BY <1>2, <1>3

LEMMA LinkInv ==
    ASSUME StoreInv, NEW c \in Source, NEW e \in Source,
           LinkSupport(c, e) \/ LinkContradiction(c, e)
    PROVE  TablesAgree' /\ AcceptedIffSupported'
<1>1. /\ claim[c].status = "accepted" /\ source[e] = "live"
      /\ UNCHANGED <<source, validFrom, recordedAt, claim, corrects>>
      /\ supports' \in {supports, [supports EXCEPT ![c] = @ \cup {e}]}
      /\ contradicts' \in {contradicts, [contradicts EXCEPT ![c] = @ \cup {e}]}
  BY DEF LinkSupport, LinkContradiction, Linkable, Accepted, Live
<1>2. \A d \in Source : /\ supports[d] \subseteq supports'[d]
                        /\ supports'[d] \subseteq supports[d] \cup {e}
                        /\ contradicts'[d] \subseteq contradicts[d] \cup {e}
                        /\ d # c => supports'[d] = supports[d] /\ contradicts'[d] = contradicts[d]
  BY <1>1 DEF StoreInv, TypeOK
<1>3. TablesAgree'
  <2>1. AbsentIdsAreUnused'
    BY <1>1, <1>2 DEF StoreInv, TablesAgree, AbsentIdsAreUnused, Cites
  <2>2. SupersededIffCorrected' /\ IntervalsFollowStatus' /\ CorrectionsAbut'
    BY <1>1 DEF StoreInv, TablesAgree, SupersededIffCorrected, IntervalsFollowStatus,
       CorrectionsAbut, Accepted, Superseded, Retracted
  <2>3. StatesAreLegal'
    BY <1>1 DEF StoreInv, TablesAgree, StatesAreLegal, Superseded
  <2> QED
    BY <2>1, <2>2, <2>3 DEF TablesAgree
<1>4. AcceptedIffSupported'
  BY <1>1, <1>2 DEF StoreInv, AcceptedIffSupported, Accepted, Live
<1> QED
  BY <1>3, <1>4

(* Operations on profile entries and reviews leave the claim tables alone. *)
LEMMA OtherTablesInv ==
    ASSUME StoreInv,
           UNCHANGED <<source, validFrom, recordedAt, claim, supports, contradicts, corrects>>
    PROVE  TablesAgree' /\ AcceptedIffSupported'
  BY DEF StoreInv, TablesAgree, AbsentIdsAreUnused, SupersededIffCorrected,
     IntervalsFollowStatus, StatesAreLegal, CorrectionsAbut, AcceptedIffSupported, Accepted,
     Superseded, Retracted, Live, Cites

LEMMA InvStep == StoreInv /\ [Next]_vars => StoreInv'
<1> SUFFICES ASSUME StoreInv, [Next]_vars PROVE TablesAgree' /\ AcceptedIffSupported'
  BY TypeStep DEF StoreInv
<1>1. ASSUME NEW c \in Source, NEW t \in RecordTime, Promote(c, t) \/ Archive(c, t)
      PROVE  TablesAgree' /\ AcceptedIffSupported'
  <2>1. PICK tier \in Tier :
           /\ claim' = [claim EXCEPT ![c].tier = tier]
           /\ claim[c].processing = "processed"
           /\ claim[c].status = "superseded" => tier # "archive"
    BY <1>1 DEF Promote, Promotable, Archive, Tier
  <2> QED
    BY <1>1, <2>1, TierInv DEF Promote, Archive
<1>2. ASSUME NEW c \in Source, NEW t \in RecordTime, StoreProfile(c, t)
      PROVE  TablesAgree' /\ AcceptedIffSupported'
  BY <1>2, OtherTablesInv DEF StoreProfile
<1>3. ASSUME NEW r \in Review, NEW cited \in SUBSET Source, StoreReview(r, cited)
      PROVE  TablesAgree' /\ AcceptedIffSupported'
  BY <1>3, OtherTablesInv DEF StoreReview
<1>4. CASE UNCHANGED vars
  BY <1>4, OtherTablesInv DEF vars
<1> QED
  BY <1>1, <1>2, <1>3, <1>4, RememberInv, RememberClaimInv, CorrectInv, DeleteSourceInv,
     LinkInv DEF Next

LEMMA InvCorrect == Spec => []StoreInv
  BY InvInit, InvStep, PTL DEF Spec

(* The rows different tables of the store hold about one claim agree in    *)
(* every reachable state.                                                  *)
THEOREM TablesAlwaysAgree == Spec => []TablesAgree
<1>1. StoreInv => TablesAgree
  BY DEF StoreInv
<1> QED
  BY <1>1, InvCorrect, PTL

(* Deletion in any order retracts a claim when its last live support goes, *)
(* and never before.                                                       *)
THEOREM AcceptedClaimsAreSupported == Spec => []AcceptedIffSupported
<1>1. StoreInv => AcceptedIffSupported
  BY DEF StoreInv
<1> QED
  BY <1>1, InvCorrect, PTL

--------------------------------------------------------------------------------
(* A claim that stays accepted, open and keyed still backs its entry.      *)
LEMMA ProfileKept ==
    ASSUME NEW k \in Key, ProfilesAreBacked,
           profile'[k] # NoClaim => /\ profile'[k] = profile[k]
                                    /\ claim'[profile[k]].status = claim[profile[k]].status
                                    /\ claim'[profile[k]].key = claim[profile[k]].key
                                    /\ claim'[profile[k]].validUntil = claim[profile[k]].validUntil
                                    /\ claim'[profile[k]].recordedUntil = claim[profile[k]].recordedUntil
    PROVE  profile'[k] # NoClaim => ProfileFact(profile[k])' /\ claim'[profile'[k]].key = k
  BY DEF ProfilesAreBacked, ProfileFact, Accepted

LEMMA ProfilesStep ==
    ASSUME TypeOK, AbsentIdsAreUnused, ProfilesAreBacked, [Next]_vars
    PROVE  ProfilesAreBacked'
<1> SUFFICES ASSUME NEW k \in Key, profile'[k] # NoClaim
             PROVE  ProfileFact(profile[k])' /\ claim'[profile'[k]].key = k
  BY DEF ProfilesAreBacked
<1>1. CASE profile[k] = NoClaim \/ profile'[k] # profile[k]
  <2>1. PICK c \in Source, t \in RecordTime : StoreProfile(c, t)
    <3>1. profile' # profile
      BY <1>1, SentinelAssumption
    <3>2. \A gone : ~DropProfilesOf(gone)
      BY <1>1 DEF DropProfilesOf
    <3> QED
      BY <3>1, <3>2
         DEF Next, vars, Remember, RememberClaim, Correct, DeleteSource,
             Promote, Archive, LinkSupport, LinkContradiction, StoreReview
  <2>2. profile'[k] = c /\ claim[c].key = k /\ ProfileFact(c) /\ claim' = claim
    BY <1>1, <2>1 DEF StoreProfile, TypeOK
  <2> QED
    BY <2>2 DEF ProfileFact, Accepted
<1>2. CASE profile[k] # NoClaim /\ profile'[k] = profile[k]
  <2> DEFINE c == profile[k]
  <2>1. c \in Source /\ claim[c].status = "accepted" /\ source[c] # "absent"
    BY <1>2 DEF ProfilesAreBacked, ProfileFact, Accepted, AbsentIdsAreUnused
  <2> DEFINE SameFact == /\ claim'[c].status = claim[c].status
                         /\ claim'[c].key = claim[c].key
                         /\ claim'[c].validUntil = claim[c].validUntil
                         /\ claim'[c].recordedUntil = claim[c].recordedUntil
  <2>2. SameFact
    <3>1. ASSUME NEW s \in Source, NEW v \in ValidTime, NEW t \in RecordTime,
                 NEW input \in ClaimInput, RememberClaim(s, v, t, input)
          PROVE  claim'[c] = claim[c]
      BY <2>1, <3>1 DEF RememberClaim, InsertSource, TypeOK
    <3>2. ASSUME NEW s \in Source, NEW v \in ValidTime, NEW t \in RecordTime,
                 NEW old \in Source, Correct(old, s, v, t)
          PROVE  claim'[c] = claim[c]
      <4>1. c # old
        BY <3>2, <1>2 DEF Correct, DropProfilesOf
      <4>2. c # s
        BY <3>2, <2>1 DEF Correct, InsertSource
      <4> QED
        BY <3>2, <4>1, <4>2, <2>1 DEF Correct, TypeOK
    <3>3. ASSUME NEW s \in Source, NEW t \in RecordTime, DeleteSource(s, t)
          PROVE  claim'[c] = claim[c]
      <4>1. c \notin LosesSupport(s)
        BY <3>3, <1>2 DEF DeleteSource, DropProfilesOf
      <4> QED
        BY <3>3, <4>1, <2>1 DEF DeleteSource
    <3>4. ASSUME NEW d \in Source, NEW t \in RecordTime, Promote(d, t) \/ Archive(d, t)
          PROVE  SameFact
      BY <3>4, <2>1, TierSet, TierRows
    <3> QED
      BY <3>1, <3>2, <3>3, <3>4
         DEF Next, vars, Remember, LinkSupport, LinkContradiction, StoreProfile, StoreReview
  <2> QED
    BY <1>2, <2>2, ProfileKept
<1> QED
  BY <1>1, <1>2

(* No profile entry outlives the claim behind it: corrections and          *)
(* deletions take it along.                                                *)
THEOREM ProfilesAlwaysBacked == Spec => []ProfilesAreBacked
<1>1. Init => ProfilesAreBacked
  BY DEF Init, ProfilesAreBacked
<1>2. StoreInv => TypeOK /\ AbsentIdsAreUnused
  BY DEF StoreInv, TablesAgree
<1> QED
  BY <1>1, <1>2, InvCorrect, ProfilesStep, PTL DEF Spec

(* Deletion takes the reviews along that cite what it deletes.             *)
LEMMA ReviewsStep == TypeOK /\ ReviewsCiteLiveEvidence /\ [Next]_vars => ReviewsCiteLiveEvidence'
<1> SUFFICES ASSUME TypeOK, ReviewsCiteLiveEvidence, [Next]_vars, NEW r \in Review
             PROVE  review'[r] \subseteq Live'
  BY DEF ReviewsCiteLiveEvidence
<1>1. review[r] \subseteq Live
  BY DEF ReviewsCiteLiveEvidence
<1>2. ASSUME NEW s \in Source, NEW v \in ValidTime, NEW t \in RecordTime,
             InsertSource(s, v, t)
      PROVE  Live \subseteq Live'
  BY <1>2 DEF InsertSource, Live, TypeOK
<1>3. ASSUME NEW s \in Source, NEW v \in ValidTime, NEW t \in RecordTime,
             \/ Remember(s, v, t)
             \/ \E input \in ClaimInput : RememberClaim(s, v, t, input)
             \/ \E old \in Source : Correct(old, s, v, t)
      PROVE  review'[r] \subseteq Live'
  BY <1>1, <1>2, <1>3 DEF Remember, RememberClaim, Correct
<1>4. ASSUME NEW s \in Source, NEW t \in RecordTime, DeleteSource(s, t)
      PROVE  review'[r] \subseteq Live'
  BY <1>1, <1>4 DEF DeleteSource, ReviewsWithout, Live, TypeOK
<1>5. ASSUME NEW q \in Review, NEW cited \in SUBSET Source, StoreReview(q, cited)
      PROVE  review'[r] \subseteq Live'
  BY <1>1, <1>5 DEF StoreReview, Live, TypeOK
<1>6. CASE UNCHANGED <<source, review>>
  BY <1>1, <1>6 DEF Live
<1> QED
  BY <1>3, <1>4, <1>5, <1>6
     DEF Next, vars, Promote, Archive, LinkSupport, LinkContradiction, StoreProfile

(* No review cites evidence that has been deleted.                         *)
THEOREM ReviewsAlwaysCiteLiveEvidence == Spec => []ReviewsCiteLiveEvidence
<1>1. Init => ReviewsCiteLiveEvidence
  BY DEF Init, ReviewsCiteLiveEvidence
<1> QED
  BY <1>1, ReviewsStep, TypeCorrect, PTL DEF Spec

--------------------------------------------------------------------------------
(* What one row may become in one step of the store.                       *)
RowForward(s) ==
    /\ source[s] = "deleted" => source'[s] = "deleted"
    /\ claim[s].status \in {"superseded", "retracted"} => claim'[s].status = claim[s].status
    /\ claim[s].status # "none" => TierRank[claim[s].tier] <= TierRank[claim'[s].tier]

LEMMA RowStaysForward ==
    ASSUME TypeOK, NEW s \in Source,
           source[s] = "deleted" => source'[s] = "deleted",
           claim'[s] = claim[s]
    PROVE  RowForward(s)
  BY DEF RowForward, TypeOK, ClaimRow, Tier, TierRank

LEMMA ForwardStep ==
    ASSUME StoreInv, [Next]_vars, NEW s \in Source
    PROVE  RowForward(s)
<1> USE DEF StoreInv
<1>0. TierRank[claim[s].tier] \in 0..2 /\ claim[s] \in ClaimRow
  BY DEF TypeOK, ClaimRow, Tier, TierRank
<1>1. ASSUME NEW a \in Source, NEW v \in ValidTime, NEW t \in RecordTime,
             InsertSource(a, v, t)
      PROVE  source[s] = "deleted" => source'[s] = "deleted"
  BY <1>1 DEF InsertSource, TypeOK
<1>2. ASSUME NEW a \in Source, NEW v \in ValidTime, NEW t \in RecordTime,
             NEW input \in ClaimInput, RememberClaim(a, v, t, input)
      PROVE  RowForward(s)
  <2>1. CASE s = a
    BY <1>1, <1>2, <2>1, FreshId DEF RememberClaim, InsertSource, RowForward
  <2>2. CASE s # a
    BY <1>1, <1>2, <2>2, RowStaysForward DEF RememberClaim, TypeOK
  <2> QED
    BY <2>1, <2>2
<1>3. ASSUME NEW a \in Source, NEW v \in ValidTime, NEW t \in RecordTime,
             NEW old \in Source, Correct(old, a, v, t)
      PROVE  RowForward(s)
  <2>1. CASE s = a
    BY <1>1, <1>3, <2>1, FreshId DEF Correct, InsertSource, RowForward
  <2>2. CASE s = old /\ s # a
    <3>1. claim'[s] = SupersededRow(claim[s], v, t) /\ claim[s].status = "accepted"
      BY <1>3, <2>2 DEF Correct, Correctable, Accepted, TypeOK
    <3>2. claim'[s].tier = claim[s].tier
      BY <3>1, <1>0 DEF SupersededRow, ClaimRow
    <3> QED
      BY <1>0, <1>1, <1>3, <3>1, <3>2 DEF RowForward, Correct
  <2>3. CASE s # old /\ s # a
    BY <1>1, <1>3, <2>3, RowStaysForward DEF Correct, TypeOK
  <2> QED
    BY <2>1, <2>2, <2>3
<1>4. ASSUME NEW a \in Source, NEW t \in RecordTime, DeleteSource(a, t)
      PROVE  RowForward(s)
  <2>1. source[s] = "deleted" => source'[s] = "deleted"
    BY <1>4 DEF DeleteSource, TypeOK
  <2>2. CASE s \in LosesSupport(a)
    <3>1. claim'[s] = RetractedRow(claim[s], t) /\ claim[s].status = "accepted"
      BY <1>4, <2>2 DEF DeleteSource, LosesSupport, Accepted
    <3>2. claim'[s].tier = claim[s].tier
      BY <3>1, <1>0 DEF RetractedRow, ClaimRow
    <3> QED
      BY <1>0, <2>1, <3>1, <3>2 DEF RowForward
  <2>3. CASE s \notin LosesSupport(a)
    BY <1>4, <2>1, <2>3, RowStaysForward DEF DeleteSource
  <2> QED
    BY <2>2, <2>3
<1>5. ASSUME NEW c \in Source, NEW t \in RecordTime, Promote(c, t) \/ Archive(c, t)
      PROVE  RowForward(s)
  <2>1. CASE s = c
    <3>1. /\ source' = source
          /\ claim'[s].status = claim[s].status
          /\ \/ claim[s].tier = "short_term" /\ claim'[s].tier = "long_term"
             \/ claim'[s].tier = "archive"
      BY <1>0, <1>5, <2>1 DEF Promote, Promotable, Archive, TypeOK, ClaimRow
    <3>2. TierRank["short_term"] = 0 /\ TierRank["long_term"] = 1 /\ TierRank["archive"] = 2
      BY DEF TierRank
    <3>3. TierRank[claim[s].tier] <= TierRank[claim'[s].tier]
      <4>1. CASE claim[s].tier = "short_term" /\ claim'[s].tier = "long_term"
        BY <4>1, <3>2
      <4>2. CASE claim'[s].tier = "archive"
        BY <4>2, <3>2, <1>0
      <4> QED
        BY <4>1, <4>2, <3>1
    <3> QED
      BY <3>1, <3>3 DEF RowForward
  <2>2. CASE s # c
    BY <1>5, <2>2, RowStaysForward DEF Promote, Archive, TypeOK
  <2> QED
    BY <2>1, <2>2
<1>6. ASSUME NEW a \in Source, NEW v \in ValidTime, NEW t \in RecordTime, Remember(a, v, t)
      PROVE  RowForward(s)
  BY <1>1, <1>6, RowStaysForward DEF Remember
<1>7. CASE UNCHANGED <<source, claim>>
  BY <1>7, RowStaysForward
<1> QED
  BY <1>2, <1>3, <1>4, <1>5, <1>6, <1>7
     DEF Next, vars, LinkSupport, LinkContradiction, StoreProfile, StoreReview

(* No operation un-deletes a source, revives a superseded or retracted     *)
(* claim, or moves a claim back towards short_term.                        *)
THEOREM StoreMovesForward == Spec => ForwardOnly
<1>1. StoreInv /\ [Next]_vars => \A s \in Source : RowForward(s)
  BY ForwardStep
<1>2. StoreInv /\ [Next]_vars =>
        [\A s \in Source :
          /\ source[s] = "deleted" => source'[s] = "deleted"
          /\ claim[s].status \in {"superseded", "retracted"} =>
                claim'[s].status = claim[s].status
          /\ claim[s].status # "none" => TierRank[claim[s].tier] <= TierRank[claim'[s].tier]]_vars
  BY <1>1 DEF RowForward
<1> QED
  BY <1>2, InvCorrect, PTL DEF Spec, ForwardOnly

--------------------------------------------------------------------------------
(* What the refinement mapping calls known, and forgotten.                 *)
Known == {c \in Source : claim[c].status # "none"}
Forgotten == {s \in Source : source[s] = "deleted"}

(* The accepted rows are what the live evidence justifies.                 *)
LEMMA AcceptedAreJustified == StoreInv => Accepted = Belief!Justified
<1> SUFFICES ASSUME StoreInv, NEW c \in Source
             PROVE  c \in Accepted <=> c \in Belief!Justified
  BY DEF Accepted, Belief!Justified
<1>1. c \in Superseded <=> \E d \in Source : corrects[d] = c
  BY DEF StoreInv, TablesAgree, SupersededIffCorrected
<1> QED
  BY <1>1 DEF StoreInv, AcceptedIffSupported, Belief!Justified

(* What a freshly inserted source looks like to the belief memory.         *)
LEMMA InsertIsRecord ==
    ASSUME TypeOK, NEW s \in Source, NEW v \in ValidTime, NEW t \in RecordTime,
           InsertSource(s, v, t)
    PROVE  Belief!Record(s)
<1>1. s \notin Live \cup Forgotten /\ Live' = Live \cup {s} /\ Forgotten' = Forgotten
  BY DEF InsertSource, TypeOK, Live, Forgotten
<1> QED
  BY <1>1 DEF Belief!Record, Forgotten

(* Each operation on claims and evidence is one step of the belief memory. *)
LEMMA RememberIsHear ==
    ASSUME StoreInv, NEW s \in Source, NEW v \in ValidTime, NEW t \in RecordTime,
           Remember(s, v, t)
    PROVE  Belief!Hear(s)
  BY InsertIsRecord DEF StoreInv, Remember, Belief!Hear, Superseded

LEMMA RememberClaimIsLearn ==
    ASSUME StoreInv, NEW s \in Source, NEW v \in ValidTime, NEW t \in RecordTime,
           NEW input \in ClaimInput, RememberClaim(s, v, t, input)
    PROVE  Belief!Learn(s, s)
<1>1. source[s] = "absent" /\ claim' = [claim EXCEPT ![s] = NewClaim(input)]
  BY DEF RememberClaim, InsertSource
<1>2. claim[s].status = "none" /\ supports[s] = {}
  BY <1>1, FreshId
<1>3. supports' = [supports EXCEPT ![s] = @ \cup {s}]
  BY <1>2 DEF RememberClaim, StoreInv, TypeOK
<1>4. Known' = Known \cup {s} /\ Superseded' = Superseded
  BY <1>1, <1>2 DEF Known, Superseded, NewClaim, StoreInv, TypeOK
<1> QED
  BY <1>2, <1>3, <1>4, InsertIsRecord DEF RememberClaim, Belief!Learn, Known, StoreInv

LEMMA CorrectIsReplace ==
    ASSUME StoreInv, NEW s \in Source, NEW v \in ValidTime, NEW t \in RecordTime,
           NEW old \in Source, Correct(old, s, v, t)
    PROVE  Belief!Replace(old, s, s)
<1>1. /\ source[s] = "absent"
      /\ claim[old].status = "accepted"
  BY DEF Correct, Correctable, InsertSource, Accepted
<1>2. claim[s].status = "none" /\ supports[s] = {} /\ old # s
  BY <1>1, FreshId
<1>3. supports' = [supports EXCEPT ![s] = @ \cup {s}]
  BY <1>2 DEF Correct, StoreInv, TypeOK
<1>4. /\ claim'[s].status = "accepted" /\ claim'[old].status = "superseded"
      /\ \A c \in Source \ {s, old} : claim'[c] = claim[c]
  BY <1>2, CorrectRows DEF StoreInv
<1>5. Known' = Known \cup {s} /\ Superseded' = Superseded \cup {old}
  BY <1>1, <1>2, <1>4 DEF Known, Superseded
<1> QED
  BY <1>1, <1>2, <1>3, <1>5, InsertIsRecord
     DEF Correct, Belief!Replace, Known, StoreInv, Accepted

LEMMA DeleteSourceIsForget ==
    ASSUME StoreInv, NEW s \in Source, NEW t \in RecordTime, DeleteSource(s, t)
    PROVE  Belief!Forget(s)
<1>1. s \in Live /\ Live' = Live \ {s} /\ Forgotten' = Forgotten \cup {s}
  BY DEF DeleteSource, Live, Forgotten, StoreInv, TypeOK
<1>2. \A c \in Source : \/ claim'[c] = claim[c]
                        \/ claim[c].status = "accepted" /\ claim'[c].status = "retracted"
  BY DeleteRows DEF StoreInv
<1>3. Known' = Known /\ Superseded' = Superseded /\ supports' = supports
  BY <1>2 DEF Known, Superseded, DeleteSource
<1> QED
  BY <1>1, <1>3 DEF Belief!Forget, Known, Forgotten

LEMMA LinkSupportIsCorroborate ==
    ASSUME StoreInv, NEW c \in Source, NEW e \in Source, LinkSupport(c, e)
    PROVE  Belief!Corroborate(c, e)
  BY DEF LinkSupport, Linkable, Belief!Corroborate, Superseded, Live, Accepted

(* Every other operation is a stuttering step of the belief memory.        *)
LEMMA OtherOperationsStutter ==
    ASSUME StoreInv, NEW c \in Source,
           \/ \E t \in RecordTime : \/ Promote(c, t) \/ Archive(c, t)
                                     \/ StoreProfile(c, t)
           \/ \E e \in Source : LinkContradiction(c, e)
           \/ \E r \in Review, cited \in SUBSET Source : StoreReview(r, cited)
           \/ UNCHANGED vars
    PROVE  UNCHANGED Belief!beliefVars
<1>1. source' = source /\ supports' = supports
  BY DEF Promote, Archive, StoreProfile, LinkContradiction, StoreReview, vars
<1>2. \A d \in Source : claim'[d].status = claim[d].status
  <2>1. CASE \E t \in RecordTime : Promote(c, t) \/ Archive(c, t)
    BY <2>1, TierSet, TierRows DEF StoreInv
  <2>2. CASE claim' = claim
    BY <2>2
  <2> QED
    BY <2>1, <2>2 DEF StoreProfile, LinkContradiction, StoreReview, vars
<1> QED
  BY <1>1, <1>2 DEF Belief!beliefVars, Live, Superseded, Accepted

LEMMA BeliefStep ==
    ASSUME StoreInv, (Accepted = Belief!Justified)', [Next]_vars
    PROVE  [Belief!BeliefNext]_(Belief!beliefVars)
<1>1. Accepted' = Belief!Justified'
  OBVIOUS
<1>2. ASSUME NEW s \in Source, NEW v \in ValidTime, NEW t \in RecordTime,
             \/ Remember(s, v, t)
             \/ \E input \in ClaimInput : RememberClaim(s, v, t, input)
             \/ \E old \in Source : Correct(old, s, v, t)
      PROVE  Belief!BeliefNext
  BY <1>1, <1>2, RememberIsHear, RememberClaimIsLearn, CorrectIsReplace
     DEF Belief!BeliefNext
<1>3. ASSUME NEW s \in Source, NEW t \in RecordTime, DeleteSource(s, t)
      PROVE  Belief!BeliefNext
  BY <1>1, <1>3, DeleteSourceIsForget DEF Belief!BeliefNext
<1>4. ASSUME NEW c \in Source, NEW e \in Source, LinkSupport(c, e)
      PROVE  Belief!BeliefNext
  BY <1>1, <1>4, LinkSupportIsCorroborate DEF Belief!BeliefNext
<1>5. CASE UNCHANGED vars
  BY <1>5 DEF vars, Belief!beliefVars, Live, Superseded, Accepted
<1>6. ASSUME NEW r \in Review, NEW cited \in SUBSET Source, StoreReview(r, cited)
      PROVE  UNCHANGED Belief!beliefVars
  BY <1>6 DEF StoreReview, Belief!beliefVars, Live, Superseded, Accepted
<1> QED
  BY <1>2, <1>3, <1>4, <1>5, <1>6, OtherOperationsStutter DEF Next

(* The store implements the abstract belief memory for every instance.     *)
THEOREM StoreImplementsBelief == Spec => ImplementsBelief
<1>1. Init => Belief!BeliefInit
  BY DEF Init, NoRow, Belief!BeliefInit, Live, Superseded, Accepted
<1>2. StoreInv /\ (Accepted = Belief!Justified)' /\ [Next]_vars
        => [Belief!BeliefNext]_(Belief!beliefVars)
  BY BeliefStep
<1> QED
  BY <1>1, <1>2, AcceptedAreJustified, InvCorrect, PTL DEF Spec, ImplementsBelief, Belief!BeliefSpec

--------------------------------------------------------------------------------
(* Every time a caller supplies lies before the open end.                  *)
LEMMA TimesPrecedeOpen ==
    ASSUME NEW time \in ValidTime \cup RecordTime
    PROVE  time \in Nat /\ time <= Open - 1 /\ ~(Open - 1 < time)
<1>1. time \in Nat /\ Open \in Nat /\ time < Open
  BY TimeAssumption
<1> QED
  BY <1>1

(* What is in force is what no interval has closed: ordinary search and a  *)
(* search as of the end of both time axes find the same claims, archived   *)
(* ones aside.                                                             *)
THEOREM CurrentSearchIsOpenHistory == Spec => []CurrentAnswersAreTheOpenHistory
<1>1. StoreInv => CurrentAnswersAreTheOpenHistory
  <2> SUFFICES ASSUME StoreInv, NEW c \in Source
               PROVE  c \in CurrentAnswers <=> /\ c \in AsOf(Open - 1, Open - 1)
                                              /\ claim[c].tier # "archive"
    BY DEF CurrentAnswersAreTheOpenHistory, CurrentAnswers, AsOf, Accepted, Superseded
  <2>1. \A s \in Source : source[s] # "absent" =>
          /\ validFrom[s] \in Nat /\ validFrom[s] <= Open - 1
          /\ recordedAt[s] \in Nat /\ recordedAt[s] <= Open - 1
    BY TimesPrecedeOpen DEF StoreInv, TablesAgree, IntervalsFollowStatus
  <2>2. claim[c].status # "none" => source[c] # "absent"
    BY DEF StoreInv, TablesAgree, AbsentIdsAreUnused
  <2>3. c \in Superseded => ~(Open - 1 < claim[c].validUntil)
    BY TimesPrecedeOpen DEF StoreInv, TablesAgree, IntervalsFollowStatus
  <2>4. c \in Accepted => /\ claim[c].validUntil = Open /\ claim[c].recordedUntil = Open
                          /\ supports[c] \cap Live # {}
    BY DEF StoreInv, TablesAgree, IntervalsFollowStatus, AcceptedIffSupported
  <2>5. Open - 1 < Open
    BY TimeAssumption
  <2>6. CASE c \in Accepted
    <3>1. claim[c].status # "none"
      BY <2>6 DEF Accepted
    <3>2. \E e \in supports[c] \cap Live : recordedAt[e] <= Open - 1 /\ validFrom[e] <= Open - 1
      BY <2>1, <2>4, <2>6 DEF Live
    <3> QED
      BY <3>1, <3>2, <2>1, <2>2, <2>4, <2>5, <2>6 DEF CurrentAnswers, AsOf
  <2>7. CASE c \notin Accepted
    BY <2>3, <2>7 DEF CurrentAnswers, AsOf
  <2> QED
    BY <2>6, <2>7
<1> QED
  BY <1>1, InvCorrect, PTL

--------------------------------------------------------------------------------
(* A correction's claim is valid from later on than the claim it replaced, *)
(* which was valid until then and is replaced by no other.                 *)
LEMMA CorrectionIsLater ==
    ASSUME StoreInv, NEW c \in Source, corrects[c] # NoClaim
    PROVE  /\ corrects[c] \in Source
           /\ claim[corrects[c]].validUntil = validFrom[c]
           /\ validFrom[corrects[c]] < validFrom[c]
           /\ \A d \in Source : corrects[d] = corrects[c] => d = c
<1>1. corrects[c] \in Source
  BY DEF StoreInv, TypeOK
<1>2. corrects[c] \in Superseded
  BY <1>1 DEF StoreInv, TablesAgree, SupersededIffCorrected
<1>3. QED
  BY <1>1, <1>2 DEF StoreInv, TablesAgree, CorrectionsAbut, IntervalsFollowStatus

(* Both ends of a claim's validity are times.                              *)
LEMMA ValidityIsNatural ==
    ASSUME StoreInv, NEW c \in Source
    PROVE  validFrom[c] \in Nat /\ claim[c].validUntil \in Nat /\ validFrom[c] <= Open
<1>1. claim[c] \in ClaimRow /\ validFrom[c] \in ValidTime \cup {Open}
  BY DEF StoreInv, TypeOK
<1>2. claim[c].validUntil \in ValidTime \cup {Open}
  BY <1>1 DEF ClaimRow
<1>3. \A t \in ValidTime \cup {Open} : t \in Nat /\ t <= Open
  <2>1. \A t \in ValidTime : t \in Nat /\ t < Open
    BY TimeAssumption
  <2>2. Open \in Nat
    BY TimeAssumption
  <2>3. QED
    BY <2>1, <2>2
<1>4. QED
  BY <1>1, <1>2, <1>3

(* One step back along a lineage, taken for every claim at once.           *)
RootFrom(f) == [c \in Source |-> IF corrects[c] = NoClaim THEN c ELSE f[corrects[c]]]

(* Lineages are finite: as a correction is valid from later on than what it*)
(* replaced, the recursion behind LineageRoot ends.                        *)
LEMMA LineageRootDef ==
    ASSUME StoreInv
    PROVE  \A c \in Source :
              LineageRoot[c] = IF corrects[c] = NoClaim THEN c ELSE LineageRoot[corrects[c]]
<1> DEFINE S == [Source -> Source]
           base == [c \in Source |-> c]
           step == [i \in 1..Open |-> [x \in S |-> RootFrom(x)]]
           root == LineageRoot
<1>1. base \in S
  OBVIOUS
<1>2. \A x \in S : RootFrom(x) \in S
  BY CorrectionIsLater DEF RootFrom
<1>3. Open \in Nat
  BY TimeAssumption
<1> HIDE DEF S
<1>4. step \in [1..Open -> [S -> S]]
  BY <1>2
<1>5. \A i \in 1..Open, x \in S : step[i][x] = RootFrom(x)
  OBVIOUS
<1> HIDE DEF base, step
<1>6. PICK f : Iterates(f, S, base, Open, step)
  BY <1>1, <1>3, <1>4, IterationExists, Zenon
<1>7. /\ f[0] = base
      /\ \A i \in 0..Open : f[i] \in S
      /\ \A i \in 1..Open : f[i] = RootFrom(f[i - 1])
  BY <1>3, <1>5, <1>6 DEF Iterates
<1> DEFINE Settled(i) == \A c \in Source : validFrom[c] < i => f[i][c] = f[i - 1][c]
           T == {i \in Nat : i \in 1..Open => Settled(i)}
<1>8. ASSUME NEW c \in Source, corrects[c] = NoClaim
      PROVE  \A i \in 0..Open : f[i][c] = c
  <2>1. SUFFICES ASSUME NEW i \in 0..Open PROVE f[i][c] = c
    OBVIOUS
  <2>2. CASE i = 0
    BY <1>7, <2>2 DEF base
  <2>3. CASE i # 0
    <3>1. i \in 1..Open
      BY <1>3, <2>1, <2>3
    <3>2. f[i] = RootFrom(f[i - 1])
      BY <1>7, <3>1
    <3>3. QED
      BY <1>8, <3>2 DEF RootFrom
  <2>4. QED
    BY <2>2, <2>3
<1>9. 0 \in T
  OBVIOUS
<1>10. ASSUME NEW i \in Nat, i \in T
       PROVE  i + 1 \in T
  <2>1. SUFFICES ASSUME i + 1 \in 1..Open, NEW c \in Source, validFrom[c] < i + 1
                 PROVE  f[i + 1][c] = f[i][c]
    OBVIOUS
  <2>2. CASE corrects[c] = NoClaim
    BY <1>3, <1>8, <2>1, <2>2
  <2>3. CASE corrects[c] # NoClaim
    <3>1. /\ corrects[c] \in Source
          /\ validFrom[corrects[c]] \in Nat /\ validFrom[c] \in Nat
          /\ validFrom[corrects[c]] < i
      BY <2>1, <2>3, CorrectionIsLater, ValidityIsNatural
    <3>2. i \in 1..Open
      BY <1>3, <2>1, <3>1
    <3>3. f[i][corrects[c]] = f[i - 1][corrects[c]]
      BY <1>10, <3>1, <3>2
    <3>4. f[i + 1] = RootFrom(f[i]) /\ f[i] = RootFrom(f[i - 1])
      BY <1>7, <2>1, <3>2
    <3>5. f[i + 1][c] = f[i][corrects[c]] /\ f[i][c] = f[i - 1][corrects[c]]
      BY <2>3, <3>4 DEF RootFrom
    <3>6. QED
      BY <3>3, <3>5
  <2>4. QED
    BY <2>2, <2>3
<1> HIDE DEF T
<1>11. \A i \in Nat : i \in T
  BY <1>9, <1>10, InductiveSet
<1> USE DEF T
<1>12. f[Open] = RootFrom(f[Open])
  <2>1. SUFFICES ASSUME NEW c \in Source PROVE f[Open][c] = RootFrom(f[Open])[c]
    <3>1. f[Open] \in S /\ RootFrom(f[Open]) \in S
      BY <1>2, <1>3, <1>7
    <3>2. QED
      BY <2>1, <3>1 DEF S
  <2>2. CASE corrects[c] = NoClaim
    BY <1>3, <1>8, <2>2 DEF RootFrom
  <2>3. CASE corrects[c] # NoClaim
    <3>1. /\ corrects[c] \in Source /\ validFrom[corrects[c]] \in Nat
          /\ validFrom[corrects[c]] < Open
      BY <1>3, <2>3, CorrectionIsLater, ValidityIsNatural
    <3>2. Open \in 1..Open
      BY <1>3, <3>1
    <3>3. f[Open][corrects[c]] = f[Open - 1][corrects[c]]
      BY <1>3, <1>11, <3>1, <3>2
    <3>4. f[Open][c] = f[Open - 1][corrects[c]]
      <4>1. f[Open] = RootFrom(f[Open - 1])
        BY <1>7, <3>2
      <4>2. QED
        BY <2>3, <4>1 DEF RootFrom
    <3>5. QED
      BY <2>3, <3>3, <3>4 DEF RootFrom
  <2>4. QED
    BY <2>2, <2>3
<1>13. root = CHOOSE g : g = RootFrom(g)
  BY Zenon DEF LineageRoot, RootFrom
<1>14. root = RootFrom(root)
  <2> HIDE DEF root
  <2>1. QED
    BY <1>12, <1>13, Zenon
<1>15. QED
  BY <1>14 DEF RootFrom

(* The original claim of a lineage corrects nothing, and nothing in the    *)
(* lineage is valid from earlier on.                                       *)
LEMMA RootIsEarliest ==
    ASSUME StoreInv
    PROVE  \A c \in Source : LineageRoot[c] \in Source
                             /\ validFrom[LineageRoot[c]] <= validFrom[c]
<1> DEFINE P(c) == LineageRoot[c] \in Source /\ validFrom[LineageRoot[c]] <= validFrom[c]
           T == {n \in Nat : \A c \in Source : validFrom[c] = n => P(c)}
<1>1. ASSUME NEW n \in Nat, \A m \in Nat : m < n => m \in T
      PROVE  n \in T
  <2>1. SUFFICES ASSUME NEW c \in Source, validFrom[c] = n PROVE P(c)
    OBVIOUS
  <2>2. CASE corrects[c] = NoClaim
    BY <2>1, <2>2, LineageRootDef
  <2>3. CASE corrects[c] # NoClaim
    <3>1. /\ corrects[c] \in Source
          /\ validFrom[corrects[c]] \in Nat /\ validFrom[corrects[c]] < n
      BY <2>1, <2>3, CorrectionIsLater, ValidityIsNatural
    <3>2. P(corrects[c])
      BY <1>1, <3>1
    <3>3. LineageRoot[c] = LineageRoot[corrects[c]]
      BY <2>3, LineageRootDef
    <3>4. validFrom[LineageRoot[c]] \in Nat
      BY <3>2, <3>3, ValidityIsNatural
    <3>5. QED
      BY <2>1, <3>1, <3>2, <3>3, <3>4
  <2>4. QED
    BY <2>2, <2>3
<1> HIDE DEF T
<1>2. \A n \in Nat : n \in T
  BY <1>1, ProgressiveSet
<1> USE DEF T
<1>3. QED
  BY <1>2, ValidityIsNatural

(* The validity of claim c ends no later than that of claim d begins.      *)
ValidBefore(c, d) == claim[c].validUntil <= validFrom[d]

(* Two claims of one lineage are never valid at the same time.             *)
LEMMA LineageIsOrdered ==
    ASSUME StoreInv
    PROVE  \A c, d \in Source :
              c # d /\ LineageRoot[c] = LineageRoot[d] => ValidBefore(c, d) \/ ValidBefore(d, c)
<1> DEFINE P(c, d) ==
        c # d /\ LineageRoot[c] = LineageRoot[d] => ValidBefore(c, d) \/ ValidBefore(d, c)
           T == {n \in Nat : \A c, d \in Source : validFrom[c] + validFrom[d] = n => P(c, d)}
<1>1. ASSUME NEW n \in Nat, \A m \in Nat : m < n => m \in T
      PROVE  n \in T
  <2>1. SUFFICES ASSUME NEW c \in Source, NEW d \in Source, validFrom[c] + validFrom[d] = n,
                        c # d, LineageRoot[c] = LineageRoot[d]
                 PROVE  ValidBefore(c, d) \/ ValidBefore(d, c)
    OBVIOUS
  <2>2. \A x \in Source : validFrom[x] \in Nat /\ claim[x].validUntil \in Nat
    BY ValidityIsNatural
  <2>3. \A x \in {c, d} : corrects[x] # NoClaim =>
           /\ corrects[x] \in Source /\ LineageRoot[x] = LineageRoot[corrects[x]]
           /\ claim[corrects[x]].validUntil = validFrom[x]
           /\ validFrom[corrects[x]] < validFrom[x]
    BY CorrectionIsLater, LineageRootDef
  <2>4. \A x, y \in Source : validFrom[x] + validFrom[y] < n => P(x, y)
    BY <1>1, <2>2
  <2>5. \A x, y \in {c, d} : x # y /\ corrects[x] # NoClaim /\ corrects[x] # y =>
           ValidBefore(corrects[x], y) \/ ValidBefore(y, corrects[x])
    <3>1. SUFFICES ASSUME NEW x \in {c, d}, NEW y \in {c, d}, x # y,
                          corrects[x] # NoClaim, corrects[x] # y
                   PROVE  ValidBefore(corrects[x], y) \/ ValidBefore(y, corrects[x])
      OBVIOUS
    <3>2. corrects[x] \in Source /\ validFrom[corrects[x]] + validFrom[y] < n
      BY <2>1, <2>2, <2>3, <3>1
    <3>3. LineageRoot[corrects[x]] = LineageRoot[y]
      BY <2>1, <2>3, <3>1
    <3>4. QED
      BY <2>4, <3>1, <3>2, <3>3
  <2>6. ASSUME NEW x \in {c, d}, NEW y \in {c, d}, x # y,
               corrects[x] # NoClaim, corrects[y] = NoClaim
        PROVE  ValidBefore(y, x)
    <3>1. LineageRoot[corrects[x]] = y
      BY <2>1, <2>3, <2>6, LineageRootDef
    <3>2. validFrom[y] <= validFrom[corrects[x]]
      BY <2>3, <2>6, <3>1, RootIsEarliest
    <3>3. ~ ValidBefore(corrects[x], y)
      BY <2>2, <2>3, <2>6, <3>2 DEF ValidBefore
    <3>4. QED
      BY <2>2, <2>3, <2>5, <2>6, <3>3 DEF ValidBefore
  <2>7. CASE corrects[c] # NoClaim /\ corrects[d] # NoClaim
    <3> DEFINE p == corrects[c]
               q == corrects[d]
    <3>1. p # q /\ LineageRoot[p] = LineageRoot[q]
      BY <2>1, <2>3, <2>7, CorrectionIsLater
    <3>2. p \in Source /\ q \in Source /\ validFrom[p] + validFrom[q] < n
      BY <2>1, <2>2, <2>3, <2>7
    <3>3. ValidBefore(p, q) \/ ValidBefore(q, p)
      BY <2>4, <3>1, <3>2
    <3>4. validFrom[c] # validFrom[d]
      BY <2>2, <2>3, <2>7, <3>2, <3>3 DEF ValidBefore
    <3>5. CASE validFrom[c] < validFrom[d]
      <4>1. q = c \/ ValidBefore(c, q)
        BY <2>1, <2>2, <2>3, <2>5, <2>7, <3>2, <3>5 DEF ValidBefore
      <4>2. QED
        BY <2>2, <2>3, <2>7, <3>2, <4>1 DEF ValidBefore
    <3>6. CASE validFrom[d] < validFrom[c]
      <4>1. p = d \/ ValidBefore(d, p)
        BY <2>1, <2>2, <2>3, <2>5, <2>7, <3>2, <3>6 DEF ValidBefore
      <4>2. QED
        BY <2>2, <2>3, <2>7, <3>2, <4>1 DEF ValidBefore
    <3>7. QED
      BY <2>2, <3>4, <3>5, <3>6
  <2>8. CASE corrects[c] = NoClaim /\ corrects[d] = NoClaim
    BY <2>1, <2>8, LineageRootDef
  <2>9. QED
    BY <2>1, <2>6, <2>7, <2>8
<1> HIDE DEF T
<1>2. \A n \in Nat : n \in T
  BY <1>1, ProgressiveSet
<1> USE DEF T
<1>3. QED
  BY <1>2, ValidityIsNatural

(* However long the chains of corrections, as_of search answers with at    *)
(* most one claim of each at any point of valid and recorded time.         *)
THEOREM LineagesAnswerOnce == Spec => []OneAnswerPerLineage
<1>1. StoreInv => OneAnswerPerLineage
  <2>1. SUFFICES ASSUME StoreInv, NEW v \in ValidTime, NEW t \in RecordTime,
                        NEW c \in AsOf(v, t), NEW d \in AsOf(v, t),
                        LineageRoot[c] = LineageRoot[d], c # d
                 PROVE  FALSE
    BY DEF OneAnswerPerLineage
  <2>2. c \in Source /\ d \in Source
    BY DEF AsOf, Accepted, Superseded
  <2>3. ValidBefore(c, d) \/ ValidBefore(d, c)
    BY <2>1, <2>2, LineageIsOrdered
  <2>4. /\ validFrom[c] <= v /\ v < claim[c].validUntil
        /\ validFrom[d] <= v /\ v < claim[d].validUntil
    BY DEF AsOf
  <2>5. v \in Nat
    BY TimeAssumption
  <2>6. \A x \in {c, d} : validFrom[x] \in Nat /\ claim[x].validUntil \in Nat
    BY <2>1, <2>2, ValidityIsNatural
  <2>7. QED
    BY <2>3, <2>4, <2>5, <2>6 DEF ValidBefore
<1>2. QED
  BY <1>1, InvCorrect, PTL
================================================================================
