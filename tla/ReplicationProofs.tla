--------------------------- MODULE ReplicationProofs ---------------------------
(***************************************************************************)
(* Theorems about Migration and Replication: a replica that follows the    *)
(* feed of a store, and the feed of a store that older releases wrote      *)
(* before, for every set of ids and times and every history.               *)
(*                                                                         *)
(* A feed has a replay: the tables after each of its commits, beginning    *)
(* with empty ones.  Every operation appends a commit whose replay ends in *)
(* the tables it leaves, and no record is in two commits.  So the replica  *)
(* is always somewhere along the replay, and its ledger tells exactly how  *)
(* far.                                                                    *)
(***************************************************************************)
EXTENDS Following, MemoryStoreProofs, FiniteSetTheorems, SequenceTheorems

Kinds == {"sources", "claims", "links", "profiles", "reviews",
          "corrections", "deletedSources", "deletedEntries", "deletedReviews"}

(* What a commit may hold.                                                 *)
Commit ==
    [sources : SUBSET [id : Source, state : {"absent", "live", "deleted"},
                       capturedAt : ValidTime \cup {Open}, recordedAt : RecordTime \cup {Open}],
     claims : SUBSET [id : Source, row : ClaimRow],
     links : SUBSET [claim : Source, evidence : Source, relation : {"supports", "contradicts"}],
     profiles : SUBSET [id : Nat, key : Key, claim : Source \cup {NoClaim},
                        at : RecordTime \cup {Open}],
     reviews : SUBSET [id : Review, cited : SUBSET Source],
     corrections : SUBSET [claim : Source, old : Source],
     deletedSources : SUBSET Source,
     deletedEntries : SUBSET Nat,
     deletedReviews : SUBSET Review]

--------------------------------------------------------------------------------
(* R[i] is what the first i commits of a feed make of empty tables.        *)
IsReplay(R, log) ==
    /\ R[0] = EmptyTables
    /\ \A i \in 1..Len(log) :
          ~Refused(R[i - 1], log[i]) /\ R[i] = Materialized(R[i - 1], log[i])

(* The records of the first n commits, in the form of a ledger.            *)
SeenUpTo(log, n) == [kind \in Kinds |-> UNION {log[i][kind] : i \in 1..n}]

(* No record is in two commits.                                            *)
Disjoint(log) ==
    \A i, j \in 1..Len(log) : i < j => \A kind \in Kinds : log[i][kind] \cap log[j][kind] = {}

SoundLog(log) ==
    /\ log \in Seq(Commit)
    /\ \A i \in 1..Len(log) : log[i] # NoRecords
    /\ Disjoint(log)

(* A replica after n commits, of which it had m before the batch.          *)
Reached(R, log, m, n) ==
    [tables |-> R[n], seen |-> SeenUpTo(log, n), commits |-> SubSeq(log, m + 1, n), ok |-> TRUE]

(* A commit is the function of the kinds of its records.                   *)
LEMMA CommitShape ==
    ASSUME NEW commit \in Commit
    PROVE  DOMAIN commit = Kinds /\ commit = [kind \in Kinds |-> commit[kind]]
  BY DEF Commit, Kinds

(* So is the commit without records.                                       *)
LEMMA NothingShape == NoRecords = [kind \in Kinds |-> {}]
  BY DEF NoRecords, Kinds

(* What the ledger of the first n commits gains by the next one.           *)
LEMMA SeenGrows ==
    ASSUME NEW log \in Seq(Commit), NEW n \in Nat, n + 1 <= Len(log)
    PROVE  Remembered(SeenUpTo(log, n), log[n + 1]) = SeenUpTo(log, n + 1)
<1>1. DOMAIN SeenUpTo(log, n) = Kinds
  BY DEF SeenUpTo
<1>2. ASSUME NEW kind \in Kinds
      PROVE  UNION {log[i][kind] : i \in 1..n + 1}
                = (UNION {log[i][kind] : i \in 1..n}) \cup log[n + 1][kind]
  <2>1. 1..n + 1 = (1..n) \cup {n + 1}
    OBVIOUS
  <2>2. QED
    BY <2>1
<1>3. \A kind \in Kinds : SeenUpTo(log, n)[kind] = UNION {log[i][kind] : i \in 1..n}
  BY DEF SeenUpTo
<1>4. Remembered(SeenUpTo(log, n), log[n + 1])
        = [kind \in Kinds |-> SeenUpTo(log, n)[kind] \cup log[n + 1][kind]]
  BY <1>1, Zenon DEF Remembered
<1>5. QED
  BY <1>2, <1>3, <1>4 DEF SeenUpTo

(* A commit the ledger has is skipped.                                     *)
LEMMA SkipsWhatItHas ==
    ASSUME NEW log, SoundLog(log), NEW R, NEW m, NEW n \in 0..Len(log), NEW i \in 1..n
    PROVE  ApplyCommit(Reached(R, log, m, n), log[i]) = Reached(R, log, m, n)
<1>1. log[i] \in Commit
  BY DEF SoundLog
<1>2. \A kind \in Kinds : log[i][kind] \subseteq SeenUpTo(log, n)[kind]
  BY DEF SeenUpTo
<1>3. Unseen(log[i], SeenUpTo(log, n)) = [kind \in Kinds |-> {}]
  BY <1>1, <1>2, CommitShape DEF Unseen
<1>4. Reached(R, log, m, n).seen = SeenUpTo(log, n)
  BY DEF Reached
<1>5. QED
  BY <1>3, <1>4, NothingShape DEF ApplyCommit

(* The next commit is materialized, published and remembered.              *)
LEMMA TakesTheNext ==
    ASSUME NEW log, SoundLog(log), NEW R, IsReplay(R, log),
           NEW m \in Nat, NEW n \in Nat, m <= n, n + 1 <= Len(log)
    PROVE  ApplyCommit(Reached(R, log, m, n), log[n + 1]) = Reached(R, log, m, n + 1)
<1> DEFINE new == log[n + 1]
           seen == SeenUpTo(log, n)
<1>1. log \in Seq(Commit) /\ n + 1 \in 1..Len(log)
  BY DEF SoundLog
<1>2. new \in Commit /\ new # NoRecords
  BY <1>1 DEF SoundLog
<1>3. \A kind \in Kinds : new[kind] \cap seen[kind] = {}
  BY <1>1 DEF SoundLog, Disjoint, SeenUpTo
<1>4. Unseen(new, seen) = new
  <2> HIDE DEF new, seen
  <2>1. QED
    BY <1>2, <1>3, CommitShape DEF Unseen
<1>5. ~Refused(R[n], new) /\ Materialized(R[n], new) = R[n + 1]
  BY <1>1 DEF IsReplay
<1>6. Remembered(seen, new) = SeenUpTo(log, n + 1)
  BY <1>1, SeenGrows
<1>7. Append(SubSeq(log, m + 1, n), new) = SubSeq(log, m + 1, n + 1)
  BY <1>1
<1> DEFINE store == Reached(R, log, m, n)
<1>8. store.tables = R[n] /\ store.seen = seen /\ store.ok
      /\ store.commits = SubSeq(log, m + 1, n)
  BY DEF Reached
<1> HIDE DEF new, seen, store
<1>9. ApplyCommit(store, new)
        = [tables |-> R[n + 1], seen |-> SeenUpTo(log, n + 1),
           commits |-> SubSeq(log, m + 1, n + 1), ok |-> TRUE]
  BY <1>2, <1>4, <1>5, <1>6, <1>7, <1>8 DEF ApplyCommit
<1>10. QED
  BY <1>9 DEF Reached, new, store

(* The later of two places in a feed.                                      *)
Later(m, n) == IF n > m THEN n ELSE m

(* A run of commits that leaves no gap takes the replica to its end, or    *)
(* leaves it where it is.                                                  *)
LEMMA ApplyFollows ==
    ASSUME NEW log, SoundLog(log), NEW R, IsReplay(R, log),
           NEW done \in 0..Len(log), NEW a \in 1..done + 1, NEW b \in 0..Len(log), a <= b + 1
    PROVE  Apply(R[done], SeenUpTo(log, done), SubSeq(log, a, b))
              = Reached(R, log, done, Later(done, b))
<1> DEFINE batch == SubSeq(log, a, b)
           n == b - a + 1
           start == [tables |-> R[done], seen |-> SeenUpTo(log, done), commits |-> <<>>, ok |-> TRUE]
           Def(f) == [i \in 0..n |-> IF i = 0 THEN start ELSE ApplyCommit(f[i - 1], batch[i])]
           place == [i \in 0..n |-> Later(done, a + i - 1)]
           g == [i \in 0..n |-> Reached(R, log, done, place[i])]
           after == CHOOSE f : f = Def(f)
<1>1. log \in Seq(Commit) /\ done \in Nat /\ a \in Nat /\ b \in Nat /\ Len(log) \in Nat
  BY DEF SoundLog
<1>2. /\ Len(batch) = n /\ n \in Nat
      /\ \A i \in 1..n : batch[i] = log[a + i - 1]
  BY <1>1
<1>3. Apply(R[done], SeenUpTo(log, done), batch) = after[n]
  <2>1. Apply(R[done], SeenUpTo(log, done), batch)
          = (CHOOSE f : f = [i \in 0..Len(batch) |->
                                IF i = 0 THEN start ELSE ApplyCommit(f[i - 1], batch[i])])[Len(batch)]
    BY Zenon DEF Apply, start
  <2> HIDE DEF batch, n, start
  <2>2. QED
    BY <1>2, <2>1
<1> HIDE DEF batch
<1>4. /\ place[0] = done /\ place[n] = Later(done, b)
      /\ \A i \in 1..n : place[i] = Later(done, a + i - 1) /\ place[i - 1] = Later(done, a + i - 2)
  <2>1. Later(done, a + 0 - 1) = done
    BY <1>1 DEF Later
  <2>2. a + n - 1 = b
    BY <1>1
  <2>3. 0 \in 0..n /\ n \in 0..n
    BY <1>2
  <2>4. \A i \in 1..n : i \in 0..n /\ i - 1 \in 0..n /\ a + (i - 1) - 1 = a + i - 2
    BY <1>1, <1>2
  <2> HIDE DEF n
  <2>5. QED
    BY <2>1, <2>2, <2>3, <2>4
<1>5. /\ g[0] = Reached(R, log, done, done) /\ g[n] = Reached(R, log, done, Later(done, b))
      /\ \A i \in 0..n : g[i] = Reached(R, log, done, place[i])
  BY <1>2, <1>4
<1>6. g[0] = start
  <2>1. SubSeq(log, done + 1, done) = <<>>
    BY <1>1
  <2>2. QED
    BY <1>5, <2>1 DEF Reached
<1>7. ASSUME NEW i \in 1..n
      PROVE  g[i] = ApplyCommit(g[i - 1], batch[i])
  <2>1. PICK at \in 1..Len(log) : at = a + i - 1
    BY <1>1
  <2> HIDE DEF n, place, g
  <2>2. batch[i] = log[at] /\ at - 1 = a + i - 2
    BY <1>1, <1>2, <2>1
  <2>3. i - 1 \in 0..n /\ i \in 0..n
    BY <1>2
  <2>4. /\ g[i - 1] = Reached(R, log, done, Later(done, at - 1))
        /\ g[i] = Reached(R, log, done, Later(done, at))
    BY <1>4, <1>5, <2>1, <2>2, <2>3
  <2>5. CASE at <= done
    <3>1. Later(done, at - 1) = done /\ Later(done, at) = done
      BY <1>1, <2>5 DEF Later
    <3>2. ApplyCommit(Reached(R, log, done, done), log[at]) = Reached(R, log, done, done)
      BY <2>5, SkipsWhatItHas
    <3>3. QED
      BY <2>2, <2>4, <3>1, <3>2
  <2>6. CASE at > done
    <3>1. Later(done, at - 1) = at - 1 /\ Later(done, at) = at
      BY <1>1, <2>6 DEF Later
    <3>2. PICK m \in Nat : m = at - 1
      OBVIOUS
    <3>3. ApplyCommit(Reached(R, log, done, m), log[m + 1]) = Reached(R, log, done, m + 1)
      BY <1>1, <2>6, <3>2, TakesTheNext
    <3>4. QED
      BY <2>2, <2>4, <3>1, <3>2, <3>3
  <2>7. QED
    BY <1>1, <2>5, <2>6
<1>8. g = Def(g)
  <2>1. g = [i \in 0..n |-> g[i]]
    OBVIOUS
  <2> HIDE DEF g, start, n
  <2>2. \A i \in 0..n : i # 0 => i \in 1..n
    BY <1>2
  <2>3. \A i \in 0..n : g[i] = IF i = 0 THEN start ELSE ApplyCommit(g[i - 1], batch[i])
    BY <1>6, <1>7, <2>2, Zenon
  <2>4. QED
    BY <2>1, <2>3, Zenon
<1>9. after = Def(after)
  <2> HIDE DEF Def, g
  <2>1. QED
    BY <1>8, Zenon
<1> HIDE DEF after, start, g, n
<1>10. \A i \in 0..n : after[i] = IF i = 0 THEN start ELSE ApplyCommit(after[i - 1], batch[i])
  BY <1>9
<1> DEFINE T == {i \in Nat : i <= n => after[i] = g[i]}
<1>11. 0 \in T
  BY <1>2, <1>6, <1>10
<1>12. ASSUME NEW i \in Nat, i \in T PROVE i + 1 \in T
  <2>1. SUFFICES ASSUME i + 1 <= n PROVE after[i + 1] = g[i + 1]
    OBVIOUS
  <2>2. PICK j \in 1..n : j = i + 1 /\ j # 0 /\ j \in 0..n /\ j - 1 = i
    BY <1>2, <2>1
  <2>3. after[i] = g[i]
    BY <1>2, <1>12, <2>1
  <2>4. after[j] = ApplyCommit(after[j - 1], batch[j])
    BY <1>10, <2>2, Zenon
  <2>5. g[j] = ApplyCommit(g[j - 1], batch[j])
    BY <1>7
  <2>6. QED
    BY <2>2, <2>3, <2>4, <2>5
<1> HIDE DEF T
<1>13. \A i \in Nat : i \in T
  BY <1>11, <1>12, InductiveSet
<1>14. after[n] = g[n]
  BY <1>2, <1>13 DEF T
<1>15. QED
  BY <1>3, <1>5, <1>14 DEF batch

--------------------------------------------------------------------------------
(* A row nobody wrote is the one empty tables have.                        *)
UnusedRowsAreBlank ==
    /\ \A s \in Source : source[s] = "absent" => validFrom[s] = Open /\ recordedAt[s] = Open
    /\ \A c \in Source : claim[c].status = "none" =>
          claim[c] = NoRow /\ supports[c] = {} /\ contradicts[c] = {}
    /\ \A k \in Key : profile[k] = NoClaim => profileAt[k] = Open

(* What the tables of a store satisfy, with or without the corrections     *)
(* that the migration of an older file starts without.                     *)
RowsOK ==
    /\ TypeOK
    /\ AbsentIdsAreUnused
    /\ UnusedRowsAreBlank
    /\ ProfilesAreBacked
    /\ ReviewsCiteLiveEvidence

(* A store begins with such rows.                                          *)
LEMMA RowsInit == Init => RowsOK
  BY TypeInit, SentinelAssumption
     DEF Init, RowsOK, AbsentIdsAreUnused, UnusedRowsAreBlank, ProfilesAreBacked,
         ReviewsCiteLiveEvidence, Cites, NoRow

(* The claim rows after an operation that inserts a claim: correct, which  *)
(* supersedes another, or remember.                                        *)
LEMMA InsertedRows ==
    ASSUME RowsOK, NEW s \in Source, NEW v \in ValidTime, NEW t \in RecordTime,
           \/ \E input \in ClaimInput : RememberClaim(s, v, t, input)
           \/ \E old \in Source : Correct(old, s, v, t)
    PROVE  /\ claim'[s].status # "none" /\ supports'[s] = {s}
           /\ \A c \in Source \ {s} :
                 /\ claim'[c].status # "none" <=> claim[c].status # "none"
                 /\ claim[c].status = "none" => claim'[c] = claim[c]
                 /\ supports'[c] = supports[c]
           /\ contradicts' = contradicts
           /\ source'[s] = "live" /\ \A x \in Source \ {s} : source'[x] = source[x]
<1>0. TypeOK /\ AbsentIdsAreUnused
  BY DEF RowsOK
<1>1. ASSUME NEW input \in ClaimInput, RememberClaim(s, v, t, input)
      PROVE  /\ claim'[s].status = "accepted"
             /\ \A c \in Source \ {s} : claim'[c] = claim[c]
             /\ supports' = [supports EXCEPT ![s] = {s}] /\ contradicts' = contradicts
             /\ source' = [source EXCEPT ![s] = "live"]
  BY <1>0, <1>1 DEF RememberClaim, InsertSource, NewClaim, TypeOK
<1>2. ASSUME NEW old \in Source, Correct(old, s, v, t)
      PROVE  /\ claim'[s].status = "accepted"
             /\ old # s /\ claim[old].status = "accepted" /\ claim'[old].status = "superseded"
             /\ \A c \in Source \ {s, old} : claim'[c] = claim[c]
             /\ supports' = [supports EXCEPT ![s] = {s}] /\ contradicts' = contradicts
             /\ source' = [source EXCEPT ![s] = "live"]
  <2>1. old # s /\ claim[old].status = "accepted"
    BY <1>0, <1>2 DEF Correct, Correctable, Accepted, InsertSource, AbsentIdsAreUnused
  <2>2. /\ claim'[s].status = "accepted" /\ claim'[old].status = "superseded"
        /\ \A c \in Source \ {s, old} : claim'[c] = claim[c]
    BY <1>0, <1>2, <2>1, CorrectRows
  <2>3. QED
    BY <1>2, <2>1, <2>2 DEF Correct, InsertSource
<1>3. QED
  BY <1>0, <1>1, <1>2 DEF TypeOK

(* The statuses after an operation that inserts nothing.                   *)
LEMMA KeptRows ==
    ASSUME RowsOK,
           \/ \E s \in Source, t \in RecordTime :
                DeleteSource(s, t) \/ Promote(s, t) \/ Archive(s, t) \/ StoreProfile(s, t)
           \/ \E c, e \in Source : LinkSupport(c, e) \/ LinkContradiction(c, e)
           \/ \E r \in Review, cited \in SUBSET Source : StoreReview(r, cited)
           \/ UNCHANGED vars
    PROVE  /\ \A c \in Source :
                 /\ claim'[c].status # "none" <=> claim[c].status # "none"
                 /\ claim[c].status = "none" => claim'[c] = claim[c]
           /\ \A s \in Source : source'[s] = "absent" <=> source[s] = "absent"
           /\ UNCHANGED <<validFrom, recordedAt, corrects>>
<1>0. TypeOK
  BY DEF RowsOK
<1>1. ASSUME NEW s \in Source, NEW t \in RecordTime, DeleteSource(s, t)
      PROVE  /\ \A c \in Source :
                   /\ claim'[c].status # "none" <=> claim[c].status # "none"
                   /\ claim[c].status = "none" => claim'[c] = claim[c]
             /\ \A x \in Source : source'[x] = "absent" <=> source[x] = "absent"
  BY <1>0, <1>1, DeleteRows DEF DeleteSource, TypeOK
<1>2. ASSUME NEW s \in Source, NEW t \in RecordTime, Promote(s, t) \/ Archive(s, t)
      PROVE  /\ \A c \in Source :
                   /\ claim'[c].status # "none" <=> claim[c].status # "none"
                   /\ claim[c].status = "none" => claim'[c] = claim[c]
             /\ source' = source
  <2>1. claim[s].status # "none"
    BY <1>2 DEF Promote, Promotable, Archive
  <2>2. \A c \in Source : claim'[c].status = claim[c].status
    BY <1>0, <1>2, TierSet, TierRows
  <2>3. \A c \in Source \ {s} : claim'[c] = claim[c]
    BY <1>0, <1>2 DEF Promote, Archive, TypeOK
  <2>4. QED
    BY <1>2, <2>1, <2>2, <2>3 DEF Promote, Archive
<1>3. QED
  BY <1>1, <1>2
     DEF DeleteSource, Promote, Archive, StoreProfile, LinkSupport, LinkContradiction,
         StoreReview, vars

(* Every operation leaves such rows.                                       *)
LEMMA RowsStep == RowsOK /\ [Next]_vars => RowsOK'
<1> SUFFICES ASSUME RowsOK, [Next]_vars PROVE AbsentIdsAreUnused' /\ UnusedRowsAreBlank'
  BY TypeStep, ProfilesStep, ReviewsStep DEF RowsOK
<1>0. TypeOK /\ AbsentIdsAreUnused /\ UnusedRowsAreBlank
  BY DEF RowsOK
<1>1. ASSUME NEW s \in Source, NEW v \in ValidTime, NEW t \in RecordTime, Remember(s, v, t)
      PROVE  AbsentIdsAreUnused' /\ UnusedRowsAreBlank'
  <2>1. AbsentIdsAreUnused'
    BY <1>0, <1>1 DEF Remember, InsertSource, TypeOK, AbsentIdsAreUnused, Cites
  <2>2. UnusedRowsAreBlank'
    BY <1>0, <1>1 DEF Remember, InsertSource, TypeOK, UnusedRowsAreBlank
  <2>3. QED
    BY <2>1, <2>2
<1>2. ASSUME NEW s \in Source, NEW v \in ValidTime, NEW t \in RecordTime,
             \/ \E input \in ClaimInput : RememberClaim(s, v, t, input)
             \/ \E old \in Source : Correct(old, s, v, t)
      PROVE  AbsentIdsAreUnused' /\ UnusedRowsAreBlank'
  <2>1. /\ validFrom' = [validFrom EXCEPT ![s] = v] /\ recordedAt' = [recordedAt EXCEPT ![s] = t]
        /\ \A x \in Source \ {s} : corrects'[x] = corrects[x]
        /\ \/ UNCHANGED <<profile, profileAt>>
           \/ \E old \in Source : DropProfilesOf({old})
    <3>1. ASSUME NEW input \in ClaimInput, RememberClaim(s, v, t, input)
          PROVE  /\ validFrom' = [validFrom EXCEPT ![s] = v]
                 /\ recordedAt' = [recordedAt EXCEPT ![s] = t]
                 /\ corrects' = corrects /\ UNCHANGED <<profile, profileAt>>
      BY <3>1 DEF RememberClaim, InsertSource
    <3>2. ASSUME NEW old \in Source, Correct(old, s, v, t)
          PROVE  /\ validFrom' = [validFrom EXCEPT ![s] = v]
                 /\ recordedAt' = [recordedAt EXCEPT ![s] = t]
                 /\ corrects' = [corrects EXCEPT ![s] = old] /\ DropProfilesOf({old})
      BY <3>2 DEF Correct, InsertSource
    <3>3. QED
      BY <1>0, <1>2, <3>1, <3>2 DEF TypeOK
  <2>2. AbsentIdsAreUnused'
    BY <1>0, <1>2, <2>1, InsertedRows DEF AbsentIdsAreUnused, Cites
  <2>3. \A k \in Key : profile'[k] = NoClaim => profileAt'[k] = Open
    BY <1>0, <2>1 DEF UnusedRowsAreBlank, DropProfilesOf
  <2>4. UnusedRowsAreBlank'
    BY <1>0, <1>2, <2>1, <2>3, InsertedRows DEF UnusedRowsAreBlank, TypeOK
  <2>5. QED
    BY <2>2, <2>4
<1>3. ASSUME \/ \E s \in Source, t \in RecordTime :
                  DeleteSource(s, t) \/ Promote(s, t) \/ Archive(s, t) \/ StoreProfile(s, t)
             \/ \E c, e \in Source : LinkSupport(c, e) \/ LinkContradiction(c, e)
             \/ \E r \in Review, cited \in SUBSET Source : StoreReview(r, cited)
             \/ UNCHANGED vars
      PROVE  AbsentIdsAreUnused' /\ UnusedRowsAreBlank'
  <2>1. /\ \A c \in Source :
              /\ claim'[c].status # "none" <=> claim[c].status # "none"
              /\ claim[c].status = "none" => claim'[c] = claim[c]
        /\ \A s \in Source : source'[s] = "absent" <=> source[s] = "absent"
        /\ UNCHANGED <<validFrom, recordedAt, corrects>>
    BY <1>3, KeptRows
  <2>2. \A c \in Source :
           \/ supports'[c] = supports[c] /\ contradicts'[c] = contradicts[c]
           \/ /\ claim[c].status = "accepted" /\ source[c] # "absent"
              /\ \E e \in Live : supports'[c] \cup contradicts'[c]
                                    = supports[c] \cup contradicts[c] \cup {e}
    <3>1. ASSUME NEW c \in Source, NEW e \in Source, LinkSupport(c, e) \/ LinkContradiction(c, e)
          PROVE  /\ claim[c].status = "accepted" /\ source[c] # "absent" /\ e \in Live
                 /\ supports'[c] \cup contradicts'[c] = supports[c] \cup contradicts[c] \cup {e}
                 /\ \A d \in Source \ {c} :
                       supports'[d] = supports[d] /\ contradicts'[d] = contradicts[d]
      BY <1>0, <3>1 DEF LinkSupport, LinkContradiction, Linkable, Accepted, TypeOK,
         AbsentIdsAreUnused
    <3>2. CASE \E c, e \in Source : LinkSupport(c, e) \/ LinkContradiction(c, e)
      BY <3>1, <3>2
    <3>3. CASE UNCHANGED <<supports, contradicts>>
      BY <3>3
    <3>4. QED
      BY <1>3, <3>2, <3>3
         DEF DeleteSource, Promote, Archive, StoreProfile, StoreReview, vars
  <2>3. AbsentIdsAreUnused'
    <3>1. SUFFICES ASSUME NEW s \in Source, source[s] = "absent"
                   PROVE  /\ claim'[s].status = "none" /\ corrects'[s] = NoClaim
                          /\ supports'[s] \cup contradicts'[s] = {}
                          /\ \A c \in Source : s \notin supports'[c] \cup contradicts'[c]
      BY <2>1 DEF AbsentIdsAreUnused, Cites
    <3>2. s \notin Live
      BY <3>1 DEF Live
    <3>3. /\ claim[s].status = "none" /\ corrects[s] = NoClaim
          /\ supports[s] \cup contradicts[s] = {}
          /\ \A c \in Source : s \notin supports[c] \cup contradicts[c]
      BY <1>0, <3>1 DEF AbsentIdsAreUnused, Cites
    <3>4. QED
      BY <2>1, <2>2, <3>1, <3>2, <3>3
  <2>4. \A k \in Key : profile'[k] = NoClaim => profileAt'[k] = Open
    <3>1. ASSUME NEW c \in Source, NEW t \in RecordTime, StoreProfile(c, t)
          PROVE  \A k \in Key : profile'[k] = NoClaim => profileAt'[k] = Open
      BY <1>0, <3>1, SentinelAssumption DEF StoreProfile, UnusedRowsAreBlank, TypeOK
    <3>2. ASSUME NEW gone, DropProfilesOf(gone)
          PROVE  \A k \in Key : profile'[k] = NoClaim => profileAt'[k] = Open
      BY <1>0, <3>2 DEF DropProfilesOf, UnusedRowsAreBlank
    <3>3. CASE UNCHANGED <<profile, profileAt>>
      BY <1>0, <3>3 DEF UnusedRowsAreBlank
    <3>4. QED
      BY <1>3, <3>1, <3>2, <3>3
         DEF DeleteSource, Promote, Archive, LinkSupport, LinkContradiction, StoreReview, vars
  <2>5. UnusedRowsAreBlank'
    <3>1. \A c \in Source : claim'[c].status = "none" =>
             claim'[c] = NoRow /\ supports'[c] = {} /\ contradicts'[c] = {}
      BY <1>0, <2>1, <2>2 DEF UnusedRowsAreBlank
    <3>2. QED
      BY <1>0, <2>1, <2>4, <3>1 DEF UnusedRowsAreBlank
  <2>6. QED
    BY <2>3, <2>5
<1>4. QED
  BY <1>1, <1>2, <1>3 DEF Next

--------------------------------------------------------------------------------
(* The tables of any store.                                                *)
Tables ==
    [source : [Source -> {"absent", "live", "deleted"}],
     validFrom : [Source -> ValidTime \cup {Open}],
     recordedAt : [Source -> RecordTime \cup {Open}],
     claim : [Source -> ClaimRow],
     supports : [Source -> SUBSET Source],
     contradicts : [Source -> SUBSET Source],
     corrects : [Source -> Source \cup {NoClaim}],
     profile : [Key -> Source \cup {NoClaim}],
     profileAt : [Key -> RecordTime \cup {Open}],
     entry : [Key -> Nat],
     review : [Review -> SUBSET Source]]

(* The tables U have what the commit says, and what they had as T where it *)
(* says nothing.                                                           *)
SourcesFollow(T, new, U) ==
    /\ \A r \in new.sources : r.state = U.source[r.id] /\ r.capturedAt = U.validFrom[r.id]
                               /\ r.recordedAt = U.recordedAt[r.id]
    /\ \A s \in new.deletedSources : U.source[s] = "deleted"
    /\ \A s \in Source : s \notin Ids(new.sources) =>
          /\ s \notin new.deletedSources => U.source[s] = T.source[s]
          /\ U.validFrom[s] = T.validFrom[s] /\ U.recordedAt[s] = T.recordedAt[s]

ClaimsFollow(T, new, U) ==
    /\ \A r \in new.claims : r.row = U.claim[r.id]
    /\ \A c \in Source : c \notin Ids(new.claims) => U.claim[c] = T.claim[c]
    /\ \A x \in new.corrections : x.old = U.corrects[x.claim]
    /\ \A c \in Source : (\A x \in new.corrections : x.claim # c) => U.corrects[c] = T.corrects[c]

LinksFollow(T, new, U) ==
    \A c \in Source :
        /\ U.supports[c] = T.supports[c] \cup LinksOf(new, c, "supports")
        /\ U.contradicts[c] = T.contradicts[c] \cup LinksOf(new, c, "contradicts")

ProfilesFollow(T, new, U) ==
    /\ \A p \in new.profiles :
          /\ p.id = U.entry[p.key] /\ p.claim = U.profile[p.key] /\ p.at = U.profileAt[p.key]
          /\ p.id \notin new.deletedEntries
    /\ \A k \in Key : (\A p \in new.profiles : p.key # k) =>
          IF T.entry[k] \in new.deletedEntries
          THEN U.entry[k] = 0 /\ U.profile[k] = NoClaim /\ U.profileAt[k] = Open
          ELSE /\ U.entry[k] = T.entry[k] /\ U.profile[k] = T.profile[k]
               /\ U.profileAt[k] = T.profileAt[k]

ReviewsFollow(T, new, U) ==
    /\ \A r \in new.reviews : r.cited = U.review[r.id] /\ r.id \notin new.deletedReviews
    /\ \A r \in new.deletedReviews : U.review[r] = {}
    /\ \A r \in Review : r \notin Ids(new.reviews) /\ r \notin new.deletedReviews =>
          U.review[r] = T.review[r]

Follows(T, new, U) ==
    /\ SourcesFollow(T, new, U)
    /\ ClaimsFollow(T, new, U)
    /\ LinksFollow(T, new, U)
    /\ ProfilesFollow(T, new, U)
    /\ ReviewsFollow(T, new, U)

(* Then they are what apply makes of T and the commit.                     *)
LEMMA FollowsMaterializes ==
    ASSUME NEW T, NEW U \in Tables, NEW new, Follows(T, new, U)
    PROVE  U = Materialized(T, new)
<1>1. \A s \in Source : /\ U.source[s] = SourceAfter(T, new, s)
                        /\ U.validFrom[s] = IF s \in Ids(new.sources)
                                            THEN Only(new.sources, s).capturedAt
                                            ELSE T.validFrom[s]
                        /\ U.recordedAt[s] = IF s \in Ids(new.sources)
                                             THEN Only(new.sources, s).recordedAt
                                             ELSE T.recordedAt[s]
  <2>1. \A s \in Ids(new.sources) : Only(new.sources, s) \in new.sources
                                    /\ Only(new.sources, s).id = s
    BY Zenon DEF Ids, Only
  <2>2. QED
    BY <2>1 DEF Follows, SourcesFollow, SourceAfter
<1>2. \A c \in Source : /\ U.claim[c] = ClaimAfter(T, new, c)
                        /\ U.corrects[c] = CorrectsAfter(T, new, c)
  <2>1. \A c \in Ids(new.claims) : Only(new.claims, c) \in new.claims
                                   /\ Only(new.claims, c).id = c
    BY Zenon DEF Ids, Only
  <2>2. QED
    BY <2>1 DEF Follows, ClaimsFollow, ClaimAfter, CorrectsAfter
<1>3. \A k \in Key : /\ U.profile[k] = ProfileAfter(T, new, k).claim
                     /\ U.profileAt[k] = ProfileAfter(T, new, k).at
                     /\ U.entry[k] = ProfileAfter(T, new, k).id
  BY DEF Follows, ProfilesFollow, ProfileAfter
<1>4. \A r \in Review : U.review[r] = ReviewAfter(T, new, r)
  <2>1. \A r \in Ids(new.reviews) : Only(new.reviews, r) \in new.reviews
                                    /\ Only(new.reviews, r).id = r
    BY Zenon DEF Ids, Only
  <2>2. QED
    BY <2>1 DEF Follows, ReviewsFollow, ReviewAfter
<1>5. /\ U.source = [s \in Source |-> SourceAfter(T, new, s)]
      /\ U.validFrom = [s \in Source |-> IF s \in Ids(new.sources)
                                         THEN Only(new.sources, s).capturedAt
                                         ELSE T.validFrom[s]]
      /\ U.recordedAt = [s \in Source |-> IF s \in Ids(new.sources)
                                          THEN Only(new.sources, s).recordedAt
                                          ELSE T.recordedAt[s]]
  BY <1>1 DEF Tables
<1>6. /\ U.claim = [c \in Source |-> ClaimAfter(T, new, c)]
      /\ U.supports = [c \in Source |-> T.supports[c] \cup LinksOf(new, c, "supports")]
      /\ U.contradicts = [c \in Source |-> T.contradicts[c] \cup LinksOf(new, c, "contradicts")]
      /\ U.corrects = [c \in Source |-> CorrectsAfter(T, new, c)]
  BY <1>2 DEF Tables, Follows, LinksFollow
<1>7. /\ U.profile = [k \in Key |-> ProfileAfter(T, new, k).claim]
      /\ U.profileAt = [k \in Key |-> ProfileAfter(T, new, k).at]
      /\ U.entry = [k \in Key |-> ProfileAfter(T, new, k).id]
      /\ U.review = [r \in Review |-> ReviewAfter(T, new, r)]
  BY <1>3, <1>4 DEF Tables
<1>8. U = [source |-> U.source, validFrom |-> U.validFrom, recordedAt |-> U.recordedAt,
           claim |-> U.claim, supports |-> U.supports, contradicts |-> U.contradicts,
           corrects |-> U.corrects, profile |-> U.profile, profileAt |-> U.profileAt,
           entry |-> U.entry, review |-> U.review]
  BY DEF Tables
<1>9. QED
  BY <1>5, <1>6, <1>7, <1>8, Zenon DEF Materialized

--------------------------------------------------------------------------------
(* A claim row only ever moves up: towards the archive, and out of force.  *)
Rank(row) == TierRank[row.tier] + (IF row.status = "accepted" THEN 0 ELSE 3)

(* An entry id that was minted, here or by an older release.               *)
Minted(id) == id # 0 /\ (id <= Len(feed) \/ id > MaxCommits)

(* The ids of the profile entries.                                         *)
EntriesOK ==
    /\ entry \in [Key -> Nat]
    /\ \A k \in Key : entry[k] = 0 <=> profile[k] = NoClaim
    /\ \A k \in Key : entry[k] # 0 => Minted(entry[k])
    /\ \A k, l \in Key : entry[k] = entry[l] /\ entry[k] # 0 => k = l

(* The records of commit c are of the past: the rows they have are there,  *)
(* as they were or further on, and what they delete is gone for good.      *)
PastSources(c) ==
    /\ \A r \in c.sources : /\ source[r.id] # "absent"
                            /\ r.state = "deleted" => source[r.id] = "deleted"
    /\ \A s \in c.deletedSources : source[s] = "deleted"

PastClaims(c) ==
    /\ \A r \in c.claims : claim[r.id].status # "none" /\ Rank(r.row) <= Rank(claim[r.id])
    /\ \A x \in c.corrections : source[x.claim] # "absent"

PastLinks(c) == \A l \in c.links : Cites(l.claim, l.evidence)

PastProfiles(c) ==
    /\ \A p \in c.profiles : Minted(p.id) /\ \A k \in Key : entry[k] = p.id => p.at <= profileAt[k]
    /\ \A d \in c.deletedEntries : Minted(d) /\ \A k \in Key : entry[k] # d

PastReviews(c) == \A r \in c.deletedReviews : review[r] = {} /\ ~FreshReview(r)

Past(c) ==
    /\ PastSources(c)
    /\ PastClaims(c)
    /\ PastLinks(c)
    /\ PastProfiles(c)
    /\ PastReviews(c)

(* A step writes the rows of commit new, and no others; it takes each of   *)
(* them forward.                                                           *)
WritesSources(new) ==
    /\ \A r \in new.sources :
          /\ r = SourceRecord(r.id)
          /\ \/ source[r.id] = "absent" /\ source'[r.id] = "live"
             \/ source[r.id] = "live" /\ source'[r.id] = "deleted"
    /\ \A s \in Source : s \notin Ids(new.sources) =>
          source'[s] = source[s] /\ validFrom'[s] = validFrom[s] /\ recordedAt'[s] = recordedAt[s]
    /\ \A s \in new.deletedSources : s \in Ids(new.sources) /\ source'[s] = "deleted"

WritesRows(new) ==
    /\ \A r \in new.claims :
          /\ r = ClaimRecord(r.id) /\ claim'[r.id].status # "none"
          /\ claim[r.id].status = "none" \/ Rank(claim[r.id]) < Rank(claim'[r.id])
    /\ \A c \in Source : c \notin Ids(new.claims) => claim'[c] = claim[c]

WritesClaims(new) ==
    /\ WritesRows(new)
    /\ \A x \in new.corrections :
          /\ x.old = corrects'[x.claim]
          /\ source[x.claim] = "absent" /\ source'[x.claim] # "absent"
          /\ claim'[x.claim].status # "none" /\ claim'[x.old].status # "none"
    /\ \A c \in Source : (\A x \in new.corrections : x.claim # c) => corrects'[c] = corrects[c]

WritesLinks(new) ==
    /\ \A l \in new.links :
          /\ ~Cites(l.claim, l.evidence)
          /\ claim'[l.claim].status # "none" /\ source'[l.evidence] # "absent"
    /\ \A c \in Source :
          /\ supports'[c] = supports[c] \cup LinksOf(new, c, "supports")
          /\ contradicts'[c] = contradicts[c] \cup LinksOf(new, c, "contradicts")

WritesProfiles(new) ==
    /\ \A p \in new.profiles :
          /\ p = [id |-> entry'[p.key], key |-> p.key, claim |-> profile'[p.key],
                  at |-> profileAt'[p.key]]
          /\ p.id \notin new.deletedEntries
          /\ profile'[p.key] # NoClaim /\ claim'[profile'[p.key]].status # "none"
          /\ \/ entry[p.key] = 0 /\ entry'[p.key] = Len(feed) + 1
             \/ /\ entry[p.key] # 0 /\ entry'[p.key] = entry[p.key]
                /\ profileAt[p.key] < profileAt'[p.key]
    /\ \A p, q \in new.profiles : p.key = q.key
    /\ \A d \in new.deletedEntries : d # 0 /\ \E k \in Key : entry[k] = d
    /\ \A k \in Key : (\A p \in new.profiles : p.key # k) =>
          IF entry[k] \in new.deletedEntries
          THEN entry'[k] = 0 /\ profile'[k] = NoClaim /\ profileAt'[k] = Open
          ELSE entry'[k] = entry[k] /\ profile'[k] = profile[k] /\ profileAt'[k] = profileAt[k]

WritesReviews(new) ==
    /\ \A r \in new.reviews :
          /\ review[r.id] = {} /\ FreshReview(r.id) /\ review'[r.id] = r.cited
          /\ r.id \notin new.deletedReviews
          /\ r.cited # {} /\ \A e \in r.cited : source'[e] # "absent"
    /\ \A r \in new.deletedReviews : review[r] # {} /\ review'[r] = {}
    /\ \A r \in Review : r \notin Ids(new.reviews) /\ r \notin new.deletedReviews =>
          review'[r] = review[r]

Writes(new) ==
    /\ new \in Commit /\ new # NoRecords
    /\ WritesSources(new)
    /\ WritesClaims(new)
    /\ WritesLinks(new)
    /\ WritesProfiles(new)
    /\ WritesReviews(new)
    /\ Len(feed) < MaxCommits
    /\ feed' = Append(feed, new)

(* What the fields of the tables are.                                      *)
LEMMA HereFields ==
    /\ Here.source = source /\ Here.validFrom = validFrom /\ Here.recordedAt = recordedAt
    /\ Here.claim = claim /\ Here.supports = supports /\ Here.contradicts = contradicts
    /\ Here.corrects = corrects /\ Here.profile = profile /\ Here.profileAt = profileAt
    /\ Here.entry = entry /\ Here.review = review
  BY DEF Here

(* The same, after a step.                                                 *)
LEMMA HereNextFields ==
    /\ Here'.source = source' /\ Here'.validFrom = validFrom' /\ Here'.recordedAt = recordedAt'
    /\ Here'.claim = claim' /\ Here'.supports = supports' /\ Here'.contradicts = contradicts'
    /\ Here'.corrects = corrects' /\ Here'.profile = profile' /\ Here'.profileAt = profileAt'
    /\ Here'.entry = entry' /\ Here'.review = review'
  BY DEF Here

(* Source records are as the tables have them, were in no commit before,   *)
(* and put no earlier record into the future.                              *)
LEMMA SourcesWritten ==
    ASSUME TypeOK, TypeOK', NEW new \in Commit, WritesSources(new)
    PROVE  /\ SourcesFollow(Here, new, Here')
           /\ PastSources(new)'
           /\ \A s \in Source : source[s] # "absent" => source'[s] # "absent"
           /\ \A r \in new.sources : ~(source[r.id] = "deleted" /\ r.state = "live")
           /\ \A s \in Source : source'[s] # "absent" => source[s] # "absent" \/ s \in Ids(new.sources)
           /\ \A c \in Commit : PastSources(c) =>
                 /\ PastSources(c)'
                 /\ c.sources \cap new.sources = {}
                 /\ c.deletedSources \cap new.deletedSources = {}
<1>1. ASSUME NEW r \in new.sources
      PROVE  /\ r.id \in Source /\ r.state = source'[r.id] /\ r.capturedAt = validFrom'[r.id]
             /\ r.recordedAt = recordedAt'[r.id]
             /\ \/ source[r.id] = "absent" /\ source'[r.id] = "live"
                \/ source[r.id] = "live" /\ source'[r.id] = "deleted"
  BY DEF Commit, WritesSources, SourceRecord
<1>2. ASSUME NEW s \in Source
      PROVE  \/ source'[s] = source[s] /\ s \notin new.deletedSources
             \/ source[s] = "absent" /\ source'[s] = "live"
             \/ source[s] = "live" /\ source'[s] = "deleted"
  BY <1>1 DEF WritesSources, Ids
<1>3. SourcesFollow(Here, new, Here')
  BY <1>1, HereFields, HereNextFields DEF SourcesFollow, WritesSources
<1>4. PastSources(new)'
  BY <1>1 DEF PastSources, WritesSources
<1>5. ASSUME NEW c \in Commit, PastSources(c)
      PROVE  PastSources(c)'
  <2>1. /\ \A r \in c.sources : r.id \in Source /\ source[r.id] # "absent"
        /\ \A r \in c.sources : r.state = "deleted" => source[r.id] = "deleted"
        /\ \A s \in c.deletedSources : s \in Source /\ source[s] = "deleted"
    BY <1>5 DEF PastSources, Commit
  <2>2. \A s \in Source : /\ source[s] # "absent" => source'[s] # "absent"
                          /\ source[s] = "deleted" => source'[s] = "deleted"
    BY <1>2
  <2>3. QED
    BY <2>1, <2>2, Zenon DEF PastSources
<1>6. ASSUME NEW c \in Commit, PastSources(c), NEW r \in new.sources
      PROVE  r \notin c.sources
  <2>1. source[r.id] = "absent" \/ (source[r.id] = "live" /\ r.state = "deleted")
    BY <1>1
  <2>2. r \in c.sources => source[r.id] # "absent" /\ (r.state = "deleted" => source[r.id] = "deleted")
    BY <1>6, Zenon DEF PastSources
  <2>3. QED
    BY <2>1, <2>2
<1>7. ASSUME NEW c \in Commit, PastSources(c), NEW s \in new.deletedSources
      PROVE  s \notin c.deletedSources
  <2>1. source[s] # "deleted"
    BY <1>1 DEF WritesSources, Ids
  <2>2. QED
    BY <1>7, <2>1, Zenon DEF PastSources
<1>8. QED
  BY <1>1, <1>2, <1>3, <1>4, <1>5, <1>6, <1>7 DEF WritesSources

(* Ranks are numbers.                                                      *)
LEMMA RankIsNatural == \A row \in ClaimRow : Rank(row) \in Nat
  BY DEF ClaimRow, Rank, TierRank, Tier

(* So are claim records and corrections.                                   *)
LEMMA ClaimsWritten ==
    ASSUME TypeOK, TypeOK', NEW new \in Commit, WritesClaims(new),
           \A s \in Source : source[s] # "absent" => source'[s] # "absent"
    PROVE  /\ ClaimsFollow(Here, new, Here')
           /\ PastClaims(new)'
           /\ \A c \in Source : claim[c].status # "none" => claim'[c].status # "none"
           /\ \A c \in Source : claim'[c].status # "none" =>
                 claim[c].status # "none" \/ c \in Ids(new.claims)
           /\ \A c \in Commit : PastClaims(c) =>
                 /\ PastClaims(c)'
                 /\ c.claims \cap new.claims = {}
                 /\ c.corrections \cap new.corrections = {}
<1>1. ASSUME NEW r \in new.claims
      PROVE  /\ r.id \in Source /\ r.row = claim'[r.id] /\ claim'[r.id].status # "none"
             /\ claim[r.id].status = "none" \/ Rank(claim[r.id]) < Rank(claim'[r.id])
  BY DEF Commit, WritesClaims, WritesRows, ClaimRecord
<1>2. \A c \in Source : Rank(claim[c]) \in Nat /\ Rank(claim'[c]) \in Nat
  <2>1. \A c \in Source : claim[c] \in ClaimRow /\ claim'[c] \in ClaimRow
    BY DEF TypeOK
  <2>2. QED
    BY <2>1, RankIsNatural
<1>3. ASSUME NEW c \in Source, claim[c].status # "none"
      PROVE  claim'[c].status # "none" /\ Rank(claim[c]) <= Rank(claim'[c])
  <2>1. CASE c \in Ids(new.claims)
    BY <1>1, <1>2, <1>3, <2>1 DEF Ids
  <2>2. CASE c \notin Ids(new.claims)
    BY <1>2, <1>3, <2>2 DEF WritesClaims, WritesRows
  <2>3. QED
    BY <2>1, <2>2
<1>4. ClaimsFollow(Here, new, Here')
  BY <1>1, HereFields, HereNextFields DEF ClaimsFollow, WritesClaims, WritesRows
<1>5. PastClaims(new)'
  BY <1>1, <1>2 DEF PastClaims, WritesClaims, WritesRows
<1>6. ASSUME NEW c \in Commit, PastClaims(c)
      PROVE  PastClaims(c)'
  <2>1. /\ \A r \in c.claims : r.id \in Source /\ r.row \in ClaimRow /\ claim[r.id].status # "none"
        /\ \A r \in c.claims : Rank(r.row) <= Rank(claim[r.id])
        /\ \A x \in c.corrections : x.claim \in Source /\ source[x.claim] # "absent"
    BY <1>6 DEF PastClaims, Commit
  <2>2. \A r \in c.claims : claim'[r.id].status # "none" /\ Rank(r.row) <= Rank(claim'[r.id])
    <3>1. SUFFICES ASSUME NEW r \in c.claims
                   PROVE  claim'[r.id].status # "none" /\ Rank(r.row) <= Rank(claim'[r.id])
      OBVIOUS
    <3>2. Rank(r.row) \in Nat
      BY <2>1, RankIsNatural
    <3>3. QED
      BY <1>2, <1>3, <2>1, <3>2
  <2>3. QED
    BY <2>1, <2>2 DEF PastClaims
<1>7. ASSUME NEW c \in Commit, PastClaims(c), NEW r \in new.claims
      PROVE  r \notin c.claims
  <2>1. r \in c.claims => claim[r.id].status # "none" /\ Rank(claim'[r.id]) <= Rank(claim[r.id])
    BY <1>1, <1>7 DEF PastClaims
  <2>2. QED
    BY <1>1, <1>2, <2>1
<1>8. ASSUME NEW c \in Commit, PastClaims(c), NEW x \in new.corrections
      PROVE  x \notin c.corrections
  BY <1>8 DEF PastClaims, WritesClaims, WritesRows
<1>9. \A c \in Source : claim'[c].status # "none" =>
         claim[c].status # "none" \/ c \in Ids(new.claims)
  BY DEF WritesClaims, WritesRows
<1>10. QED
  BY <1>3, <1>4, <1>5, <1>6, <1>7, <1>8, <1>9

(* So are link records.                                                    *)
LEMMA LinksWritten ==
    ASSUME TypeOK, TypeOK', NEW new \in Commit, WritesLinks(new)
    PROVE  /\ LinksFollow(Here, new, Here')
           /\ PastLinks(new)'
           /\ \A c \in Commit : PastLinks(c) => PastLinks(c)' /\ c.links \cap new.links = {}
<1>1. LinksFollow(Here, new, Here')
  BY HereFields, HereNextFields DEF LinksFollow, WritesLinks
<1>2. PastLinks(new)'
  <2>1. SUFFICES ASSUME NEW l \in new.links
                 PROVE  l.evidence \in supports'[l.claim] \cup contradicts'[l.claim]
    BY DEF PastLinks, Cites
  <2>2. l.claim \in Source /\ l.relation \in {"supports", "contradicts"}
    BY DEF Commit
  <2>3. l.evidence \in LinksOf(new, l.claim, l.relation)
    BY DEF LinksOf
  <2>4. QED
    BY <2>2, <2>3 DEF WritesLinks
<1>3. ASSUME NEW c \in Commit, PastLinks(c)
      PROVE  PastLinks(c)'
  <2>1. \A l \in c.links : l.claim \in Source
    BY DEF Commit
  <2>2. QED
    BY <1>3, <2>1 DEF PastLinks, Cites, WritesLinks
<1>4. ASSUME NEW c \in Commit, PastLinks(c)
      PROVE  c.links \cap new.links = {}
  BY <1>4 DEF PastLinks, WritesLinks
<1>5. QED
  BY <1>1, <1>2, <1>3, <1>4

(* So are profile records and the deletions of entries, and the entry ids  *)
(* stay sound.                                                             *)
LEMMA ProfilesWritten ==
    ASSUME TypeOK, TypeOK', NEW new \in Commit, WritesProfiles(new), EntriesOK,
           entry' \in [Key -> Nat], Len(feed) \in Nat, Len(feed) < MaxCommits,
           Len(feed') = Len(feed) + 1
    PROVE  /\ ProfilesFollow(Here, new, Here')
           /\ EntriesOK'
           /\ PastProfiles(new)'
           /\ \A c \in Commit : PastProfiles(c) =>
                 /\ PastProfiles(c)'
                 /\ c.profiles \cap new.profiles = {}
                 /\ c.deletedEntries \cap new.deletedEntries = {}
<1> DEFINE Named(k) == \E p \in new.profiles : p.key = k
<1>1. ASSUME NEW p \in new.profiles
      PROVE  /\ p.key \in Key /\ p.id = entry'[p.key] /\ p.claim = profile'[p.key]
             /\ p.at = profileAt'[p.key]
  BY DEF Commit, WritesProfiles
<1>2. MaxCommits \in Nat /\ Open \in Nat /\ RecordTime \subseteq Nat
  BY FeedAssumption, TimeAssumption
<1>3. \A k \in Key : /\ entry[k] \in Nat /\ entry'[k] \in Nat
                     /\ profileAt[k] \in Nat /\ profileAt'[k] \in Nat
  BY <1>2 DEF TypeOK, EntriesOK
<1>4. \A id \in Nat : Minted(id) => Minted(id)' /\ id # Len(feed) + 1
  BY <1>2 DEF Minted
<1>5. \A id \in Nat : id = Len(feed) + 1 => Minted(id)'
  BY DEF Minted
<1>6. ASSUME NEW k \in Key
      PROVE  \/ /\ Named(k) /\ entry[k] = 0 /\ entry'[k] = Len(feed) + 1 /\ profile'[k] # NoClaim
             \/ /\ Named(k) /\ entry[k] # 0 /\ entry'[k] = entry[k] /\ profile'[k] # NoClaim
                /\ profileAt[k] < profileAt'[k]
             \/ ~Named(k) /\ entry[k] \in new.deletedEntries /\ entry'[k] = 0 /\ profile'[k] = NoClaim
             \/ ~Named(k) /\ entry[k] \notin new.deletedEntries /\ entry'[k] = entry[k]
                /\ profile'[k] = profile[k] /\ profileAt'[k] = profileAt[k]
  BY DEF WritesProfiles
<1>7. \A k, l \in Key : Named(k) /\ Named(l) => k = l
  BY DEF WritesProfiles
<1>8. EntriesOK'
  <2>1. \A k \in Key : entry'[k] = 0 <=> profile'[k] = NoClaim
    BY <1>6 DEF EntriesOK
  <2>2. \A k \in Key : entry'[k] # 0 => Minted(entry[k])'
    BY <1>3, <1>4, <1>5, <1>6 DEF EntriesOK
  <2>3. ASSUME NEW k \in Key, NEW l \in Key, entry'[k] = entry'[l], entry'[k] # 0
        PROVE  k = l
    <3>1. \A x \in Key : entry[x] # 0 => entry[x] # Len(feed) + 1
      BY <1>3, <1>4 DEF EntriesOK
    <3>2. \/ Named(k) /\ entry'[k] = Len(feed) + 1
          \/ entry'[k] = entry[k]
      BY <1>6, <2>3
    <3>3. \/ Named(l) /\ entry'[l] = Len(feed) + 1
          \/ entry'[l] = entry[l]
      BY <1>6, <2>3
    <3>4. QED
      BY <1>7, <2>3, <3>1, <3>2, <3>3 DEF EntriesOK
  <2>4. QED
    BY <2>1, <2>2, <2>3 DEF EntriesOK
<1>9. ProfilesFollow(Here, new, Here')
  BY <1>1, HereFields, HereNextFields DEF ProfilesFollow, WritesProfiles
<1>10. PastProfiles(new)'
  <2>1. ASSUME NEW p \in new.profiles
        PROVE  Minted(p.id)' /\ \A k \in Key : entry'[k] = p.id => p.at <= profileAt'[k]
    <3>1. entry'[p.key] # 0
      BY <1>1, <1>3, <1>6
    <3>2. \A k \in Key : entry'[k] = p.id => k = p.key
      BY <1>1, <1>8, <3>1 DEF EntriesOK
    <3>3. QED
      BY <1>1, <1>3, <1>8, <3>1, <3>2 DEF EntriesOK
  <2>2. ASSUME NEW d \in new.deletedEntries
        PROVE  Minted(d)' /\ \A k \in Key : entry'[k] # d
    <3>1. d # 0 /\ \E k \in Key : entry[k] = d
      BY DEF WritesProfiles
    <3>2. d \in Nat /\ Minted(d)
      BY <1>3, <3>1 DEF EntriesOK
    <3>3. ASSUME NEW k \in Key, entry'[k] = d PROVE FALSE
      <4>1. CASE Named(k)
        BY <1>1, <3>3, <4>1 DEF WritesProfiles
      <4>2. CASE ~Named(k)
        BY <1>6, <3>1, <3>3, <4>2
      <4>3. QED
        BY <4>1, <4>2
    <3>4. QED
      BY <1>4, <3>2, <3>3
  <2>3. QED
    BY <2>1, <2>2 DEF PastProfiles
<1>11. ASSUME NEW c \in Commit, PastProfiles(c)
       PROVE  PastProfiles(c)'
  <2>1. (\A p \in c.profiles : p.id \in Nat /\ p.at \in Nat) /\ c.deletedEntries \subseteq Nat
    BY <1>2 DEF Commit
  <2>2. ASSUME NEW p \in c.profiles
        PROVE  Minted(p.id)' /\ \A k \in Key : entry'[k] = p.id => p.at <= profileAt'[k]
    <3>1. Minted(p.id) /\ \A k \in Key : entry[k] = p.id => p.at <= profileAt[k]
      BY <1>11 DEF PastProfiles
    <3>2. Minted(p.id)' /\ p.id # Len(feed) + 1 /\ p.id # 0
      BY <1>4, <2>1, <3>1 DEF Minted
    <3>3. ASSUME NEW k \in Key, entry'[k] = p.id
          PROVE  p.at <= profileAt'[k]
      <4>1. entry[k] = entry'[k] /\ profileAt[k] <= profileAt'[k]
        BY <1>3, <1>6, <3>2, <3>3
      <4>2. QED
        BY <1>3, <2>1, <3>1, <3>3, <4>1
    <3>4. QED
      BY <3>2, <3>3
  <2>3. ASSUME NEW d \in c.deletedEntries
        PROVE  Minted(d)' /\ \A k \in Key : entry'[k] # d
    <3>1. Minted(d) /\ \A k \in Key : entry[k] # d
      BY <1>11 DEF PastProfiles
    <3>2. Minted(d)' /\ d # Len(feed) + 1 /\ d # 0
      BY <1>4, <2>1, <3>1 DEF Minted
    <3>3. QED
      BY <1>6, <3>1, <3>2
  <2>4. QED
    BY <2>2, <2>3 DEF PastProfiles
<1>12. ASSUME NEW c \in Commit, PastProfiles(c), NEW p \in new.profiles
       PROVE  p \notin c.profiles
  <2>1. SUFFICES ASSUME p \in c.profiles PROVE FALSE
    OBVIOUS
  <2>2. Minted(p.id) /\ \A k \in Key : entry[k] = p.id => p.at <= profileAt[k]
    BY <1>12, <2>1 DEF PastProfiles
  <2>3. p.id \in Nat
    BY DEF Commit
  <2>4. p.id # Len(feed) + 1
    BY <1>4, <2>2, <2>3
  <2>5. entry'[p.key] = entry[p.key] /\ profileAt[p.key] < profileAt'[p.key]
    BY <1>1, <1>6, <2>4
  <2>6. QED
    BY <1>1, <1>3, <2>2, <2>5
<1>13. ASSUME NEW c \in Commit, PastProfiles(c), NEW d \in new.deletedEntries
       PROVE  d \notin c.deletedEntries
  BY <1>13 DEF PastProfiles, WritesProfiles
<1>14. QED
  BY <1>8, <1>9, <1>10, <1>11, <1>12, <1>13

(* Every review there is was published.                                    *)
ReviewsPublished == \A r \in Review : review[r] # {} => ~FreshReview(r)

(* So are review records and the deletions of reviews.                     *)
LEMMA ReviewsWritten ==
    ASSUME TypeOK, TypeOK', NEW new \in Commit, WritesReviews(new), ReviewsPublished,
           feed \in Seq(Commit), feed' = Append(feed, new)
    PROVE  /\ ReviewsFollow(Here, new, Here')
           /\ ReviewsPublished'
           /\ PastReviews(new)'
           /\ \A i \in 1..Len(feed) : feed[i].reviews \cap new.reviews = {}
           /\ \A c \in Commit : PastReviews(c) =>
                 PastReviews(c)' /\ c.deletedReviews \cap new.deletedReviews = {}
<1>1. /\ DOMAIN feed = 1..Len(feed) /\ DOMAIN feed' = 1..Len(feed) + 1
      /\ \A i \in 1..Len(feed) : i \in DOMAIN feed' /\ feed'[i] = feed[i]
      /\ Len(feed) + 1 \in DOMAIN feed' /\ feed'[Len(feed) + 1] = new
  OBVIOUS
<1>2. ASSUME NEW r \in Review, ~FreshReview(r)
      PROVE  ~FreshReview(r)'
  BY <1>1, <1>2 DEF FreshReview
<1>3. \A r \in new.reviews : ~FreshReview(r.id)'
  BY <1>1 DEF FreshReview
<1>4. \A r \in new.reviews : r.id \in Review
  BY DEF Commit
<1>5. new.deletedReviews \subseteq Review
  BY DEF Commit
<1>6. ReviewsFollow(Here, new, Here')
  BY <1>4, HereFields, HereNextFields DEF ReviewsFollow, WritesReviews
<1>7. ReviewsPublished'
  <2>1. SUFFICES ASSUME NEW r \in Review, review'[r] # {} PROVE ~FreshReview(r)'
    BY DEF ReviewsPublished
  <2>2. CASE r \in Ids(new.reviews)
    BY <1>3, <2>2 DEF Ids
  <2>3. CASE r \notin Ids(new.reviews)
    BY <1>2, <2>1, <2>3 DEF ReviewsPublished, WritesReviews
  <2>4. QED
    BY <2>2, <2>3
<1>8. PastReviews(new)'
  BY <1>2, <1>5 DEF PastReviews, WritesReviews, ReviewsPublished
<1>9. \A i \in 1..Len(feed) : feed[i].reviews \cap new.reviews = {}
  BY <1>1 DEF FreshReview, WritesReviews
<1>10. ASSUME NEW c \in Commit, PastReviews(c)
       PROVE  PastReviews(c)' /\ c.deletedReviews \cap new.deletedReviews = {}
  <2>1. \A r \in c.deletedReviews : r \in Review /\ review[r] = {} /\ ~FreshReview(r)
    BY <1>10 DEF PastReviews, Commit
  <2>2. \A r \in c.deletedReviews : r \notin Ids(new.reviews) /\ r \notin new.deletedReviews
    BY <2>1 DEF WritesReviews, Ids
  <2>3. \A r \in c.deletedReviews : review'[r] = {} /\ ~FreshReview(r)'
    BY <1>2, <2>1, <2>2 DEF WritesReviews
  <2>4. QED
    BY <2>2, <2>3 DEF PastReviews
<1>11. QED
  BY <1>6, <1>7, <1>8, <1>9, <1>10

(* The tables are those of a store.                                        *)
LEMMA HereTyped == TypeOK /\ entry \in [Key -> Nat] => Here \in Tables
  BY DEF TypeOK, Here, Tables

(* A commit a step writes materializes, on the tables before it, as the    *)
(* tables after it, and no record of it is in an earlier commit.           *)
LEMMA Written ==
    ASSUME RowsOK, RowsOK', EntriesOK, entry' \in [Key -> Nat], ReviewsPublished,
           feed \in Seq(Commit), NEW new, Writes(new)
    PROVE  /\ Follows(Here, new, Here')
           /\ Here' = Materialized(Here, new)
           /\ ~Refused(Here, new)
           /\ EntriesOK' /\ ReviewsPublished' /\ Past(new)'
           /\ \A c \in Commit : Past(c) => Past(c)'
           /\ \A i \in 1..Len(feed) : Past(feed[i]) =>
                 \A kind \in Kinds : feed[i][kind] \cap new[kind] = {}
<1>0. /\ TypeOK /\ TypeOK' /\ new \in Commit /\ Len(feed) \in Nat /\ Len(feed') = Len(feed) + 1
      /\ feed' = Append(feed, new) /\ Len(feed) < MaxCommits
      /\ WritesSources(new) /\ WritesClaims(new) /\ WritesLinks(new) /\ WritesProfiles(new)
      /\ WritesReviews(new)
  BY DEF RowsOK, Writes
<1>1. /\ SourcesFollow(Here, new, Here')
      /\ PastSources(new)'
      /\ \A s \in Source : source[s] # "absent" => source'[s] # "absent"
      /\ \A r \in new.sources : ~(source[r.id] = "deleted" /\ r.state = "live")
      /\ \A s \in Source : source'[s] # "absent" => source[s] # "absent" \/ s \in Ids(new.sources)
      /\ \A c \in Commit : PastSources(c) =>
            /\ PastSources(c)'
            /\ c.sources \cap new.sources = {}
            /\ c.deletedSources \cap new.deletedSources = {}
  BY <1>0, SourcesWritten
<1>2. /\ ClaimsFollow(Here, new, Here')
      /\ PastClaims(new)'
      /\ \A c \in Source : claim'[c].status # "none" =>
            claim[c].status # "none" \/ c \in Ids(new.claims)
      /\ \A c \in Commit : PastClaims(c) =>
            /\ PastClaims(c)'
            /\ c.claims \cap new.claims = {}
            /\ c.corrections \cap new.corrections = {}
  BY <1>0, <1>1, ClaimsWritten
<1>3. /\ LinksFollow(Here, new, Here')
      /\ PastLinks(new)'
      /\ \A c \in Commit : PastLinks(c) => PastLinks(c)' /\ c.links \cap new.links = {}
  BY <1>0, LinksWritten
<1>4. /\ ProfilesFollow(Here, new, Here')
      /\ EntriesOK'
      /\ PastProfiles(new)'
      /\ \A c \in Commit : PastProfiles(c) =>
            /\ PastProfiles(c)'
            /\ c.profiles \cap new.profiles = {}
            /\ c.deletedEntries \cap new.deletedEntries = {}
  BY <1>0, ProfilesWritten
<1>5. /\ ReviewsFollow(Here, new, Here')
      /\ ReviewsPublished'
      /\ PastReviews(new)'
      /\ \A i \in 1..Len(feed) : feed[i].reviews \cap new.reviews = {}
      /\ \A c \in Commit : PastReviews(c) =>
            PastReviews(c)' /\ c.deletedReviews \cap new.deletedReviews = {}
  BY <1>0, ReviewsWritten
<1>6. Follows(Here, new, Here')
  BY <1>1, <1>2, <1>3, <1>4, <1>5 DEF Follows
<1>7. Here' \in Tables
  BY <1>0, HereTyped DEF TypeOK, Here, Tables
<1>8. Here' = Materialized(Here, new)
  BY <1>6, <1>7, FollowsMaterializes
<1>9. ~Refused(Here, new)
  <2>1. \A c \in Source : claim'[c].status # "none" => ClaimKnown(Here, new, c)
    BY <1>2, HereFields DEF ClaimKnown
  <2>2. \A e \in Source : source'[e] # "absent" => EvidenceKnown(Here, new, e)
    BY <1>1, HereFields DEF EvidenceKnown
  <2>3. \A r \in new.sources : ~(Here.source[r.id] = "deleted" /\ r.state = "live")
    BY <1>1, HereFields
  <2>4. \A l \in new.links :
           /\ ClaimKnown(Here, new, l.claim) /\ EvidenceKnown(Here, new, l.evidence)
           /\ l.evidence \notin Here.contradicts[l.claim] /\ l.evidence \notin Here.supports[l.claim]
    BY <1>0, <2>1, <2>2, HereFields DEF WritesLinks, Cites, Commit
  <2>5. \A p \in new.profiles : ClaimKnown(Here, new, p.claim)
    <3>1. SUFFICES ASSUME NEW p \in new.profiles PROVE ClaimKnown(Here, new, p.claim)
      OBVIOUS
    <3>2. /\ p.key \in Key /\ p.claim = profile'[p.key] /\ profile'[p.key] # NoClaim
          /\ claim'[profile'[p.key]].status # "none"
      BY <1>0 DEF WritesProfiles, Commit
    <3>3. p.claim \in Source
      BY <1>0, <3>2 DEF TypeOK
    <3>4. QED
      BY <2>1, <3>2, <3>3
  <2>6. \A r \in new.reviews : /\ \A e \in r.cited : EvidenceKnown(Here, new, e)
                               /\ Here.review[r.id] \in {{}, r.cited}
    BY <1>0, <2>2, HereFields DEF WritesReviews, Commit
  <2>7. \A x \in new.corrections :
           ClaimKnown(Here, new, x.claim) /\ ClaimKnown(Here, new, x.old)
    BY <1>0, <2>1 DEF WritesClaims, WritesRows, Commit
  <2>8. \A s \in new.deletedSources : EvidenceKnown(Here, new, s)
    BY <1>0, <2>2 DEF WritesSources, Commit
  <2>9. QED
    BY <2>3, <2>4, <2>5, <2>6, <2>7, <2>8 DEF Refused
<1>10. Past(new)' /\ \A c \in Commit : Past(c) => Past(c)'
  BY <1>1, <1>2, <1>3, <1>4, <1>5 DEF Past
<1>11. ASSUME NEW i \in 1..Len(feed), Past(feed[i]), NEW kind \in Kinds
       PROVE  feed[i][kind] \cap new[kind] = {}
  <2>1. PICK c \in Commit : c = feed[i]
    OBVIOUS
  <2>2. /\ c.sources \cap new.sources = {} /\ c.deletedSources \cap new.deletedSources = {}
        /\ c.claims \cap new.claims = {} /\ c.corrections \cap new.corrections = {}
        /\ c.links \cap new.links = {} /\ c.profiles \cap new.profiles = {}
        /\ c.deletedEntries \cap new.deletedEntries = {} /\ c.reviews \cap new.reviews = {}
        /\ c.deletedReviews \cap new.deletedReviews = {}
    BY <1>1, <1>2, <1>3, <1>4, <1>5, <1>11, <2>1 DEF Past
  <2>3. c[kind] \cap new[kind] = {}
    BY <1>0, <2>2 DEF Kinds, Commit
  <2>4. QED
    BY <2>1, <2>3
<1>12. QED
  BY <1>4, <1>5, <1>6, <1>8, <1>9, <1>10, <1>11

--------------------------------------------------------------------------------
(* Tables a step leaves alone need no record.                              *)
LEMMA Untouched ==
    ASSUME TypeOK, NEW new
    PROVE  /\ new.sources = {} /\ new.deletedSources = {} /\ UNCHANGED <<source, validFrom, recordedAt>>
                => WritesSources(new)
           /\ new.claims = {} /\ new.corrections = {} /\ UNCHANGED <<claim, corrects>>
                => WritesClaims(new)
           /\ new.links = {} /\ UNCHANGED <<supports, contradicts>> => WritesLinks(new)
           /\ new.profiles = {} /\ new.deletedEntries = {} /\ UNCHANGED <<profile, profileAt, entry>>
                => WritesProfiles(new)
           /\ new.reviews = {} /\ new.deletedReviews = {} /\ UNCHANGED review => WritesReviews(new)
<1>1. new.links = {} => \A c, relation : LinksOf(new, c, relation) = {}
  BY DEF LinksOf
<1>2. new.links = {} /\ UNCHANGED <<supports, contradicts>> => WritesLinks(new)
  BY <1>1 DEF WritesLinks
<1>3. QED
  BY <1>2 DEF WritesSources, WritesClaims, WritesRows, WritesProfiles, WritesReviews

(* What a source record of a well-typed store is.                          *)
LEMMA SourceRecordType ==
    ASSUME TypeOK', NEW s \in Source
    PROVE  SourceRecord(s) \in [id : Source, state : {"absent", "live", "deleted"},
                               capturedAt : ValidTime \cup {Open}, recordedAt : RecordTime \cup {Open}]
  BY DEF TypeOK, SourceRecord

(* What a claim record is.                                                 *)
LEMMA ClaimRecordType ==
    ASSUME TypeOK', NEW c \in Source
    PROVE  ClaimRecord(c) \in [id : Source, row : ClaimRow]
  BY DEF TypeOK, ClaimRecord

(* The source record of an insertion.                                      *)
LEMMA InsertionWrites ==
    ASSUME TypeOK, NEW s \in Source, NEW v, NEW t, InsertSource(s, v, t), NEW new,
           new.sources = {SourceRecord(s)}, new.deletedSources = {}
    PROVE  WritesSources(new)
<1>1. PICK record : record = SourceRecord(s)
  OBVIOUS
<1>2. record.id = s /\ new.sources = {record}
  BY <1>1 DEF SourceRecord
<1>3. Ids(new.sources) = {s}
  BY <1>2 DEF Ids
<1>4. source[s] = "absent" /\ source'[s] = "live"
  BY DEF InsertSource, TypeOK
<1>5. \A x \in Source \ {s} : /\ source'[x] = source[x] /\ validFrom'[x] = validFrom[x]
                              /\ recordedAt'[x] = recordedAt[x]
  BY DEF InsertSource, TypeOK
<1>6. QED
  BY <1>1, <1>2, <1>3, <1>4, <1>5 DEF WritesSources

(* remember appends what it writes.                                        *)
LEMMA RememberWrites ==
    ASSUME RowsOK, RowsOK', EntriesOK, NEW s \in Source, NEW v \in ValidTime, NEW t \in RecordTime,
           RememberC(s, v, t)
    PROVE  entry' \in [Key -> Nat] /\ \E new : Writes(new)
<1>0. TypeOK /\ TypeOK'
  BY DEF RowsOK
<1>1. /\ InsertSource(s, v, t) /\ UNCHANGED entry /\ Len(feed) < MaxCommits
      /\ UNCHANGED <<claim, supports, contradicts, corrects, profile, profileAt, review>>
      /\ feed' = Append(feed, RememberRecords(s))
  BY DEF RememberC, Remember, Publish
<1>2. PICK new : new = RememberRecords(s)
  OBVIOUS
<1>3. /\ new.sources = {SourceRecord(s)} /\ new.deletedSources = {} /\ new.claims = {}
      /\ new.corrections = {} /\ new.links = {} /\ new.profiles = {} /\ new.deletedEntries = {}
      /\ new.reviews = {} /\ new.deletedReviews = {}
  BY <1>2 DEF RememberRecords, NoRecords
<1>4. new \in Commit
  <2>1. {SourceRecord(s)} \subseteq
           [id : Source, state : {"absent", "live", "deleted"},
            capturedAt : ValidTime \cup {Open}, recordedAt : RecordTime \cup {Open}]
    BY <1>0, SourceRecordType
  <2>2. QED
    BY <1>2, <2>1 DEF RememberRecords, NoRecords, Commit
<1>5. new # NoRecords
  BY <1>3 DEF NoRecords
<1>6. WritesSources(new)
  BY <1>0, <1>1, <1>3, InsertionWrites
<1>7. WritesClaims(new) /\ WritesLinks(new) /\ WritesProfiles(new) /\ WritesReviews(new)
  BY <1>0, <1>1, <1>3, Untouched
<1>8. QED
  BY <1>1, <1>2, <1>4, <1>5, <1>6, <1>7 DEF Writes, EntriesOK

(* A step links claim c to the evidence of e.                              *)
AddsLink(c, e, relation) ==
    \A d \in Source :
        /\ supports'[d] = supports[d] \cup (IF d = c /\ relation = "supports" THEN {e} ELSE {})
        /\ contradicts'[d] =
              contradicts[d] \cup (IF d = c /\ relation = "contradicts" THEN {e} ELSE {})

(* The link record of a new link.                                          *)
LEMMA LinkWrites ==
    ASSUME TypeOK, NEW c \in Source, NEW e \in Source, NEW relation \in {"supports", "contradicts"},
           NEW new, new.links = {LinkRecord(c, e, relation)},
           ~Cites(c, e), claim'[c].status # "none", source'[e] # "absent",
           AddsLink(c, e, relation)
    PROVE  WritesLinks(new)
<1>1. PICK record : record = LinkRecord(c, e, relation)
  OBVIOUS
<1>2. record.claim = c /\ record.evidence = e /\ record.relation = relation
  BY <1>1 DEF LinkRecord
<1>3. new.links = {record}
  BY <1>1
<1>4. \A d \in Source, x \in {"supports", "contradicts"} :
         LinksOf(new, d, x) = IF d = c /\ x = relation THEN {e} ELSE {}
  BY <1>2, <1>3 DEF LinksOf
<1>5. QED
  BY <1>2, <1>3, <1>4 DEF WritesLinks, AddsLink

(* The profile entries before a step that deletes those of some claims.    *)
LEMMA DroppedWrites ==
    ASSUME RowsOK, EntriesOK, NEW gone, DropProfilesOf(gone), DropEntries, NEW new,
           new.profiles = {}, NoClaim \notin gone,
           new.deletedEntries = {entry[k] : k \in {x \in Key : profile[x] \in gone}}
    PROVE  entry' \in [Key -> Nat] /\ WritesProfiles(new)
<1>0. TypeOK
  BY DEF RowsOK
<1>1. /\ \A k \in Key : profile[k] \in gone =>
            profile'[k] = NoClaim /\ profileAt'[k] = Open /\ entry'[k] = 0
      /\ \A k \in Key : profile[k] \notin gone =>
            profile'[k] = profile[k] /\ profileAt'[k] = profileAt[k] /\ entry'[k] = entry[k]
      /\ entry' \in [Key -> Nat]
  <2>1. \A k \in Key : entry'[k] = IF profile'[k] = NoClaim THEN 0 ELSE entry[k]
    BY DEF DropEntries
  <2>2. \A k \in Key : /\ profile'[k] = IF profile[k] \in gone THEN NoClaim ELSE profile[k]
                       /\ profileAt'[k] = IF profile[k] \in gone THEN Open ELSE profileAt[k]
    BY DEF DropProfilesOf
  <2>3. \A k \in Key : profile[k] = NoClaim => entry[k] = 0
    BY DEF EntriesOK
  <2>4. \A k \in Key : entry[k] \in Nat
    BY DEF EntriesOK
  <2>5. entry' = [k \in Key |-> entry'[k]] /\ \A k \in Key : entry'[k] \in Nat
    BY <2>1, <2>4 DEF DropEntries
  <2>6. QED
    BY <2>1, <2>2, <2>3, <2>5
<1>2. \A k \in Key : profile[k] \in gone => entry[k] # 0
  BY DEF EntriesOK
<1>3. \A k \in Key : entry[k] \in new.deletedEntries <=> profile[k] \in gone
  <2>1. ASSUME NEW k \in Key, entry[k] \in new.deletedEntries
        PROVE  profile[k] \in gone
    <3>1. PICK l \in Key : profile[l] \in gone /\ entry[l] = entry[k]
      BY <2>1
    <3>2. l = k
      BY <1>2, <3>1 DEF EntriesOK
    <3>3. QED
      BY <3>1, <3>2
  <2>2. QED
    BY <2>1
<1>4. \A d \in new.deletedEntries : d # 0 /\ \E k \in Key : entry[k] = d
  BY <1>2
<1>5. QED
  BY <1>1, <1>3, <1>4 DEF WritesProfiles

(* remember appends the claim it stores, too.                              *)
LEMMA RememberClaimWrites ==
    ASSUME RowsOK, RowsOK', EntriesOK, NEW s \in Source, NEW v \in ValidTime, NEW t \in RecordTime,
           NEW input \in ClaimInput, RememberClaimC(s, v, t, input)
    PROVE  entry' \in [Key -> Nat] /\ \E new : Writes(new)
<1>0. TypeOK /\ TypeOK' /\ AbsentIdsAreUnused
  BY DEF RowsOK
<1>1. /\ InsertSource(s, v, t) /\ UNCHANGED entry /\ Len(feed) < MaxCommits
      /\ UNCHANGED <<contradicts, corrects, profile, profileAt, review>>
      /\ claim' = [claim EXCEPT ![s] = NewClaim(input)]
      /\ supports' = [supports EXCEPT ![s] = {s}]
      /\ feed' = Append(feed, RememberClaimRecords(s))
      /\ RememberClaim(s, v, t, input)
  BY DEF RememberClaimC, RememberClaim, Publish
<1>2. PICK new : new = RememberClaimRecords(s)
  OBVIOUS
<1>3. /\ new.sources = {SourceRecord(s)} /\ new.deletedSources = {}
      /\ new.claims = {ClaimRecord(s)} /\ new.corrections = {}
      /\ new.links = {LinkRecord(s, s, "supports")} /\ new.profiles = {} /\ new.deletedEntries = {}
      /\ new.reviews = {} /\ new.deletedReviews = {}
  BY <1>2 DEF RememberClaimRecords, NoRecords
<1>4. new \in Commit
  <2>1. {SourceRecord(s)} \subseteq
           [id : Source, state : {"absent", "live", "deleted"},
            capturedAt : ValidTime \cup {Open}, recordedAt : RecordTime \cup {Open}]
    BY <1>0, SourceRecordType
  <2>2. {ClaimRecord(s)} \subseteq [id : Source, row : ClaimRow]
    BY <1>0, ClaimRecordType
  <2>3. {LinkRecord(s, s, "supports")} \subseteq
           [claim : Source, evidence : Source, relation : {"supports", "contradicts"}]
    BY DEF LinkRecord
  <2>4. QED
    BY <1>2, <2>1, <2>2, <2>3 DEF RememberClaimRecords, NoRecords, Commit
<1>5. new # NoRecords
  BY <1>3 DEF NoRecords
<1>6. WritesSources(new)
  BY <1>0, <1>1, <1>3, InsertionWrites
<1>7. /\ claim'[s].status # "none" /\ supports'[s] = {s} /\ source'[s] = "live"
      /\ \A c \in Source \ {s} : supports'[c] = supports[c]
  BY <1>1, InsertedRows
<1>8. claim[s].status = "none" /\ supports[s] = {} /\ contradicts[s] = {}
  BY <1>0, <1>1 DEF InsertSource, AbsentIdsAreUnused
<1>9. WritesClaims(new)
  <2>1. PICK record : record = ClaimRecord(s)
    OBVIOUS
  <2>2. record.id = s /\ new.claims = {record}
    BY <1>3, <2>1 DEF ClaimRecord
  <2>3. Ids(new.claims) = {s}
    BY <2>2 DEF Ids
  <2>4. \A c \in Source \ {s} : claim'[c] = claim[c]
    BY <1>0, <1>1 DEF TypeOK
  <2>5. QED
    BY <1>1, <1>3, <1>7, <1>8, <2>1, <2>2, <2>3, <2>4 DEF WritesClaims, WritesRows
<1>10. WritesLinks(new)
  <2>1. ~Cites(s, s)
    BY <1>8 DEF Cites
  <2>2. AddsLink(s, s, "supports")
    BY <1>1, <1>7, <1>8 DEF AddsLink
  <2>3. QED
    BY <1>0, <1>3, <1>7, <2>1, <2>2, LinkWrites
<1>11. WritesProfiles(new) /\ WritesReviews(new)
  BY <1>0, <1>1, <1>3, Untouched
<1>12. QED
  BY <1>1, <1>2, <1>4, <1>5, <1>6, <1>9, <1>10, <1>11 DEF Writes, EntriesOK

(* The claim records of the claims in C.                                   *)
LEMMA ClaimsWrite ==
    ASSUME NEW C, C \subseteq Source, NEW new, new.claims = {ClaimRecord(c) : c \in C},
           \A c \in C : /\ claim'[c].status # "none"
                        /\ claim[c].status = "none" \/ Rank(claim[c]) < Rank(claim'[c]),
           \A c \in Source : c \notin C => claim'[c] = claim[c]
    PROVE  WritesRows(new)
<1>1. \A c \in C : ClaimRecord(c).id = c
  BY DEF ClaimRecord
<1>2. \A r \in new.claims : r.id \in C /\ r = ClaimRecord(r.id)
  BY <1>1
<1>3. \A c \in C : c \in Ids(new.claims)
  BY <1>1 DEF Ids
<1>4. QED
  BY <1>2, <1>3 DEF WritesRows

(* A claim that goes out of force, or to a later tier, moves up.           *)
LEMMA RankGrows ==
    ASSUME NEW row \in ClaimRow
    PROVE  /\ row.status = "accepted" => \A v, t : /\ Rank(row) < Rank(SupersededRow(row, v, t))
                                                   /\ Rank(row) < Rank(RetractedRow(row, t))
           /\ row.tier = "short_term" => Rank(row) < Rank([row EXCEPT !.tier = "long_term"])
           /\ row.tier # "archive" => Rank(row) < Rank([row EXCEPT !.tier = "archive"])
<1>1. row.tier \in {"short_term", "long_term", "archive"}
  BY DEF ClaimRow, Tier
<1>2. \A v, t : /\ SupersededRow(row, v, t).tier = row.tier /\ SupersededRow(row, v, t).status = "superseded"
                /\ RetractedRow(row, t).tier = row.tier /\ RetractedRow(row, t).status = "retracted"
  BY DEF ClaimRow, SupersededRow, RetractedRow
<1>3. \A tier : /\ [row EXCEPT !.tier = tier].tier = tier
                /\ [row EXCEPT !.tier = tier].status = row.status
  BY DEF ClaimRow
<1>4. QED
  BY <1>1, <1>2, <1>3 DEF Rank, TierRank

(* correct appends both claims and the correction.                         *)
LEMMA CorrectWrites ==
    ASSUME RowsOK, RowsOK', EntriesOK, NEW old \in Source, NEW s \in Source, NEW v \in ValidTime,
           NEW t \in RecordTime, CorrectC(old, s, v, t)
    PROVE  entry' \in [Key -> Nat] /\ \E new : Writes(new)
<1>0. TypeOK /\ TypeOK' /\ AbsentIdsAreUnused
  BY DEF RowsOK
<1>1. /\ InsertSource(s, v, t) /\ DropEntries /\ Len(feed) < MaxCommits
      /\ UNCHANGED <<contradicts, review>> /\ DropProfilesOf({old})
      /\ supports' = [supports EXCEPT ![s] = {s}]
      /\ corrects' = [corrects EXCEPT ![s] = old]
      /\ feed' = Append(feed, CorrectionRecords(old, s))
      /\ Correct(old, s, v, t) /\ claim[old].status = "accepted"
  BY DEF CorrectC, Correct, Publish, Correctable, Accepted
<1>2. PICK new : new = CorrectionRecords(old, s)
  OBVIOUS
<1>3. /\ new.sources = {SourceRecord(s)} /\ new.deletedSources = {}
      /\ new.claims = {ClaimRecord(s)} \cup {ClaimRecord(old)}
      /\ new.corrections = {[claim |-> s, old |-> old]}
      /\ new.links = {LinkRecord(s, s, "supports")} /\ new.profiles = {}
      /\ new.deletedEntries = EntriesOf(old)
      /\ new.reviews = {} /\ new.deletedReviews = {}
  BY <1>2 DEF CorrectionRecords, RememberClaimRecords, NoRecords
<1>4. new \in Commit
  <2>1. {SourceRecord(s)} \subseteq
           [id : Source, state : {"absent", "live", "deleted"},
            capturedAt : ValidTime \cup {Open}, recordedAt : RecordTime \cup {Open}]
    BY <1>0, SourceRecordType
  <2>2. {ClaimRecord(s)} \cup {ClaimRecord(old)} \subseteq [id : Source, row : ClaimRow]
    BY <1>0, ClaimRecordType
  <2>3. {LinkRecord(s, s, "supports")} \subseteq
           [claim : Source, evidence : Source, relation : {"supports", "contradicts"}]
    BY DEF LinkRecord
  <2>4. EntriesOf(old) \subseteq Nat
    BY DEF EntriesOf, EntriesOK
  <2>5. {[claim |-> s, old |-> old]} \subseteq [claim : Source, old : Source]
    OBVIOUS
  <2>6. QED
    BY <1>2, <2>1, <2>2, <2>3, <2>4, <2>5
       DEF CorrectionRecords, RememberClaimRecords, NoRecords, Commit
<1>5. new # NoRecords
  BY <1>3 DEF NoRecords
<1>6. WritesSources(new)
  BY <1>0, <1>1, <1>3, InsertionWrites
<1>7. /\ claim'[s].status # "none" /\ supports'[s] = {s} /\ source'[s] = "live"
      /\ \A c \in Source \ {s} : supports'[c] = supports[c]
  BY <1>1, InsertedRows
<1>8. claim[s].status = "none" /\ supports[s] = {} /\ contradicts[s] = {} /\ source[s] = "absent"
  BY <1>0, <1>1 DEF InsertSource, AbsentIdsAreUnused
<1>9. WritesClaims(new)
  <2>1. old # s
    BY <1>1, <1>8
  <2>2. /\ claim'[old] = SupersededRow(claim[old], v, t)
        /\ \A c \in Source \ {s, old} : claim'[c] = claim[c]
    <3>1. PICK row : claim' = [claim EXCEPT ![old] = SupersededRow(@, v, t), ![s] = row]
      BY <1>1 DEF Correct
    <3>2. QED
      BY <1>0, <2>1, <3>1 DEF TypeOK
  <2>3. Rank(claim[old]) < Rank(claim'[old])
    <3>1. claim[old] \in ClaimRow
      BY <1>0 DEF TypeOK
    <3>2. Rank(claim[old]) < Rank(SupersededRow(claim[old], v, t))
      BY <1>1, <3>1, RankGrows
    <3>3. QED
      BY <2>2, <3>2
  <2>4. claim'[old].status # "none"
    BY <1>0, <1>1, <2>1, CorrectRows
  <2>5. new.claims = {ClaimRecord(c) : c \in {s, old}}
    BY <1>3
  <2>6. WritesRows(new)
    <3> DEFINE C == {s, old}
    <3>1. C \subseteq Source
      OBVIOUS
    <3>2. \A c \in C : /\ claim'[c].status # "none"
                       /\ claim[c].status = "none" \/ Rank(claim[c]) < Rank(claim'[c])
      BY <1>7, <1>8, <2>3, <2>4
    <3>3. \A c \in Source : c \notin C => claim'[c] = claim[c]
      BY <2>2
    <3>4. new.claims = {ClaimRecord(c) : c \in C}
      BY <2>5
    <3> HIDE DEF C
    <3>5. QED
      BY <3>1, <3>2, <3>3, <3>4, ClaimsWrite
  <2>7. corrects'[s] = old /\ \A c \in Source \ {s} : corrects'[c] = corrects[c]
    BY <1>0, <1>1 DEF TypeOK
  <2>8. /\ \A x \in new.corrections :
              /\ x.old = corrects'[x.claim]
              /\ source[x.claim] = "absent" /\ source'[x.claim] # "absent"
              /\ claim'[x.claim].status # "none" /\ claim'[x.old].status # "none"
        /\ \A c \in Source : (\A x \in new.corrections : x.claim # c) => corrects'[c] = corrects[c]
    BY <1>3, <1>7, <1>8, <2>4, <2>7
  <2>9. QED
    BY <2>6, <2>8 DEF WritesClaims, WritesRows
<1>10. WritesLinks(new)
  <2>1. ~Cites(s, s)
    BY <1>8 DEF Cites
  <2>2. AddsLink(s, s, "supports")
    BY <1>1, <1>7, <1>8 DEF AddsLink
  <2>3. QED
    BY <1>0, <1>3, <1>7, <2>1, <2>2, LinkWrites
<1>11. entry' \in [Key -> Nat] /\ WritesProfiles(new)
  <2>1. new.deletedEntries = {entry[k] : k \in {x \in Key : profile[x] \in {old}}}
    BY <1>3 DEF EntriesOf
  <2>2. NoClaim \notin {old}
    BY SentinelAssumption
  <2>3. QED
    BY <1>1, <1>3, <2>1, <2>2, DroppedWrites
<1>12. WritesReviews(new)
  BY <1>0, <1>1, <1>3, Untouched
<1>13. QED
  BY <1>1, <1>2, <1>4, <1>5, <1>6, <1>9, <1>10, <1>11, <1>12 DEF Writes

(* delete_source appends what it deletes, and the claims it retracts.      *)
LEMMA DeleteSourceWrites ==
    ASSUME RowsOK, RowsOK', EntriesOK, NEW s \in Source, NEW t \in RecordTime, DeleteSourceC(s, t)
    PROVE  entry' \in [Key -> Nat] /\ \E new : Writes(new)
<1> DEFINE gone == Retracted \cup LosesSupport(s)
<1>0. TypeOK /\ TypeOK' /\ ProfilesAreBacked
  BY DEF RowsOK
<1>1. /\ source[s] = "live" /\ source' = [source EXCEPT ![s] = "deleted"]
      /\ UNCHANGED <<validFrom, recordedAt, supports, contradicts, corrects>>
      /\ claim' = [c \in Source |-> IF c \in LosesSupport(s) THEN RetractedRow(claim[c], t)
                                                             ELSE claim[c]]
      /\ review' = ReviewsWithout(s)
      /\ DropEntries /\ DropProfilesOf(gone) /\ Len(feed) < MaxCommits
      /\ feed' = Append(feed, DeletionRecords(s))
      /\ DeleteSource(s, t)
  BY DEF DeleteSourceC, DeleteSource, Publish
<1>2. PICK new : new = DeletionRecords(s)
  OBVIOUS
<1>3. /\ new.sources = {SourceRecord(s)} /\ new.deletedSources = {s}
      /\ new.claims = {ClaimRecord(c) : c \in LosesSupport(s)} /\ new.corrections = {}
      /\ new.links = {} /\ new.profiles = {} /\ new.reviews = {}
      /\ new.deletedEntries =
            {entry[k] : k \in {x \in Key : profile[x] # NoClaim /\ Cites(profile[x], s)
                                              /\ profile'[x] = NoClaim}}
      /\ new.deletedReviews = {r \in Review : s \in review[r]}
  BY <1>2 DEF DeletionRecords, NoRecords
<1>4. LosesSupport(s) \subseteq Accepted /\ Accepted \subseteq Source /\ Retracted \subseteq Source
  BY DEF LosesSupport, Accepted, Retracted
<1>5. new \in Commit
  <2> DEFINE drops == {entry[k] : k \in {x \in Key : profile[x] # NoClaim /\ Cites(profile[x], s)
                                                        /\ profile'[x] = NoClaim}}
  <2>1. {SourceRecord(s)} \subseteq
           [id : Source, state : {"absent", "live", "deleted"},
            capturedAt : ValidTime \cup {Open}, recordedAt : RecordTime \cup {Open}]
    BY <1>0, SourceRecordType
  <2>2. {ClaimRecord(c) : c \in LosesSupport(s)} \subseteq [id : Source, row : ClaimRow]
    BY <1>0, <1>4, ClaimRecordType
  <2>3. drops \subseteq Nat
    BY DEF EntriesOK
  <2>4. new = [NoRecords EXCEPT
                  !.sources = {SourceRecord(s)}, !.deletedSources = {s},
                  !.claims = {ClaimRecord(c) : c \in LosesSupport(s)},
                  !.deletedEntries = drops, !.deletedReviews = {r \in Review : s \in review[r]}]
    BY <1>2 DEF DeletionRecords
  <2> HIDE DEF drops
  <2>5. PICK ss, cs, rs : /\ ss = {SourceRecord(s)} /\ cs = {ClaimRecord(c) : c \in LosesSupport(s)}
                          /\ rs = {r \in Review : s \in review[r]}
    OBVIOUS
  <2>6. new = [NoRecords EXCEPT !.sources = ss, !.deletedSources = {s}, !.claims = cs,
                                !.deletedEntries = drops, !.deletedReviews = rs]
    BY <2>4, <2>5, Zenon
  <2>7. new = [sources |-> ss, claims |-> cs, links |-> {}, profiles |-> {}, reviews |-> {},
               corrections |-> {}, deletedSources |-> {s}, deletedEntries |-> drops,
               deletedReviews |-> rs]
    BY <2>6 DEF NoRecords
  <2>8. QED
    BY <2>1, <2>2, <2>3, <2>5, <2>7 DEF Commit
<1>6. new # NoRecords
  BY <1>3 DEF NoRecords
<1>7. WritesSources(new)
  <2>1. PICK record : record = SourceRecord(s)
    OBVIOUS
  <2>2. record.id = s /\ new.sources = {record}
    BY <1>3, <2>1 DEF SourceRecord
  <2>3. Ids(new.sources) = {s}
    BY <2>2 DEF Ids
  <2>4. source'[s] = "deleted" /\ \A x \in Source \ {s} : source'[x] = source[x]
    BY <1>0, <1>1 DEF TypeOK
  <2>5. QED
    BY <1>1, <1>3, <2>1, <2>2, <2>3, <2>4 DEF WritesSources
<1>8. WritesClaims(new)
  <2>1. /\ \A c \in LosesSupport(s) : c \in Source /\ claim'[c].status = "retracted"
        /\ \A c \in Source : c \notin LosesSupport(s) => claim'[c] = claim[c]
    BY <1>0, <1>1, DeleteRows
  <2>2. ASSUME NEW c \in LosesSupport(s)
        PROVE  Rank(claim[c]) < Rank(claim'[c])
    <3>1. c \in Source /\ claim[c].status = "accepted" /\ claim'[c] = RetractedRow(claim[c], t)
      BY <1>1, <1>4 DEF Accepted
    <3>2. claim[c] \in ClaimRow
      BY <1>0, <3>1 DEF TypeOK
    <3>3. QED
      BY <3>1, <3>2, RankGrows
  <2>3. LosesSupport(s) \subseteq Source
    BY <1>4
  <2>4. \A c \in LosesSupport(s) : /\ claim'[c].status # "none"
                                   /\ claim[c].status = "none" \/ Rank(claim[c]) < Rank(claim'[c])
    BY <2>1, <2>2
  <2>5. WritesRows(new)
    BY <1>3, <2>1, <2>3, <2>4, ClaimsWrite
  <2>6. QED
    BY <1>1, <1>3, <2>5 DEF WritesClaims
<1>9. entry' \in [Key -> Nat] /\ WritesProfiles(new)
  <2>1. NoClaim \notin gone
    BY <1>4, SentinelAssumption
  <2>2. ASSUME NEW k \in Key
        PROVE  profile[k] \in gone <=>
                  profile[k] # NoClaim /\ Cites(profile[k], s) /\ profile'[k] = NoClaim
    <3>1. profile'[k] = IF profile[k] \in gone THEN NoClaim ELSE profile[k]
      BY <1>1 DEF DropProfilesOf
    <3>2. profile[k] # NoClaim => profile[k] \in Accepted
      BY <1>0 DEF ProfilesAreBacked, ProfileFact
    <3>3. \A c \in Accepted : c \notin Retracted
      BY DEF Accepted, Retracted
    <3>4. \A c \in LosesSupport(s) : Cites(c, s)
      BY DEF LosesSupport
    <3> HIDE DEF gone
    <3>5. profile[k] \in gone => profile[k] \in LosesSupport(s)
      BY <2>1, <3>2, <3>3 DEF gone
    <3>6. QED
      BY <2>1, <3>1, <3>4, <3>5
  <2>3. new.deletedEntries = {entry[k] : k \in {x \in Key : profile[x] \in gone}}
    BY <1>3, <2>2
  <2>4. QED
    BY <1>1, <1>3, <2>1, <2>3, DroppedWrites
<1>10. WritesLinks(new)
  BY <1>0, <1>1, <1>3, Untouched
<1>11. WritesReviews(new)
  BY <1>0, <1>1, <1>3 DEF WritesReviews, ReviewsWithout, Ids, TypeOK
<1>12. QED
  BY <1>1, <1>2, <1>5, <1>6, <1>7, <1>8, <1>9, <1>10, <1>11 DEF Writes

(* promote and archive append the claim.                                   *)
LEMMA TierWrites ==
    ASSUME RowsOK, RowsOK', EntriesOK, NEW c \in Source, NEW t \in RecordTime,
           PromoteC(c, t) \/ ArchiveC(c, t)
    PROVE  entry' \in [Key -> Nat] /\ \E new : Writes(new)
<1>0. TypeOK /\ TypeOK'
  BY DEF RowsOK
<1>1. /\ UNCHANGED <<source, validFrom, recordedAt, supports, contradicts, corrects, profile,
                     profileAt, review, entry>>
      /\ Len(feed) < MaxCommits
      /\ feed' = Append(feed, [NoRecords EXCEPT !.claims = {ClaimRecord(c)}])
      /\ claim[c].status # "none"
      /\ \/ claim[c].tier = "short_term" /\ claim' = [claim EXCEPT ![c].tier = "long_term"]
         \/ claim[c].tier # "archive" /\ claim' = [claim EXCEPT ![c].tier = "archive"]
  BY DEF PromoteC, Promote, Promotable, ArchiveC, Archive, Publish
<1>2. PICK new : new = [NoRecords EXCEPT !.claims = {ClaimRecord(c)}]
  OBVIOUS
<1>3. /\ new.claims = {ClaimRecord(c)} /\ new.sources = {} /\ new.deletedSources = {}
      /\ new.corrections = {} /\ new.links = {} /\ new.profiles = {} /\ new.deletedEntries = {}
      /\ new.reviews = {} /\ new.deletedReviews = {}
  BY <1>2 DEF NoRecords
<1>4. new \in Commit
  <2>1. {ClaimRecord(c)} \subseteq [id : Source, row : ClaimRow]
    BY <1>0, ClaimRecordType
  <2>2. QED
    BY <1>2, <2>1 DEF NoRecords, Commit
<1>5. new # NoRecords
  BY <1>3 DEF NoRecords
<1>6. WritesClaims(new)
  <2>1. claim[c] \in ClaimRow
    BY <1>0 DEF TypeOK
  <2>2. Rank(claim[c]) < Rank(claim'[c])
    <3>1. \/ claim[c].tier = "short_term" /\ claim'[c] = [claim[c] EXCEPT !.tier = "long_term"]
          \/ claim[c].tier # "archive" /\ claim'[c] = [claim[c] EXCEPT !.tier = "archive"]
      BY <1>0, <1>1 DEF TypeOK
    <3>2. QED
      BY <2>1, <3>1, RankGrows
  <2>3. claim'[c].status = claim[c].status
    <3>1. \E tier \in Tier : claim' = [claim EXCEPT ![c].tier = tier]
      BY <1>1 DEF Tier
    <3>2. QED
      BY <1>0, <3>1, TierRows
  <2>4. \A d \in Source : d \notin {c} => claim'[d] = claim[d]
    BY <1>0, <1>1 DEF TypeOK
  <2>5. new.claims = {ClaimRecord(d) : d \in {c}}
    BY <1>3
  <2>6. WritesRows(new)
    <3> DEFINE C == {c}
    <3>1. /\ C \subseteq Source /\ new.claims = {ClaimRecord(d) : d \in C}
          /\ \A d \in Source : d \notin C => claim'[d] = claim[d]
      BY <2>4, <2>5
    <3>2. \A d \in C : /\ claim'[d].status # "none"
                       /\ claim[d].status = "none" \/ Rank(claim[d]) < Rank(claim'[d])
      BY <1>1, <2>2, <2>3
    <3> HIDE DEF C
    <3>3. QED
      BY <3>1, <3>2, ClaimsWrite
  <2>7. QED
    BY <1>1, <1>3, <2>6 DEF WritesClaims
<1>7. WritesSources(new) /\ WritesLinks(new) /\ WritesProfiles(new) /\ WritesReviews(new)
  BY <1>0, <1>1, <1>3, Untouched
<1>8. QED
  BY <1>1, <1>2, <1>4, <1>5, <1>6, <1>7 DEF Writes, EntriesOK

(* link_claim_evidence appends the link.                                   *)
LEMMA LinkEvidenceWrites ==
    ASSUME RowsOK, RowsOK', EntriesOK, NEW c \in Source, NEW e \in Source,
           LinkSupportC(c, e) \/ LinkContradictionC(c, e)
    PROVE  entry' \in [Key -> Nat] /\ \E new : Writes(new)
<1>0. TypeOK /\ TypeOK'
  BY DEF RowsOK
<1>1. PICK relation \in {"supports", "contradicts"} :
         /\ feed' = Append(feed, [NoRecords EXCEPT !.links = {LinkRecord(c, e, relation)}])
         /\ AddsLink(c, e, relation)
  <2>1. CASE LinkSupportC(c, e)
    <3>1. /\ feed' = Append(feed, [NoRecords EXCEPT !.links = {LinkRecord(c, e, "supports")}])
          /\ contradicts' = contradicts /\ supports' = [supports EXCEPT ![c] = @ \cup {e}]
      BY <2>1 DEF LinkSupportC, LinkSupport, Publish
    <3>2. \A d \in Source : supports'[d] = supports[d] \cup (IF d = c THEN {e} ELSE {})
      BY <1>0, <3>1 DEF TypeOK
    <3>3. QED
      BY <3>1, <3>2 DEF AddsLink
  <2>2. CASE LinkContradictionC(c, e)
    <3>1. /\ feed' = Append(feed, [NoRecords EXCEPT !.links = {LinkRecord(c, e, "contradicts")}])
          /\ supports' = supports /\ contradicts' = [contradicts EXCEPT ![c] = @ \cup {e}]
      BY <2>2 DEF LinkContradictionC, LinkContradiction, Publish
    <3>2. \A d \in Source : contradicts'[d] = contradicts[d] \cup (IF d = c THEN {e} ELSE {})
      BY <1>0, <3>1 DEF TypeOK
    <3>3. QED
      BY <3>1, <3>2 DEF AddsLink
  <2>3. QED
    BY <2>1, <2>2
<1>2. /\ UNCHANGED <<source, validFrom, recordedAt, claim, corrects, profile, profileAt, review, entry>>
      /\ Linkable(c, e) /\ Len(feed) < MaxCommits
  BY DEF LinkSupportC, LinkSupport, LinkContradictionC, LinkContradiction, Publish
<1>3. PICK new : new = [NoRecords EXCEPT !.links = {LinkRecord(c, e, relation)}]
  OBVIOUS
<1>4. /\ new.links = {LinkRecord(c, e, relation)} /\ new.claims = {} /\ new.sources = {}
      /\ new.deletedSources = {} /\ new.corrections = {} /\ new.profiles = {}
      /\ new.deletedEntries = {} /\ new.reviews = {} /\ new.deletedReviews = {}
  BY <1>3 DEF NoRecords
<1>5. new \in Commit
  BY <1>3 DEF NoRecords, Commit, LinkRecord
<1>6. new # NoRecords
  BY <1>4 DEF NoRecords
<1>7. WritesLinks(new)
  <2>1. ~Cites(c, e) /\ claim'[c].status # "none" /\ source'[e] # "absent"
    BY <1>2 DEF Linkable, Accepted, Live
  <2>2. TypeOK /\ new.links = {LinkRecord(c, e, relation)} /\ AddsLink(c, e, relation)
    BY <1>0, <1>1, <1>4
  <2>3. QED
    BY <2>1, <2>2, LinkWrites
<1>8. WritesSources(new) /\ WritesClaims(new) /\ WritesProfiles(new) /\ WritesReviews(new)
  BY <1>0, <1>2, <1>4, Untouched
<1>9. QED
  BY <1>1, <1>2, <1>3, <1>5, <1>6, <1>7, <1>8 DEF Writes, EntriesOK

(* store_profile appends the entry.                                        *)
LEMMA StoreProfileWrites ==
    ASSUME RowsOK, RowsOK', EntriesOK, Len(feed) \in Nat, NEW c \in Source, NEW t \in RecordTime,
           StoreProfileC(c, t)
    PROVE  entry' \in [Key -> Nat] /\ \E new : Writes(new)
<1>0. TypeOK /\ TypeOK'
  BY DEF RowsOK
<1>1. PICK k \in Key : k = claim[c].key
  BY <1>0 DEF StoreProfileC, StoreProfile, ProfileFact, TypeOK, ClaimRow
<1>2. /\ UNCHANGED <<source, validFrom, recordedAt, claim, supports, contradicts, corrects, review>>
      /\ profile' = [profile EXCEPT ![k] = c] /\ profileAt' = [profileAt EXCEPT ![k] = t]
      /\ profile[k] # NoClaim => t > profileAt[k]
      /\ entry' = [entry EXCEPT ![k] = IF profile[k] = NoClaim THEN Len(feed) + 1 ELSE @]
      /\ Len(feed) < MaxCommits /\ feed' = Append(feed, ProfileRecords(k))
      /\ claim[c].status # "none"
  BY <1>1 DEF StoreProfileC, StoreProfile, ProfileFact, Publish, Accepted
<1>3. /\ entry' \in [Key -> Nat]
      /\ entry'[k] = IF profile[k] = NoClaim THEN Len(feed) + 1 ELSE entry[k]
      /\ profile'[k] = c /\ profileAt'[k] = t
      /\ \A l \in Key \ {k} : /\ entry'[l] = entry[l] /\ profile'[l] = profile[l]
                              /\ profileAt'[l] = profileAt[l]
  <2>1. entry \in [Key -> Nat]
    BY DEF EntriesOK
  <2>2. QED
    BY <1>0, <1>2, <2>1 DEF TypeOK
<1>4. PICK record : record = [id |-> entry'[k], key |-> k, claim |-> profile'[k], at |-> profileAt'[k]]
  OBVIOUS
<1>5. PICK new : new = [NoRecords EXCEPT !.profiles = {record}]
  OBVIOUS
<1>6. feed' = Append(feed, new)
  BY <1>2, <1>4, <1>5 DEF ProfileRecords
<1>7. /\ new.profiles = {record} /\ new.claims = {} /\ new.sources = {}
      /\ new.deletedSources = {} /\ new.corrections = {} /\ new.links = {}
      /\ new.deletedEntries = {} /\ new.reviews = {} /\ new.deletedReviews = {}
  BY <1>5 DEF NoRecords
<1>8. new \in Commit
  <2>1. {record} \subseteq [id : Nat, key : Key, claim : Source \cup {NoClaim},
                            at : RecordTime \cup {Open}]
    BY <1>3, <1>4
  <2>2. QED
    BY <1>5, <2>1 DEF NoRecords, Commit
<1>9. new # NoRecords
  BY <1>7 DEF NoRecords
<1>10. WritesProfiles(new)
  <2>1. /\ record.key = k /\ record.id = entry'[k]
        /\ record = [id |-> entry'[k], key |-> k, claim |-> profile'[k], at |-> profileAt'[k]]
    BY <1>4
  <2>2. profile'[k] # NoClaim /\ claim'[profile'[k]].status # "none"
    BY <1>2, <1>3, SentinelAssumption
  <2>3. \/ entry[k] = 0 /\ entry'[k] = Len(feed) + 1
        \/ entry[k] # 0 /\ entry'[k] = entry[k] /\ profileAt[k] < profileAt'[k]
    <3>1. profileAt[k] \in Nat /\ t \in Nat
      BY <1>0, TimeAssumption DEF TypeOK
    <3>2. entry[k] = 0 <=> profile[k] = NoClaim
      BY DEF EntriesOK
    <3>3. QED
      BY <1>2, <1>3, <3>1, <3>2
  <2>4. QED
    BY <1>3, <1>7, <2>1, <2>2, <2>3 DEF WritesProfiles
<1>11. WritesSources(new) /\ WritesClaims(new) /\ WritesLinks(new) /\ WritesReviews(new)
  BY <1>0, <1>2, <1>7, Untouched
<1>12. QED
  BY <1>2, <1>3, <1>6, <1>8, <1>9, <1>10, <1>11 DEF Writes

(* store_review appends the review.                                        *)
LEMMA StoreReviewWrites ==
    ASSUME RowsOK, RowsOK', EntriesOK, NEW r \in Review, NEW cited \in SUBSET Source,
           StoreReviewC(r, cited)
    PROVE  entry' \in [Key -> Nat] /\ \E new : Writes(new)
<1>0. TypeOK /\ TypeOK'
  BY DEF RowsOK
<1>1. /\ UNCHANGED <<source, validFrom, recordedAt, claim, supports, contradicts, corrects, profile,
                     profileAt, entry>>
      /\ FreshReview(r) /\ review[r] = {} /\ cited # {} /\ cited \subseteq Live
      /\ review' = [review EXCEPT ![r] = cited] /\ Len(feed) < MaxCommits
      /\ feed' = Append(feed, [NoRecords EXCEPT !.reviews = {[id |-> r, cited |-> cited]}])
  BY DEF StoreReviewC, StoreReview, Publish
<1>2. PICK record : record = [id |-> r, cited |-> cited]
  OBVIOUS
<1>3. PICK new : new = [NoRecords EXCEPT !.reviews = {record}]
  OBVIOUS
<1>4. /\ new.reviews = {record} /\ new.profiles = {} /\ new.claims = {} /\ new.sources = {}
      /\ new.deletedSources = {} /\ new.corrections = {} /\ new.links = {}
      /\ new.deletedEntries = {} /\ new.deletedReviews = {}
  BY <1>3 DEF NoRecords
<1>5. new \in Commit
  <2>1. {record} \subseteq [id : Review, cited : SUBSET Source]
    BY <1>2
  <2>2. QED
    BY <1>3, <2>1 DEF NoRecords, Commit
<1>6. new # NoRecords
  BY <1>4 DEF NoRecords
<1>7. WritesReviews(new)
  <2>1. record.id = r /\ record.cited = cited
    BY <1>2
  <2>2. Ids(new.reviews) = {r}
    BY <1>4, <2>1 DEF Ids
  <2>3. review'[r] = cited /\ \A x \in Review \ {r} : review'[x] = review[x]
    BY <1>0, <1>1 DEF TypeOK
  <2>4. \A e \in cited : source'[e] # "absent"
    BY <1>1 DEF Live
  <2>5. QED
    BY <1>1, <1>4, <2>1, <2>2, <2>3, <2>4 DEF WritesReviews
<1>8. WritesSources(new) /\ WritesClaims(new) /\ WritesLinks(new) /\ WritesProfiles(new)
  BY <1>0, <1>1, <1>4, Untouched
<1>9. QED
  BY <1>1, <1>2, <1>3, <1>5, <1>6, <1>7, <1>8 DEF Writes, EntriesOK

(* Every operation appends what it writes.                                 *)
LEMMA OperationWrites ==
    ASSUME RowsOK, RowsOK', EntriesOK, Len(feed) \in Nat, FeedNext
    PROVE  entry' \in [Key -> Nat] /\ \E new : Writes(new)
  BY RememberWrites, RememberClaimWrites, CorrectWrites, DeleteSourceWrites, TierWrites,
     LinkEvidenceWrites, StoreProfileWrites, StoreReviewWrites
     DEF FeedNext

(* An operation with its commit is an operation of the tables.             *)
LEMMA OperationIsNext == FeedNext => Next
  BY DEF FeedNext, Next, RememberC, RememberClaimC, CorrectC, DeleteSourceC, PromoteC, ArchiveC,
         StoreProfileC, LinkSupportC, LinkContradictionC, StoreReviewC

--------------------------------------------------------------------------------
(* Commit i of a log is the last to name a row by its id.                  *)
LastToName(log, kind, id, i) ==
    /\ i \in 1..Len(log)
    /\ id \in Ids(log[i][kind])
    /\ \A j \in 1..Len(log) : j > i => id \notin Ids(log[j][kind])

(* The log tells the tables T: every link and review is in some commit, and*)
(* the last one that names a source or a claim has it as it is.            *)
Told(T, log) ==
    /\ \A c, e \in Source :
          /\ e \in T.supports[c] =>
                \E i \in 1..Len(log) : LinkRecord(c, e, "supports") \in log[i].links
          /\ e \in T.contradicts[c] =>
                \E i \in 1..Len(log) : LinkRecord(c, e, "contradicts") \in log[i].links
    /\ \A r \in Review : T.review[r] # {} =>
          \E i \in 1..Len(log) : [id |-> r, cited |-> T.review[r]] \in log[i].reviews
    /\ \A s \in Source : T.source[s] # "absent" =>
          \E i : /\ LastToName(log, "sources", s, i)
                 /\ \A r \in log[i].sources : r.id = s => r.state = T.source[s]
    /\ \A c \in Source : T.claim[c].status # "none" =>
          \E i : /\ LastToName(log, "claims", c, i)
                 /\ \A r \in log[i].claims : r.id = c => r.row = T.claim[c]

(* The empty log tells empty tables.                                       *)
LEMMA NothingTold == Told(EmptyTables, <<>>)
  BY DEF Told, EmptyTables, NoRow

(* A log that tells tables tells, with one more commit, what follows.      *)
LEMMA TellsOn ==
    ASSUME NEW T, NEW U, NEW log \in Seq(Commit), NEW new \in Commit,
           Told(T, log), Follows(T, new, U), \A s \in new.deletedSources : s \in Ids(new.sources)
    PROVE  Told(U, Append(log, new))
<1> DEFINE more == Append(log, new)
<1>1. /\ Len(log) \in Nat /\ Len(more) = Len(log) + 1
      /\ \A i \in 1..Len(log) : i \in 1..Len(more) /\ more[i] = log[i]
      /\ Len(more) \in 1..Len(more) /\ more[Len(more)] = new
      /\ \A i \in 1..Len(more) : i \in 1..Len(log) \/ i = Len(more)
  OBVIOUS
<1> HIDE DEF more
<1>2. ASSUME NEW relation \in {"supports", "contradicts"}, NEW c \in Source, NEW e \in Source,
             e \in LinksOf(new, c, relation)
      PROVE  LinkRecord(c, e, relation) \in more[Len(more)].links
  <2>1. PICK l \in new.links : l.claim = c /\ l.relation = relation /\ l.evidence = e
    BY <1>2 DEF LinksOf
  <2>2. l = [claim |-> l.claim, evidence |-> l.evidence, relation |-> l.relation]
    BY DEF Commit
  <2>3. QED
    BY <1>1, <2>1, <2>2 DEF LinkRecord
<1>3. ASSUME NEW c \in Source, NEW e \in Source
      PROVE  /\ e \in U.supports[c] =>
                   \E i \in 1..Len(more) : LinkRecord(c, e, "supports") \in more[i].links
             /\ e \in U.contradicts[c] =>
                   \E i \in 1..Len(more) : LinkRecord(c, e, "contradicts") \in more[i].links
  <2>1. /\ U.supports[c] = T.supports[c] \cup LinksOf(new, c, "supports")
        /\ U.contradicts[c] = T.contradicts[c] \cup LinksOf(new, c, "contradicts")
    BY DEF Follows, LinksFollow
  <2>2. /\ e \in T.supports[c] =>
              \E i \in 1..Len(more) : LinkRecord(c, e, "supports") \in more[i].links
        /\ e \in T.contradicts[c] =>
              \E i \in 1..Len(more) : LinkRecord(c, e, "contradicts") \in more[i].links
    BY <1>1 DEF Told
  <2>3. QED
    BY <1>1, <1>2, <2>1, <2>2
<1>4. ASSUME NEW r \in Review, U.review[r] # {}
      PROVE  \E i \in 1..Len(more) : [id |-> r, cited |-> U.review[r]] \in more[i].reviews
  <2>1. CASE r \in Ids(new.reviews)
    <3>1. PICK record \in new.reviews : record.id = r
      BY <2>1 DEF Ids
    <3>2. record = [id |-> record.id, cited |-> record.cited]
      BY DEF Commit
    <3>3. record.cited = U.review[r]
      BY <3>1 DEF Follows, ReviewsFollow
    <3>4. QED
      BY <1>1, <3>1, <3>2, <3>3
  <2>2. CASE r \notin Ids(new.reviews)
    <3>1. U.review[r] = T.review[r]
      BY <1>4, <2>2 DEF Follows, ReviewsFollow
    <3>2. PICK i \in 1..Len(log) : [id |-> r, cited |-> T.review[r]] \in log[i].reviews
      BY <1>4, <3>1 DEF Told
    <3>3. QED
      BY <1>1, <3>1, <3>2
  <2>3. QED
    BY <2>1, <2>2
<1>5. ASSUME NEW s \in Source, U.source[s] # "absent"
      PROVE  \E i : /\ LastToName(more, "sources", s, i)
                    /\ \A r \in more[i].sources : r.id = s => r.state = U.source[s]
  <2>1. CASE s \in Ids(new.sources)
    <3>1. \A r \in new.sources : r.id = s => r.state = U.source[s]
      BY DEF Follows, SourcesFollow
    <3>2. LastToName(more, "sources", s, Len(more))
      BY <1>1, <2>1 DEF LastToName
    <3>3. QED
      BY <1>1, <3>1, <3>2
  <2>2. CASE s \notin Ids(new.sources)
    <3>1. U.source[s] = T.source[s]
      BY <2>2 DEF Follows, SourcesFollow
    <3>2. PICK i : /\ LastToName(log, "sources", s, i)
                   /\ \A r \in log[i].sources : r.id = s => r.state = T.source[s]
      BY <1>5, <3>1 DEF Told
    <3>3. LastToName(more, "sources", s, i)
      BY <1>1, <2>2, <3>2 DEF LastToName
    <3>4. QED
      BY <1>1, <3>1, <3>2, <3>3 DEF LastToName
  <2>3. QED
    BY <2>1, <2>2
<1>6. ASSUME NEW c \in Source, U.claim[c].status # "none"
      PROVE  \E i : /\ LastToName(more, "claims", c, i)
                    /\ \A r \in more[i].claims : r.id = c => r.row = U.claim[c]
  <2>1. CASE c \in Ids(new.claims)
    <3>1. \A r \in new.claims : r.id = c => r.row = U.claim[c]
      BY DEF Follows, ClaimsFollow
    <3>2. LastToName(more, "claims", c, Len(more))
      BY <1>1, <2>1 DEF LastToName
    <3>3. QED
      BY <1>1, <3>1, <3>2
  <2>2. CASE c \notin Ids(new.claims)
    <3>1. U.claim[c] = T.claim[c]
      BY <2>2 DEF Follows, ClaimsFollow
    <3>2. PICK i : /\ LastToName(log, "claims", c, i)
                   /\ \A r \in log[i].claims : r.id = c => r.row = T.claim[c]
      BY <1>6, <3>1 DEF Told
    <3>3. LastToName(more, "claims", c, i)
      BY <1>1, <2>2, <3>2 DEF LastToName
    <3>4. QED
      BY <1>1, <3>1, <3>2, <3>3 DEF LastToName
  <2>3. QED
    BY <2>1, <2>2
<1>7. QED
  BY <1>3, <1>4, <1>5, <1>6 DEF Told, more

--------------------------------------------------------------------------------
(* A sound log with a commit of new records is sound.                      *)
LEMMA SoundGrows ==
    ASSUME NEW log, SoundLog(log), NEW new \in Commit, new # NoRecords,
           \A i \in 1..Len(log) : \A kind \in Kinds : log[i][kind] \cap new[kind] = {}
    PROVE  SoundLog(Append(log, new))
<1> DEFINE more == Append(log, new)
<1>1. /\ log \in Seq(Commit) /\ Len(log) \in Nat /\ Len(more) = Len(log) + 1
      /\ \A i \in 1..Len(log) : more[i] = log[i]
      /\ more[Len(more)] = new /\ more \in Seq(Commit)
      /\ \A i \in 1..Len(more) : i \in 1..Len(log) \/ i = Len(more)
  BY DEF SoundLog
<1> HIDE DEF more
<1>2. \A i \in 1..Len(more) : more[i] # NoRecords
  BY <1>1 DEF SoundLog
<1>3. ASSUME NEW i \in 1..Len(more), NEW j \in 1..Len(more), i < j, NEW kind \in Kinds
      PROVE  more[i][kind] \cap more[j][kind] = {}
  <2>1. i \in 1..Len(log) /\ more[i] = log[i]
    BY <1>1, <1>3
  <2>2. CASE j \in 1..Len(log)
    BY <1>1, <1>3, <2>1, <2>2 DEF SoundLog, Disjoint
  <2>3. CASE j = Len(more)
    BY <1>1, <2>1, <2>3
  <2>4. QED
    BY <1>1, <2>2, <2>3
<1>4. QED
  BY <1>1, <1>2, <1>3 DEF SoundLog, Disjoint, more

(* A replay goes on with the tables the commit makes.                      *)
LEMMA ReplayGrows ==
    ASSUME NEW log \in Seq(Commit), NEW R, IsReplay(R, log), NEW new \in Commit, NEW U,
           ~Refused(R[Len(log)], new), U = Materialized(R[Len(log)], new)
    PROVE  \E Q : /\ IsReplay(Q, Append(log, new)) /\ Q[Len(log) + 1] = U
                  /\ \A i \in 0..Len(log) : Q[i] = R[i]
<1> DEFINE n == Len(log) + 1
           Q == [i \in 0..n |-> IF i = n THEN U ELSE R[i]]
           more == Append(log, new)
<1>1. /\ n \in Nat /\ n \in 1..n /\ Len(more) = n /\ Len(log) = n - 1
      /\ \A i \in 1..n : i = n \/ i \in 1..Len(log)
      /\ \A i \in 1..Len(log) : more[i] = log[i] /\ i \in 0..n /\ i - 1 \in 0..n /\ i # n /\ i - 1 # n
      /\ n \in 0..n /\ n - 1 \in 0..n /\ n - 1 # n /\ 0 \in 0..n /\ 0 # n
      /\ more[n] = new
      /\ \A i \in 0..Len(log) : i \in 0..n /\ i # n
  OBVIOUS
<1> HIDE DEF n, more
<1>2. Q[n] = U /\ Q[0] = R[0] /\ \A i \in 0..Len(log) : Q[i] = R[i]
  BY <1>1
<1>3. \A i \in 1..Len(log) : Q[i] = R[i] /\ Q[i - 1] = R[i - 1]
  BY <1>1
<1>4. Q[n - 1] = R[Len(log)]
  BY <1>1
<1> HIDE DEF Q
<1>5. ASSUME NEW i \in 1..Len(more)
      PROVE  ~Refused(Q[i - 1], more[i]) /\ Q[i] = Materialized(Q[i - 1], more[i])
  <2>1. CASE i = n
    BY <1>1, <1>2, <1>4, <2>1
  <2>2. CASE i \in 1..Len(log)
    BY <1>1, <1>3, <2>2 DEF IsReplay
  <2>3. QED
    BY <1>1, <2>1, <2>2
<1>6. IsReplay(Q, more)
  BY <1>2, <1>5 DEF IsReplay
<1>7. QED
  BY <1>2, <1>6 DEF more, n

(* What a ledger has of the first commits, a further one does not change.  *)
LEMMA SeenStays ==
    ASSUME NEW log \in Seq(Commit), NEW new, NEW n \in 0..Len(log)
    PROVE  SeenUpTo(Append(log, new), n) = SeenUpTo(log, n)
<1>1. \A i \in 1..n : Append(log, new)[i] = log[i]
  OBVIOUS
<1>2. \A kind \in Kinds : {Append(log, new)[i][kind] : i \in 1..n} = {log[i][kind] : i \in 1..n}
  BY <1>1
<1>3. QED
  BY <1>2, Zenon DEF SeenUpTo

(* Empty tables stay empty when nothing is written.                        *)
LEMMA NothingFollows ==
    ASSUME NEW U \in Tables, Follows(EmptyTables, NoRecords, U)
    PROVE  U = EmptyTables
<1>1. /\ NoRecords.sources = {} /\ NoRecords.claims = {} /\ NoRecords.links = {}
      /\ NoRecords.profiles = {} /\ NoRecords.reviews = {} /\ NoRecords.corrections = {}
      /\ NoRecords.deletedSources = {} /\ NoRecords.deletedEntries = {}
      /\ NoRecords.deletedReviews = {}
  BY DEF NoRecords
<1>2. \A s \in Source : /\ U.source[s] = "absent" /\ U.validFrom[s] = Open /\ U.recordedAt[s] = Open
  BY <1>1 DEF Follows, SourcesFollow, EmptyTables, Ids
<1>3. \A c \in Source : U.claim[c] = NoRow /\ U.corrects[c] = NoClaim
  BY <1>1 DEF Follows, ClaimsFollow, EmptyTables, Ids
<1>4. \A c \in Source : U.supports[c] = {} /\ U.contradicts[c] = {}
  BY <1>1 DEF Follows, LinksFollow, LinksOf, EmptyTables
<1>5. \A k \in Key : U.entry[k] = 0 /\ U.profile[k] = NoClaim /\ U.profileAt[k] = Open
  BY <1>1 DEF Follows, ProfilesFollow, EmptyTables
<1>6. \A r \in Review : U.review[r] = {}
  BY <1>1 DEF Follows, ReviewsFollow, EmptyTables, Ids
<1>7. /\ U.source = [s \in Source |-> "absent"] /\ U.validFrom = [s \in Source |-> Open]
      /\ U.recordedAt = [s \in Source |-> Open] /\ U.claim = [s \in Source |-> NoRow]
      /\ U.supports = [c \in Source |-> {}] /\ U.contradicts = [c \in Source |-> {}]
      /\ U.corrects = [c \in Source |-> NoClaim] /\ U.profile = [k \in Key |-> NoClaim]
      /\ U.profileAt = [k \in Key |-> Open] /\ U.entry = [k \in Key |-> 0]
      /\ U.review = [r \in Review |-> {}]
  BY <1>2, <1>3, <1>4, <1>5, <1>6 DEF Tables
<1>8. U = [source |-> U.source, validFrom |-> U.validFrom, recordedAt |-> U.recordedAt,
           claim |-> U.claim, supports |-> U.supports, contradicts |-> U.contradicts,
           corrects |-> U.corrects, profile |-> U.profile, profileAt |-> U.profileAt,
           entry |-> U.entry, review |-> U.review]
  BY DEF Tables
<1>9. QED
  BY <1>7, <1>8, Zenon DEF EmptyTables

(* The commit migrate_v8 bootstraps the feed with makes, of empty tables,  *)
(* those of the older release without their corrections.                   *)
LEMMA Bootstraps ==
    ASSUME RowsOK, RowsOK', EntriesOK, feed = <<>>, \A c \in Source : corrects'[c] = NoClaim,
           UNCHANGED <<source, validFrom, recordedAt, claim, supports, contradicts,
                       profile, profileAt, review, entry>>,
           NEW new, new = BootstrapRecords
    PROVE  /\ new \in Commit /\ new.deletedSources = {}
           /\ Follows(EmptyTables, new, Here')
           /\ ~Refused(EmptyTables, new)
           /\ feed' = <<new>> => Past(new)'
<1> DEFINE sources == {SourceRecord(s) : s \in {x \in Source : source[x] # "absent"}}
           claims == {ClaimRecord(c) : c \in {x \in Source : claim[x].status # "none"}}
           links == {LinkRecord(l[1], l[2], "supports") :
                        l \in {x \in Source \X Source : x[2] \in supports[x[1]]}}
                    \cup {LinkRecord(l[1], l[2], "contradicts") :
                        l \in {x \in Source \X Source : x[2] \in contradicts[x[1]]}}
           profiles == {[id |-> entry[k], key |-> k, claim |-> profile[k], at |-> profileAt[k]] :
                           k \in {x \in Key : profile[x] # NoClaim}}
           reviews == {[id |-> r, cited |-> review[r]] : r \in {x \in Review : review[x] # {}}}
<1>0. /\ TypeOK /\ TypeOK' /\ AbsentIdsAreUnused /\ UnusedRowsAreBlank /\ ProfilesAreBacked
      /\ ReviewsCiteLiveEvidence
  BY DEF RowsOK
<1>1. new = [NoRecords EXCEPT !.sources = sources, !.claims = claims, !.links = links,
                              !.profiles = profiles, !.reviews = reviews]
  BY DEF BootstrapRecords
<1>2. /\ \A r \in sources : r.id \in Source /\ source[r.id] # "absent" /\ r = SourceRecord(r.id)
      /\ \A s \in Source : source[s] # "absent" => s \in Ids(sources)
  <2>1. \A s : SourceRecord(s).id = s
    BY DEF SourceRecord
  <2>2. QED
    BY <2>1 DEF Ids
<1>3. /\ \A r \in claims : r.id \in Source /\ claim[r.id].status # "none" /\ r = ClaimRecord(r.id)
      /\ \A c \in Source : claim[c].status # "none" => c \in Ids(claims)
  <2>1. \A c : ClaimRecord(c).id = c
    BY DEF ClaimRecord
  <2>2. QED
    BY <2>1 DEF Ids
<1>4. /\ \A l \in links :
            /\ l \in [claim : Source, evidence : Source, relation : {"supports", "contradicts"}]
            /\ \/ l.relation = "supports" /\ l.evidence \in supports[l.claim]
               \/ l.relation = "contradicts" /\ l.evidence \in contradicts[l.claim]
      /\ \A c, e \in Source :
            /\ e \in supports[c] => LinkRecord(c, e, "supports") \in links
            /\ e \in contradicts[c] => LinkRecord(c, e, "contradicts") \in links
  <2>1. \A c, e, x : LinkRecord(c, e, x) = [claim |-> c, evidence |-> e, relation |-> x]
    BY DEF LinkRecord
  <2>2. ASSUME NEW l \in links
        PROVE  \E c, e \in Source :
                  \/ l = LinkRecord(c, e, "supports") /\ e \in supports[c]
                  \/ l = LinkRecord(c, e, "contradicts") /\ e \in contradicts[c]
    OBVIOUS
  <2>3. ASSUME NEW c \in Source, NEW e \in Source
        PROVE  /\ e \in supports[c] => LinkRecord(c, e, "supports") \in links
               /\ e \in contradicts[c] => LinkRecord(c, e, "contradicts") \in links
    <3>1. PICK pair : pair = <<c, e>>
      OBVIOUS
    <3>2. pair \in Source \X Source /\ pair[1] = c /\ pair[2] = e
      BY <3>1
    <3>3. QED
      BY <3>2
  <2> HIDE DEF links
  <2>4. ASSUME NEW l \in links
        PROVE  /\ l \in [claim : Source, evidence : Source, relation : {"supports", "contradicts"}]
               /\ \/ l.relation = "supports" /\ l.evidence \in supports[l.claim]
                  \/ l.relation = "contradicts" /\ l.evidence \in contradicts[l.claim]
    BY <2>1, <2>2
  <2>5. QED
    BY <2>3, <2>4
<1>5. /\ \A p \in profiles :
            /\ p.key \in Key /\ profile[p.key] # NoClaim
            /\ p.id = entry[p.key] /\ p.claim = profile[p.key] /\ p.at = profileAt[p.key]
            /\ p \in [id : Nat, key : Key, claim : Source \cup {NoClaim}, at : RecordTime \cup {Open}]
      /\ \A k \in Key : profile[k] # NoClaim => \E p \in profiles : p.key = k
  <2>1. \A k \in Key : /\ entry[k] \in Nat /\ profile[k] \in Source \cup {NoClaim}
                       /\ profileAt[k] \in RecordTime \cup {Open}
    BY <1>0 DEF EntriesOK, TypeOK
  <2>2. \A p \in profiles : \E k \in Key :
           /\ p = [id |-> entry[k], key |-> k, claim |-> profile[k], at |-> profileAt[k]]
           /\ profile[k] # NoClaim
    BY Zenon
  <2>3. \A k \in Key : profile[k] # NoClaim =>
           [id |-> entry[k], key |-> k, claim |-> profile[k], at |-> profileAt[k]] \in profiles
    BY Zenon
  <2> HIDE DEF profiles
  <2>4. ASSUME NEW p \in profiles
        PROVE  /\ p.key \in Key /\ profile[p.key] # NoClaim
               /\ p.id = entry[p.key] /\ p.claim = profile[p.key] /\ p.at = profileAt[p.key]
               /\ p \in [id : Nat, key : Key, claim : Source \cup {NoClaim},
                         at : RecordTime \cup {Open}]
    <3>1. PICK k \in Key :
             /\ p = [id |-> entry[k], key |-> k, claim |-> profile[k], at |-> profileAt[k]]
             /\ profile[k] # NoClaim
      BY <2>2
    <3>2. QED
      BY <2>1, <3>1
  <2>5. ASSUME NEW k \in Key, profile[k] # NoClaim
        PROVE  \E p \in profiles : p.key = k
    <3>1. PICK p \in profiles :
             p = [id |-> entry[k], key |-> k, claim |-> profile[k], at |-> profileAt[k]]
      BY <2>3, <2>5
    <3>2. QED
      BY <3>1
  <2>6. QED
    BY <2>4, <2>5
<1>6. /\ \A r \in reviews : r.id \in Review /\ review[r.id] # {} /\ r.cited = review[r.id]
      /\ \A r \in reviews : r \in [id : Review, cited : SUBSET Source]
      /\ \A r \in Review : review[r] # {} => r \in Ids(reviews)
  <2>1. \A r \in Review : review[r] \subseteq Source
    BY <1>0 DEF TypeOK
  <2>2. \A x \in reviews : \E r \in Review : x = [id |-> r, cited |-> review[r]] /\ review[r] # {}
    BY Zenon
  <2>3. \A r \in Review : review[r] # {} => [id |-> r, cited |-> review[r]] \in reviews
    BY Zenon
  <2> HIDE DEF reviews
  <2>4. ASSUME NEW x \in reviews
        PROVE  /\ x.id \in Review /\ review[x.id] # {} /\ x.cited = review[x.id]
               /\ x \in [id : Review, cited : SUBSET Source]
    <3>1. PICK r \in Review : x = [id |-> r, cited |-> review[r]] /\ review[r] # {}
      BY <2>2
    <3>2. QED
      BY <2>1, <3>1
  <2>5. ASSUME NEW r \in Review, review[r] # {}
        PROVE  r \in Ids(reviews)
    <3>1. PICK x \in reviews : x = [id |-> r, cited |-> review[r]]
      BY <2>3, <2>5
    <3>2. QED
      BY <3>1 DEF Ids
  <2>6. QED
    BY <2>4, <2>5
<1>7. new = [sources |-> sources, claims |-> claims, links |-> links, profiles |-> profiles,
             reviews |-> reviews, corrections |-> {}, deletedSources |-> {},
             deletedEntries |-> {}, deletedReviews |-> {}]
  <2> HIDE DEF sources, claims, links, profiles, reviews
  <2>1. QED
    BY <1>1 DEF NoRecords
<1> HIDE DEF sources, claims, links, profiles, reviews
<1>8. /\ new.sources = sources /\ new.claims = claims /\ new.links = links /\ new.profiles = profiles
      /\ new.reviews = reviews /\ new.corrections = {} /\ new.deletedSources = {}
      /\ new.deletedEntries = {} /\ new.deletedReviews = {}
  BY <1>7
<1>9. new \in Commit
  <2>1. sources \subseteq [id : Source, state : {"absent", "live", "deleted"},
                           capturedAt : ValidTime \cup {Open}, recordedAt : RecordTime \cup {Open}]
    BY <1>0, <1>2, SourceRecordType
  <2>2. claims \subseteq [id : Source, row : ClaimRow]
    BY <1>0, <1>3, ClaimRecordType
  <2>3. links \subseteq [claim : Source, evidence : Source, relation : {"supports", "contradicts"}]
    BY <1>4
  <2>4. profiles \subseteq [id : Nat, key : Key, claim : Source \cup {NoClaim},
                            at : RecordTime \cup {Open}]
    BY <1>5
  <2>5. reviews \subseteq [id : Review, cited : SUBSET Source]
    BY <1>6
  <2>6. QED
    BY <1>7, <2>1, <2>2, <2>3, <2>4, <2>5 DEF Commit
<1>10. /\ \A s \in Source : /\ EmptyTables.source[s] = "absent" /\ EmptyTables.validFrom[s] = Open
                            /\ EmptyTables.recordedAt[s] = Open /\ EmptyTables.claim[s] = NoRow
                            /\ EmptyTables.supports[s] = {} /\ EmptyTables.contradicts[s] = {}
                            /\ EmptyTables.corrects[s] = NoClaim
       /\ \A k \in Key : /\ EmptyTables.profile[k] = NoClaim /\ EmptyTables.profileAt[k] = Open
                         /\ EmptyTables.entry[k] = 0
       /\ \A r \in Review : EmptyTables.review[r] = {}
  BY DEF EmptyTables
<1>11. SourcesFollow(EmptyTables, new, Here')
  <2>1. \A r \in sources : /\ r.state = source'[r.id] /\ r.capturedAt = validFrom'[r.id]
                           /\ r.recordedAt = recordedAt'[r.id]
    BY <1>2 DEF SourceRecord
  <2>2. \A s \in Source : s \notin Ids(sources) =>
           source'[s] = "absent" /\ validFrom'[s] = Open /\ recordedAt'[s] = Open
    BY <1>0, <1>2 DEF UnusedRowsAreBlank
  <2>3. QED
    BY <1>8, <1>10, <2>1, <2>2, HereNextFields DEF SourcesFollow
<1>12. ClaimsFollow(EmptyTables, new, Here')
  <2>1. \A r \in claims : r.row = claim'[r.id]
    BY <1>3 DEF ClaimRecord
  <2>2. \A c \in Source : c \notin Ids(claims) => claim'[c] = NoRow
    BY <1>0, <1>3 DEF UnusedRowsAreBlank
  <2>3. QED
    BY <1>8, <1>10, <2>1, <2>2, HereNextFields DEF ClaimsFollow
<1>13. LinksFollow(EmptyTables, new, Here')
  <2>1. ASSUME NEW c \in Source
        PROVE  supports'[c] = LinksOf(new, c, "supports") /\ contradicts'[c] = LinksOf(new, c, "contradicts")
    <3>1. supports[c] \subseteq Source /\ contradicts[c] \subseteq Source
      BY <1>0 DEF TypeOK
    <3>2. \A e \in Source, x \in {"supports", "contradicts"} :
             LET r == LinkRecord(c, e, x) IN r.claim = c /\ r.evidence = e /\ r.relation = x
      BY DEF LinkRecord
    <3>3. \A e \in Source : /\ e \in supports[c] => e \in LinksOf(new, c, "supports")
                            /\ e \in contradicts[c] => e \in LinksOf(new, c, "contradicts")
      BY <1>4, <1>8, <3>2 DEF LinksOf
    <3>4. /\ \A e \in LinksOf(new, c, "supports") : e \in supports[c]
          /\ \A e \in LinksOf(new, c, "contradicts") : e \in contradicts[c]
      BY <1>4, <1>8 DEF LinksOf
    <3>5. QED
      BY <3>1, <3>3, <3>4
  <2>2. QED
    BY <1>10, <2>1, HereNextFields DEF LinksFollow
<1>14. ProfilesFollow(EmptyTables, new, Here')
  <2>1. \A k \in Key : (\A p \in profiles : p.key # k) =>
           entry[k] = 0 /\ profile[k] = NoClaim /\ profileAt[k] = Open
    BY <1>0, <1>5 DEF UnusedRowsAreBlank, EntriesOK
  <2>2. QED
    BY <1>5, <1>8, <1>10, <2>1, HereNextFields DEF ProfilesFollow
<1>15. ReviewsFollow(EmptyTables, new, Here')
  <2>1. \A r \in Review : r \notin Ids(reviews) => review[r] = {}
    BY <1>6
  <2>2. \A r \in reviews : r.cited = review'[r.id]
    BY <1>6
  <2>3. \A r \in Review : r \notin Ids(reviews) => Here'.review[r] = EmptyTables.review[r]
    BY <1>10, <2>1, HereNextFields
  <2>4. \A r \in reviews : r.cited = Here'.review[r.id]
    BY <2>2, HereNextFields
  <2>5. QED
    BY <1>8, <2>3, <2>4, Zenon DEF ReviewsFollow
<1>16. Follows(EmptyTables, new, Here')
  BY <1>11, <1>12, <1>13, <1>14, <1>15 DEF Follows
<1>17. ~Refused(EmptyTables, new)
  <2>1. \A c \in Source : claim[c].status # "none" => ClaimKnown(EmptyTables, new, c)
    BY <1>3, <1>8 DEF ClaimKnown
  <2>2. \A e \in Source : source[e] # "absent" => EvidenceKnown(EmptyTables, new, e)
    BY <1>2, <1>8 DEF EvidenceKnown
  <2>3. ASSUME NEW l \in links
        PROVE  /\ ClaimKnown(EmptyTables, new, l.claim) /\ EvidenceKnown(EmptyTables, new, l.evidence)
               /\ l.evidence \notin EmptyTables.contradicts[l.claim]
               /\ l.evidence \notin EmptyTables.supports[l.claim]
    <3>1. l.claim \in Source /\ l.evidence \in Source /\ Cites(l.claim, l.evidence)
      BY <1>4 DEF Cites
    <3>2. claim[l.claim].status # "none"
      BY <1>0, <3>1 DEF UnusedRowsAreBlank, Cites
    <3>3. source[l.evidence] # "absent"
      BY <1>0, <3>1 DEF AbsentIdsAreUnused
    <3>4. QED
      BY <1>10, <2>1, <2>2, <3>1, <3>2, <3>3
  <2>4. ASSUME NEW p \in profiles
        PROVE  ClaimKnown(EmptyTables, new, p.claim)
    <3>1. p.claim \in Source /\ claim[p.claim].status # "none"
      BY <1>0, <1>5 DEF ProfilesAreBacked, ProfileFact, Accepted
    <3>2. QED
      BY <2>1, <3>1
  <2>5. ASSUME NEW r \in reviews
        PROVE  /\ \A e \in r.cited : EvidenceKnown(EmptyTables, new, e)
               /\ EmptyTables.review[r.id] \in {{}, r.cited}
    <3>1. \A e \in r.cited : e \in Source /\ source[e] # "absent"
      BY <1>0, <1>6 DEF ReviewsCiteLiveEvidence, Live
    <3>2. QED
      BY <1>6, <1>10, <2>2, <3>1
  <2>6. \A r \in sources : EmptyTables.source[r.id] # "deleted"
    BY <1>2, <1>10
  <2>7. QED
    BY <1>8, <2>3, <2>4, <2>5, <2>6 DEF Refused
<1>18. ASSUME feed' = <<new>>
       PROVE  Past(new)'
  <2>1. PastSources(new)'
    BY <1>2, <1>8 DEF PastSources, SourceRecord
  <2>2. PastClaims(new)'
    <3>1. SUFFICES ASSUME NEW r \in claims
                   PROVE  claim'[r.id].status # "none" /\ Rank(r.row) <= Rank(claim'[r.id])
      BY <1>8 DEF PastClaims
    <3>2. r.id \in Source /\ claim[r.id].status # "none" /\ r.row = claim'[r.id]
      BY <1>3 DEF ClaimRecord
    <3>3. claim'[r.id] \in ClaimRow
      BY <1>0, <3>2 DEF TypeOK
    <3>4. Rank(claim'[r.id]) \in Nat
      BY <3>3, RankIsNatural
    <3>5. QED
      BY <3>2, <3>4
  <2>3. PastLinks(new)'
    BY <1>4, <1>8 DEF PastLinks, Cites
  <2>4. PastProfiles(new)'
    <3>1. SUFFICES ASSUME NEW p \in profiles
                   PROVE  Minted(p.id)' /\ \A k \in Key : entry'[k] = p.id => p.at <= profileAt'[k]
      BY <1>8 DEF PastProfiles
    <3>2. p.key \in Key /\ p.id = entry[p.key] /\ entry[p.key] # 0 /\ p.at = profileAt[p.key]
      BY <1>5 DEF EntriesOK
    <3>3. entry[p.key] \in Nat /\ Minted(entry[p.key])
      BY <3>2 DEF EntriesOK
    <3>4. Minted(p.id)'
      <4>1. Len(feed) = 0 /\ Len(feed') = 1
        BY <1>18
      <4>2. QED
        BY <3>2, <3>3, <4>1, FeedAssumption DEF Minted
    <3>5. \A k \in Key : entry[k] = p.id => k = p.key
      BY <3>2 DEF EntriesOK
    <3>6. profileAt[p.key] \in Nat
      BY <1>0, <3>2, TimeAssumption DEF TypeOK
    <3>7. QED
      BY <3>2, <3>4, <3>5, <3>6
  <2>5. PastReviews(new)'
    BY <1>8 DEF PastReviews
  <2>6. QED
    BY <2>1, <2>2, <2>3, <2>4, <2>5 DEF Past
<1>19. QED
  BY <1>8, <1>9, <1>16, <1>17, <1>18

--------------------------------------------------------------------------------
(* The store and its feed, at any version of the schema.                   *)
FeedInv ==
    /\ version \in (0 .. FeedVersion - 1) \cup {CurrentVersion}
    /\ reads \subseteq 0 .. FeedVersion - 1
    /\ RowsOK
    /\ EntriesOK
    /\ version < FeedVersion => feed = <<>>
    /\ SoundLog(feed)
    /\ \A i \in 1..Len(feed) : Past(feed[i])
    /\ version = CurrentVersion => Told(Here, feed)

(* The replica is on the replay of the feed, exactly as far as the host's  *)
(* cursor, its ledger and its own feed say.                                *)
ReplicaInv ==
    /\ applied \in 0..Len(feed)
    /\ ledger = SeenUpTo(feed, applied)
    /\ mirrorFeed = SubSeq(feed, 1, applied)
    /\ \E R : /\ IsReplay(R, feed)
              /\ R[applied] = mirror
              /\ version = CurrentVersion => R[Len(feed)] = Here

Versions == FeedVersion = 8 /\ CurrentVersion = 13 /\ OriginVersion = 6

(* The numbers stay out of the provers' way.                               *)
LEMMA VersionNumbers == Versions
  BY DEF Versions, FeedVersion, CurrentVersion, OriginVersion

(* A file that is opened for the first time has nothing and replays        *)
(* nothing.                                                                *)
LEMMA MigrationStarts == MigrationInit => FeedInv /\ ReplicaInv
<1> SUFFICES ASSUME MigrationInit PROVE FeedInv /\ ReplicaInv
  OBVIOUS
<1>1. /\ Init /\ feed = <<>> /\ entry = [k \in Key |-> 0] /\ mirror = Here /\ ledger = NoRecords
      /\ mirrorFeed = <<>> /\ applied = 0 /\ version \in StartVersion /\ reads = {}
  BY DEF MigrationInit, ReplicationInit, FeedInit
<1>2. version \in 0 .. FeedVersion - 1 /\ version # CurrentVersion
  BY <1>1, StartAssumption, VersionNumbers DEF Versions
<1>3. RowsOK
  BY <1>1, RowsInit
<1>4. EntriesOK
  BY <1>1 DEF EntriesOK, Init
<1>5. SoundLog(feed) /\ Len(feed) = 0
  BY <1>1 DEF SoundLog, Disjoint
<1>6. FeedInv
  BY <1>1, <1>2, <1>3, <1>4, <1>5 DEF FeedInv
<1>7. Here = EmptyTables
  BY <1>1 DEF Here, EmptyTables, Init
<1>8. ledger = SeenUpTo(feed, 0)
  <2>1. \A kind \in Kinds : {feed[i][kind] : i \in 1..0} = {}
    OBVIOUS
  <2>2. \A kind \in Kinds : UNION {feed[i][kind] : i \in 1..0} = {}
    BY <2>1
  <2>3. QED
    BY <1>1, <2>2, NothingShape DEF SeenUpTo
<1>9. IsReplay([i \in {0} |-> EmptyTables], feed)
  BY <1>5 DEF IsReplay
<1>10. [i \in {0} |-> EmptyTables][0] = mirror
  BY <1>1, <1>7
<1>11. mirrorFeed = SubSeq(feed, 1, 0)
  BY <1>1
<1>12. ReplicaInv
  <2>1. applied \in 0..Len(feed)
    BY <1>1, <1>5
  <2>2. QED
    BY <1>1, <1>2, <1>8, <1>9, <1>10, <1>11, <2>1 DEF ReplicaInv
<1>13. QED
  BY <1>6, <1>12

(* Past commits stay past when none of their tables changes.               *)
LEMMA PastStays ==
    ASSUME UNCHANGED <<source, claim, supports, contradicts, profileAt, review, entry>>,
           feed' = feed, NEW c, Past(c)
    PROVE  Past(c)'
<1>1. \A r : FreshReview(r)' <=> FreshReview(r)
  BY DEF FreshReview
<1>2. \A id : Minted(id)' <=> Minted(id)
  BY DEF Minted
<1>3. PastSources(c)' /\ PastClaims(c)' /\ PastLinks(c)'
  BY DEF Past, PastSources, PastClaims, PastLinks, Cites
<1>4. PastProfiles(c)'
  BY <1>2 DEF Past, PastProfiles
<1>5. PastReviews(c)'
  BY <1>1 DEF Past, PastReviews
<1>6. QED
  BY <1>3, <1>4, <1>5 DEF Past

(* A write of an older release leaves the feed empty.                      *)
LEMMA OlderReleaseKeeps == FeedInv /\ ReplicaInv /\ OlderRelease => FeedInv' /\ ReplicaInv'
<1> SUFFICES ASSUME FeedInv, ReplicaInv, OlderRelease PROVE FeedInv' /\ ReplicaInv'
  OBVIOUS
<1>1. /\ Next /\ UNCHANGED <<feed, mirror, ledger, mirrorFeed, applied, version, reads>>
      /\ entry' = [k \in Key |-> IF profile'[k] = NoClaim THEN 0 ELSE OlderEntry[k]]
      /\ version \in 1 .. FeedVersion - 1
  BY DEF OlderRelease, mirrorVars
<1>2. version < FeedVersion /\ version # CurrentVersion /\ feed = <<>> /\ Len(feed) = 0
  BY <1>1, VersionNumbers DEF Versions, FeedInv
<1>3. RowsOK'
  BY <1>1, RowsStep DEF FeedInv
<1>4. EntriesOK'
  <2>1. \A k \in Key : entry'[k] = IF profile'[k] = NoClaim THEN 0 ELSE OlderEntry[k]
    BY <1>1
  <2>2. \A k \in Key : OlderEntry[k] \in Nat /\ OlderEntry[k] > MaxCommits /\ OlderEntry[k] # 0
    BY OlderEntryAssumption, FeedAssumption
  <2>3. entry' \in [Key -> Nat]
    BY <1>1, <2>2
  <2>4. \A k \in Key : entry'[k] = 0 <=> profile'[k] = NoClaim
    BY <2>1, <2>2
  <2>5. \A k \in Key : entry'[k] # 0 => Minted(entry[k])'
    BY <2>1, <2>2 DEF Minted
  <2>6. \A k, l \in Key : entry'[k] = entry'[l] /\ entry'[k] # 0 => k = l
    BY <2>1, <2>2, OlderEntryAssumption
  <2>7. QED
    BY <2>3, <2>4, <2>5, <2>6 DEF EntriesOK
<1>5. FeedInv'
  BY <1>1, <1>2, <1>3, <1>4 DEF FeedInv
<1>6. ReplicaInv'
  BY <1>1, <1>2 DEF ReplicaInv
<1>7. QED
  BY <1>5, <1>6

(* Reviews the feed tells were published.                                  *)
LEMMA ToldReviews ==
    ASSUME Told(Here, feed), feed \in Seq(Commit)
    PROVE  ReviewsPublished
<1>1. SUFFICES ASSUME NEW r \in Review, review[r] # {} PROVE ~FreshReview(r)
  BY DEF ReviewsPublished
<1>2. PICK i \in 1..Len(feed) : [id |-> r, cited |-> review[r]] \in feed[i].reviews
  BY <1>1, HereFields DEF Told
<1>3. PICK record \in feed[i].reviews : record = [id |-> r, cited |-> review[r]]
  BY <1>2
<1>4. QED
  BY <1>3 DEF FreshReview

(* An operation of the present release adds one commit to the feed, and to *)
(* its replay.                                                             *)
LEMMA PresentReleaseKeeps == FeedInv /\ ReplicaInv /\ PresentRelease => FeedInv' /\ ReplicaInv'
<1> SUFFICES ASSUME FeedInv, ReplicaInv, PresentRelease PROVE FeedInv' /\ ReplicaInv'
  OBVIOUS
<1>1. /\ FeedNext /\ UNCHANGED <<mirror, ledger, mirrorFeed, applied, version, reads>>
      /\ version = CurrentVersion /\ ~(version < FeedVersion)
  BY VersionNumbers DEF PresentRelease, Operate, mirrorVars, Versions
<1>2. /\ RowsOK /\ EntriesOK /\ SoundLog(feed) /\ feed \in Seq(Commit) /\ Len(feed) \in Nat
      /\ Told(Here, feed) /\ \A i \in 1..Len(feed) : Past(feed[i])
  BY <1>1 DEF FeedInv, SoundLog
<1>3. RowsOK'
  BY <1>1, <1>2, OperationIsNext, RowsStep
<1>4. entry' \in [Key -> Nat] /\ \E new : Writes(new)
  BY <1>1, <1>2, <1>3, OperationWrites
<1>5. PICK new : Writes(new)
  BY <1>4
<1>6. /\ new \in Commit /\ new # NoRecords /\ feed' = Append(feed, new)
      /\ \A s \in new.deletedSources : s \in Ids(new.sources)
  BY <1>5 DEF Writes, WritesSources
<1>7. ReviewsPublished
  BY <1>2, ToldReviews
<1>8. /\ Follows(Here, new, Here')
      /\ Here' = Materialized(Here, new)
      /\ ~Refused(Here, new)
      /\ EntriesOK' /\ Past(new)'
      /\ \A c \in Commit : Past(c) => Past(c)'
      /\ \A i \in 1..Len(feed) : Past(feed[i]) =>
            \A kind \in Kinds : feed[i][kind] \cap new[kind] = {}
  BY <1>2, <1>3, <1>4, <1>5, <1>7, Written
<1>9. SoundLog(feed')
  BY <1>2, <1>6, <1>8, SoundGrows
<1>10. /\ Len(feed') = Len(feed) + 1 /\ feed'[Len(feed) + 1] = new
       /\ \A i \in 1..Len(feed') : i = Len(feed) + 1 \/ (i \in 1..Len(feed) /\ feed'[i] = feed[i])
  BY <1>2, <1>6
<1>11. \A i \in 1..Len(feed') : Past(feed[i])'
  <2>1. SUFFICES ASSUME NEW i \in 1..Len(feed') PROVE Past(feed[i])'
    OBVIOUS
  <2>2. PICK c \in Commit : c = feed'[i] /\ Past(c)'
    <3>1. CASE i = Len(feed) + 1
      BY <1>6, <1>8, <1>10, <3>1
    <3>2. CASE i \in 1..Len(feed) /\ feed'[i] = feed[i]
      <4>1. PICK c \in Commit : c = feed[i] /\ Past(c)
        BY <1>2, <3>2
      <4>2. QED
        BY <1>8, <3>2, <4>1
    <3>3. QED
      BY <1>10, <3>1, <3>2
  <2>3. QED
    BY <2>2
<1>12. Told(Here', feed')
  BY <1>2, <1>6, <1>8, TellsOn
<1>13. FeedInv'
  BY <1>1, <1>3, <1>8, <1>9, <1>11, <1>12 DEF FeedInv
<1>14. PICK R : IsReplay(R, feed) /\ R[applied] = mirror /\ R[Len(feed)] = Here
  BY <1>1 DEF ReplicaInv
<1>15. PICK Q : /\ IsReplay(Q, feed') /\ Q[Len(feed) + 1] = Here'
                /\ \A i \in 0..Len(feed) : Q[i] = R[i]
  BY <1>2, <1>6, <1>8, <1>14, ReplayGrows
<1>16. applied \in 0..Len(feed) /\ applied \in 0..Len(feed')
  BY <1>2, <1>10 DEF ReplicaInv
<1>17. ledger' = SeenUpTo(feed', applied)
  BY <1>1, <1>2, <1>6, <1>16, SeenStays DEF ReplicaInv
<1>18. mirrorFeed' = SubSeq(feed', 1, applied)
  <2>1. SubSeq(feed', 1, applied) = SubSeq(feed, 1, applied)
    BY <1>2, <1>6, <1>16
  <2>2. QED
    BY <1>1, <2>1 DEF ReplicaInv
<1>19. ReplicaInv'
  <2>1. IsReplay(Q, feed') /\ Q[applied] = mirror' /\ Q[Len(feed')] = Here'
    BY <1>1, <1>10, <1>14, <1>15, <1>16
  <2>2. QED
    BY <1>1, <1>16, <1>17, <1>18, <2>1 DEF ReplicaInv
<1>20. QED
  BY <1>13, <1>19

(* A migrated store whose feed is empty has nothing to bootstrap it with.  *)
LEMMA NothingToBootstrap ==
    ASSUME RowsOK, Told(Here, <<>>)
    PROVE  BootstrapRecords = NoRecords
<1>1. \A i : i \notin 1..Len(<<>>)
  OBVIOUS
<1>2. /\ \A c \in Source : supports[c] = {} /\ contradicts[c] = {}
      /\ \A r \in Review : review[r] = {}
      /\ \A s \in Source : source[s] = "absent" /\ claim[s].status = "none"
  <2>1. \A c \in Source : supports[c] \subseteq Source /\ contradicts[c] \subseteq Source
    BY DEF RowsOK, TypeOK
  <2>2. QED
    BY <1>1, <2>1, HereFields DEF Told, LastToName
<1>3. \A k \in Key : profile[k] = NoClaim
  BY <1>2 DEF RowsOK, ProfilesAreBacked, ProfileFact, Accepted
<1>4. /\ {SourceRecord(s) : s \in {x \in Source : source[x] # "absent"}} = {}
      /\ {ClaimRecord(c) : c \in {x \in Source : claim[x].status # "none"}} = {}
      /\ {LinkRecord(l[1], l[2], "supports") :
             l \in {x \in Source \X Source : x[2] \in supports[x[1]]}} = {}
      /\ {LinkRecord(l[1], l[2], "contradicts") :
             l \in {x \in Source \X Source : x[2] \in contradicts[x[1]]}} = {}
      /\ {[id |-> entry[k], key |-> k, claim |-> profile[k], at |-> profileAt[k]] :
             k \in {x \in Key : profile[x] # NoClaim}} = {}
      /\ {[id |-> r, cited |-> review[r]] : r \in {x \in Review : review[x] # {}}} = {}
  <2>1. \A x \in Source \X Source : x[1] \in Source
    OBVIOUS
  <2>2. /\ {x \in Source : source[x] # "absent"} = {} /\ {x \in Source : claim[x].status # "none"} = {}
        /\ {x \in Source \X Source : x[2] \in supports[x[1]]} = {}
        /\ {x \in Source \X Source : x[2] \in contradicts[x[1]]} = {}
        /\ {x \in Key : profile[x] # NoClaim} = {} /\ {x \in Review : review[x] # {}} = {}
    BY <1>2, <1>3, <2>1
  <2>3. QED
    BY <2>2
<1>5. BootstrapRecords = [NoRecords EXCEPT !.sources = {}, !.claims = {}, !.links = {} \cup {},
                                           !.profiles = {}, !.reviews = {}]
  BY <1>4, Zenon DEF BootstrapRecords
<1>6. QED
  BY <1>5 DEF NoRecords

(* A migration bootstraps the feed of a file of an older release, and      *)
(* leaves a migrated one as it is.                                         *)
LEMMA MigrateKeeps ==
    ASSUME FeedInv, ReplicaInv, NEW v \in reads, Migrate(v)
    PROVE  FeedInv' /\ ReplicaInv'
<1>1. /\ version' = CurrentVersion /\ reads' \subseteq reads
      /\ UNCHANGED <<source, validFrom, recordedAt, claim, supports, contradicts,
                     profile, profileAt, review, entry>>
      /\ corrects' = IF version < FeedVersion THEN [c \in Source |-> NoClaim] ELSE corrects
      /\ feed' = IF v < FeedVersion THEN Bootstrapped(feed) ELSE feed
      /\ UNCHANGED <<mirror, ledger, mirrorFeed, applied>>
  BY DEF Migrate, mirrorVars
<1>2. v < FeedVersion /\ ~(version' < FeedVersion)
      /\ version' \in (0 .. FeedVersion - 1) \cup {CurrentVersion}
  BY <1>1, VersionNumbers DEF FeedInv, Versions
<1>3. feed' = Bootstrapped(feed)
  BY <1>1, <1>2
<1>4. RowsOK'
  <2>1. corrects' \in [Source -> Source \cup {NoClaim}]
        /\ \A s \in Source : corrects[s] = NoClaim => corrects'[s] = NoClaim
    BY <1>1 DEF FeedInv, RowsOK, TypeOK
  <2>2. TypeOK'
    BY <1>1, <2>1 DEF FeedInv, RowsOK, TypeOK
  <2>3. AbsentIdsAreUnused' /\ UnusedRowsAreBlank'
    BY <1>1, <2>1 DEF FeedInv, RowsOK, AbsentIdsAreUnused, Cites, UnusedRowsAreBlank
  <2>4. ProfilesAreBacked' /\ ReviewsCiteLiveEvidence'
    BY <1>1 DEF FeedInv, RowsOK, ProfilesAreBacked, ProfileFact, Accepted,
       ReviewsCiteLiveEvidence, Live
  <2>5. QED
    BY <2>2, <2>3, <2>4 DEF RowsOK
<1>5. RowsOK /\ EntriesOK /\ SoundLog(feed) /\ feed \in Seq(Commit) /\ Len(feed) \in Nat
  BY DEF FeedInv, SoundLog
<1>6. ASSUME feed' = feed
      PROVE  EntriesOK' /\ \A i \in 1..Len(feed') : Past(feed[i])'
  <2>1. EntriesOK'
    <3>1. \A id : Minted(id)' <=> Minted(id)
      BY <1>6 DEF Minted
    <3>2. \A k \in Key : Minted(entry[k])' <=> Minted(entry[k])
      BY <1>1, <1>6 DEF Minted
    <3>3. QED
      BY <1>1, <1>5, <3>2 DEF EntriesOK
  <2>2. ASSUME NEW i \in 1..Len(feed')
        PROVE  Past(feed[i])'
    <3>1. PICK c : c = feed[i] /\ Past(c)
      BY <1>6, <2>2 DEF FeedInv
    <3>2. Past(c)'
      BY <1>1, <1>6, <3>1, PastStays
    <3>3. c = feed'[i]
      BY <1>6, <3>1
    <3>4. QED
      BY <3>2, <3>3
  <2>3. QED
    BY <2>1, <2>2
<1>7. CASE version = CurrentVersion
  <2>1. corrects' = corrects
    BY <1>1, <1>7, VersionNumbers DEF Versions
  <2>2. Here' = Here
    BY <1>1, <2>1 DEF Here
  <2>3. Told(Here, feed)
    BY <1>7 DEF FeedInv
  <2>4. feed' = feed
    <3>1. CASE feed = <<>>
      <4>1. BootstrapRecords = NoRecords
        BY <1>5, <2>3, <3>1, NothingToBootstrap
      <4>2. QED
        BY <1>3, <4>1 DEF Bootstrapped
    <3>2. CASE feed # <<>>
      BY <1>3, <3>2 DEF Bootstrapped
    <3>3. QED
      BY <3>1, <3>2
  <2>5. Told(Here', feed')
    BY <2>2, <2>3, <2>4
  <2>6. FeedInv'
    BY <1>1, <1>2, <1>4, <1>5, <1>6, <2>4, <2>5 DEF FeedInv
  <2>7. ReplicaInv'
    BY <1>1, <1>7, <2>2, <2>4 DEF ReplicaInv
  <2>8. QED
    BY <2>6, <2>7
<1>8. CASE version # CurrentVersion
  <2>1. version < FeedVersion /\ feed = <<>> /\ Len(feed) = 0
    <3>1. version < FeedVersion
      BY <1>8, VersionNumbers DEF FeedInv, Versions
    <3>2. QED
      BY <3>1 DEF FeedInv
  <2>2. \A c \in Source : corrects'[c] = NoClaim
    BY <1>1, <2>1
  <2>3. PICK new : new = BootstrapRecords
    OBVIOUS
  <2>4. /\ new \in Commit /\ new.deletedSources = {}
        /\ Follows(EmptyTables, new, Here')
        /\ ~Refused(EmptyTables, new)
        /\ feed' = <<new>> => Past(new)'
    BY <1>1, <1>4, <1>5, <2>1, <2>2, <2>3, Bootstraps
  <2>5. Here' \in Tables
    BY <1>1, <1>4, <1>5 DEF RowsOK, TypeOK, EntriesOK, Here, Tables
  <2>6. PICK R : IsReplay(R, feed) /\ R[applied] = mirror
    BY DEF ReplicaInv
  <2>7. R[0] = EmptyTables /\ applied = 0
    BY <2>1, <2>6 DEF IsReplay, ReplicaInv
  <2>8. CASE new = NoRecords
    <3>1. feed' = feed
      BY <1>3, <2>3, <2>8 DEF Bootstrapped
    <3>2. Here' = EmptyTables
      BY <2>4, <2>5, <2>8, NothingFollows
    <3>3. Told(Here', feed')
      BY <2>1, <3>1, <3>2, NothingTold
    <3>4. FeedInv'
      BY <1>1, <1>2, <1>4, <1>5, <1>6, <3>1, <3>3 DEF FeedInv
    <3>5. IsReplay(R, feed') /\ R[applied] = mirror' /\ R[Len(feed')] = Here'
      BY <1>1, <2>1, <2>6, <2>7, <3>1, <3>2
    <3>6. ReplicaInv'
      BY <1>1, <3>1, <3>5 DEF ReplicaInv
    <3>7. QED
      BY <3>4, <3>6
  <2>9. CASE new # NoRecords
    <3>1. feed' = <<new>>
      BY <1>3, <2>1, <2>3, <2>9 DEF Bootstrapped
    <3>2. feed' = Append(feed, new) /\ Len(feed') = 1 /\ feed'[1] = new
      BY <2>1, <3>1
    <3>3. SoundLog(feed')
      <4>1. \A i \in 1..Len(feed) : \A kind \in Kinds : feed[i][kind] \cap new[kind] = {}
        BY <2>1
      <4>2. SoundLog(Append(feed, new))
        BY <1>5, <2>4, <2>9, <4>1, SoundGrows
      <4>3. QED
        BY <3>2, <4>2
    <3>4. \A i \in 1..Len(feed') : Past(feed[i])'
      <4>1. SUFFICES ASSUME NEW i \in 1..Len(feed') PROVE Past(feed[i])'
        OBVIOUS
      <4>2. new = feed'[i]
        BY <3>2
      <4>3. QED
        BY <2>4, <3>1, <4>2
    <3>5. Told(Here', feed')
      <4>1. Told(EmptyTables, feed)
        BY <2>1, NothingTold
      <4>2. QED
        BY <1>5, <2>4, <3>2, <4>1, TellsOn
    <3>6. EntriesOK'
      <4>1. \A k \in Key : entry[k] # 0 => Minted(entry[k])'
        BY <1>1, <1>5, <2>1, <3>2, FeedAssumption DEF EntriesOK, Minted
      <4>2. QED
        BY <1>1, <1>5, <4>1 DEF EntriesOK
    <3>7. FeedInv'
      BY <1>1, <1>2, <1>4, <3>3, <3>4, <3>5, <3>6 DEF FeedInv
    <3>8. Here' = Materialized(EmptyTables, new)
      BY <2>4, <2>5, FollowsMaterializes
    <3>9. PICK Q : /\ IsReplay(Q, feed') /\ Q[Len(feed) + 1] = Here'
                   /\ \A i \in 0..Len(feed) : Q[i] = R[i]
      <4>1. PICK U : U = Here'
        OBVIOUS
      <4>2. R[Len(feed)] = EmptyTables
        BY <2>1, <2>7
      <4>3. ~Refused(R[Len(feed)], new) /\ U = Materialized(R[Len(feed)], new)
        BY <2>4, <3>8, <4>1, <4>2
      <4>4. \E Q : /\ IsReplay(Q, Append(feed, new)) /\ Q[Len(feed) + 1] = U
                   /\ \A i \in 0..Len(feed) : Q[i] = R[i]
        BY <1>5, <2>4, <2>6, <4>3, ReplayGrows
      <4>5. QED
        BY <3>2, <4>1, <4>4
    <3>10. applied \in 0..Len(feed) /\ applied \in 0..Len(feed')
      BY <2>1, <2>7, <3>2
    <3>11. ledger' = SeenUpTo(feed', applied)
      BY <1>1, <1>5, <3>2, <3>10, SeenStays DEF ReplicaInv
    <3>12. mirrorFeed' = SubSeq(feed', 1, applied)
      <4>1. SubSeq(feed', 1, applied) = SubSeq(feed, 1, applied)
        BY <1>5, <2>4, <3>2, <3>10
      <4>2. QED
        BY <1>1, <4>1 DEF ReplicaInv
    <3>13. Q[applied] = mirror' /\ Q[Len(feed')] = Here'
      <4>1. 0 \in 0..Len(feed) /\ Len(feed') = Len(feed) + 1
        BY <2>1, <3>2
      <4>2. Q[applied] = R[applied]
        BY <3>9, <3>10
      <4>3. QED
        BY <1>1, <2>6, <3>9, <4>1, <4>2
    <3>14. ReplicaInv'
      BY <1>1, <3>9, <3>10, <3>11, <3>12, <3>13 DEF ReplicaInv
    <3>15. QED
      BY <3>7, <3>14
  <2>10. QED
    BY <2>8, <2>9
<1>9. QED
  BY <1>7, <1>8

(* A batch takes the replica along the replay.                             *)
LEMMA DeliverKeeps ==
    ASSUME FeedInv, ReplicaInv, NEW range \in Batches(applied, feed), Deliver(range), version' = version
    PROVE  ReplicaInv'
<1>1. /\ SoundLog(feed) /\ feed \in Seq(Commit) /\ Len(feed) \in Nat
      /\ applied \in 0..Len(feed) /\ ledger = SeenUpTo(feed, applied)
      /\ mirrorFeed = SubSeq(feed, 1, applied)
  BY DEF FeedInv, SoundLog, ReplicaInv
<1>2. PICK R : /\ IsReplay(R, feed) /\ R[applied] = mirror
               /\ version = CurrentVersion => R[Len(feed)] = Here
  BY DEF ReplicaInv
<1>3. PICK a \in 1..applied + 1, b \in 0..Len(feed) :
         /\ a = range[1] /\ b = range[2] /\ a <= b + 1
         /\ SubSeq(feed, a, b) = Batch(range, feed)
  <2>1. /\ range[1] \in 1..Len(feed) /\ range[2] \in 1..Len(feed)
        /\ range[1] <= applied + 1 /\ range[1] <= range[2]
    BY DEF Batches
  <2>2. range[1] \in 1..applied + 1 /\ range[2] \in 0..Len(feed) /\ range[1] <= range[2] + 1
    BY <1>1, <2>1
  <2>3. QED
    BY <2>2 DEF Batch
<1>4. PICK to : to = Later(applied, b)
  OBVIOUS
<1>5. to \in 0..Len(feed) /\ applied <= to
  BY <1>1, <1>3, <1>4 DEF Later
<1>6. Apply(mirror, ledger, Batch(range, feed)) = Reached(R, feed, applied, to)
  <2>1. Apply(R[applied], SeenUpTo(feed, applied), SubSeq(feed, a, b))
          = Reached(R, feed, applied, Later(applied, b))
    BY <1>1, <1>2, <1>3, ApplyFollows
  <2>2. QED
    BY <1>1, <1>2, <1>3, <1>4, <2>1
<1>7. /\ mirror' = R[to] /\ ledger' = SeenUpTo(feed, to)
      /\ mirrorFeed' = mirrorFeed \o SubSeq(feed, applied + 1, to)
  <2>1. PICK store : store = Apply(mirror, ledger, Batch(range, feed))
    OBVIOUS
  <2>2. /\ mirror' = store.tables /\ ledger' = store.seen
        /\ mirrorFeed' = mirrorFeed \o store.commits
    BY <2>1 DEF Deliver
  <2>3. store.tables = R[to] /\ store.seen = SeenUpTo(feed, to)
        /\ store.commits = SubSeq(feed, applied + 1, to)
    <3>1. store = Reached(R, feed, applied, to)
      BY <1>6, <2>1
    <3>2. /\ Reached(R, feed, applied, to).tables = R[to]
          /\ Reached(R, feed, applied, to).seen = SeenUpTo(feed, to)
          /\ Reached(R, feed, applied, to).commits = SubSeq(feed, applied + 1, to)
      BY DEF Reached
    <3>3. QED
      BY <3>1, <3>2
  <2>4. QED
    BY <2>2, <2>3
<1>8. applied' = to /\ UNCHANGED feedVars
  BY <1>3, <1>4 DEF Deliver, Further, Later
<1>9. feed' = feed /\ Here' = Here
  BY <1>8 DEF feedVars, vars, Here
<1>10. mirrorFeed' = SubSeq(feed, 1, to)
  <2>1. 1 \in 1..Len(feed) + 1 /\ applied \in 1 - 1..Len(feed) /\ to \in applied..Len(feed)
    BY <1>1, <1>5
  <2>2. SubSeq(feed, 1, applied) \o SubSeq(feed, applied + 1, to) = SubSeq(feed, 1, to)
    BY <1>1, <2>1, ConcatAdjacentSubSeq
  <2>3. QED
    BY <1>1, <1>7, <2>2
<1>11. applied' \in 0..Len(feed') /\ ledger' = SeenUpTo(feed', applied')
       /\ mirrorFeed' = SubSeq(feed', 1, applied')
  BY <1>5, <1>7, <1>8, <1>9, <1>10
<1>12. /\ IsReplay(R, feed') /\ R[applied'] = mirror'
       /\ version' = CurrentVersion => R[Len(feed')] = Here'
  BY <1>2, <1>7, <1>8, <1>9
<1>13. QED
  BY <1>11, <1>12 DEF ReplicaInv

(* A step that changes no row, no commit and no replica.                   *)
LEMMA RowsStay ==
    ASSUME FeedInv, UNCHANGED feedVars, version' = version,
           reads' \subseteq 0 .. FeedVersion - 1
    PROVE  FeedInv' /\ feed' = feed /\ Here' = Here
<1>1. /\ feed' = feed /\ entry' = entry /\ UNCHANGED vars
      /\ UNCHANGED <<source, validFrom, recordedAt, claim, supports, contradicts, corrects,
                     profile, profileAt, review>>
  BY DEF feedVars, vars
<1>2. Here' = Here
  BY <1>1 DEF Here
<1>3. RowsOK'
  BY <1>1, RowsStep DEF FeedInv
<1>4. EntriesOK'
  <2>1. \A k \in Key : Minted(entry[k])' <=> Minted(entry[k])
    BY <1>1 DEF Minted
  <2>2. QED
    BY <1>1, <2>1 DEF FeedInv, EntriesOK
<1>5. \A i \in 1..Len(feed') : Past(feed[i])'
  <2>1. SUFFICES ASSUME NEW i \in 1..Len(feed') PROVE Past(feed[i])'
    OBVIOUS
  <2>2. PICK c : c = feed[i] /\ Past(c)
    BY <1>1, <2>1 DEF FeedInv
  <2>3. Past(c)'
    BY <1>1, <2>2, PastStays
  <2>4. c = feed'[i]
    BY <1>1, <2>2
  <2>5. QED
    BY <2>3, <2>4
<1>6. QED
  BY <1>1, <1>2, <1>3, <1>4, <1>5 DEF FeedInv

(* Reading the version changes nothing but what there is to migrate from.  *)
LEMMA ReadKeeps == FeedInv /\ ReplicaInv /\ ReadVersion => FeedInv' /\ ReplicaInv'
<1> SUFFICES ASSUME FeedInv, ReplicaInv, ReadVersion PROVE FeedInv' /\ ReplicaInv'
  OBVIOUS
<1>1. /\ UNCHANGED feedVars /\ UNCHANGED <<mirror, ledger, mirrorFeed, applied>>
      /\ version' = version /\ reads' = reads \cup {version} /\ version # CurrentVersion
  BY DEF ReadVersion, allVars, mirrorVars
<1>2. reads' \subseteq 0 .. FeedVersion - 1
  BY <1>1 DEF FeedInv
<1>3. FeedInv' /\ feed' = feed /\ Here' = Here
  BY <1>1, <1>2, RowsStay
<1>4. QED
  BY <1>1, <1>3 DEF ReplicaInv

(* A delivery changes the replica only.                                    *)
LEMMA ReplicateKeeps == FeedInv /\ ReplicaInv /\ Replicate => FeedInv' /\ ReplicaInv'
<1> SUFFICES ASSUME FeedInv, ReplicaInv, Replicate PROVE FeedInv' /\ ReplicaInv'
  OBVIOUS
<1>1. version' = version /\ reads' = reads
  BY DEF Replicate
<1>2. PICK range \in Batches(applied, feed) : Deliver(range)
  BY DEF Replicate, DeliverSome
<1>3. UNCHANGED feedVars
  BY <1>2 DEF Deliver
<1>4. reads' \subseteq 0 .. FeedVersion - 1
  BY <1>1 DEF FeedInv
<1>5. FeedInv'
  BY <1>1, <1>3, <1>4, RowsStay
<1>6. ReplicaInv'
  BY <1>1, <1>2, DeliverKeeps
<1>7. QED
  BY <1>5, <1>6

(* A step that changes nothing keeps both.                                 *)
LEMMA StutterKeeps ==
    FeedInv /\ ReplicaInv /\ UNCHANGED migrationVars => FeedInv' /\ ReplicaInv'
<1> SUFFICES ASSUME FeedInv, ReplicaInv, UNCHANGED migrationVars PROVE FeedInv' /\ ReplicaInv'
  OBVIOUS
<1>1. /\ UNCHANGED feedVars /\ UNCHANGED <<mirror, ledger, mirrorFeed, applied>>
      /\ version' = version /\ reads' = reads
  BY DEF migrationVars, allVars, mirrorVars
<1>2. reads' \subseteq 0 .. FeedVersion - 1
  BY <1>1 DEF FeedInv
<1>3. FeedInv' /\ feed' = feed /\ Here' = Here
  BY <1>1, <1>2, RowsStay
<1>4. QED
  BY <1>1, <1>3 DEF ReplicaInv

(* Both invariants hold in every state of a store that is migrated, goes on*)
(* and is replicated.                                                      *)
LEMMA MigrationInv == MigrationSpec => [](FeedInv /\ ReplicaInv)
<1>1. MigrationInit => FeedInv /\ ReplicaInv
  BY MigrationStarts
<1>2. (FeedInv /\ ReplicaInv) /\ [MigrationNext]_migrationVars => (FeedInv /\ ReplicaInv)'
  <2> SUFFICES ASSUME FeedInv, ReplicaInv, [MigrationNext]_migrationVars
               PROVE  FeedInv' /\ ReplicaInv'
    OBVIOUS
  <2>1. CASE OlderRelease
    BY <2>1, OlderReleaseKeeps
  <2>2. CASE ReadVersion
    BY <2>2, ReadKeeps
  <2>3. ASSUME NEW v \in reads, Migrate(v) PROVE FeedInv' /\ ReplicaInv'
    BY <2>3, MigrateKeeps
  <2>4. CASE PresentRelease
    BY <2>4, PresentReleaseKeeps
  <2>5. CASE Replicate
    BY <2>5, ReplicateKeeps
  <2>6. CASE UNCHANGED migrationVars
    BY <2>6, StutterKeeps
  <2>7. QED
    BY <2>1, <2>2, <2>3, <2>4, <2>5, <2>6 DEF MigrationNext
<1>3. QED
  BY <1>1, <1>2, PTL DEF MigrationSpec

(* When a store has a feed it has been migrated.                           *)
LEMMA FeedIsMigrated == FeedInv /\ feed # <<>> => version = CurrentVersion
  BY VersionNumbers DEF FeedInv, Versions

(* A replica that was handed the whole feed, in batches of any size and as *)
(* often as the host liked, has the tables of the store: no operation      *)
(* leaves a row it changed out of its commit (the record builders of       *)
(* lifecycle.rs), apply writes the rows it is handed (apply_commit), and   *)
(* nothing that is delivered again takes it back.                          *)
THEOREM MirrorMeetsStore == MigrationSpec => []MirrorEqualsStore
<1>1. FeedInv /\ ReplicaInv => MirrorEqualsStore
  BY FeedIsMigrated DEF ReplicaInv, MirrorEqualsStore
<1>2. QED
  BY <1>1, MigrationInv, PTL

(* The replica's own feed is the part of the feed it applied: it           *)
(* re-exports every record once, with the commit it came in (apply_commit).*)
THEOREM ReplicaPassesOn == MigrationSpec => []ReplicaReexports
<1>1. ReplicaInv => ReplicaReexports
  BY DEF ReplicaInv, ReplicaReexports
<1>2. QED
  BY <1>1, MigrationInv, PTL

(* A replica accepts the whole feed at any time, so the host never has a   *)
(* batch it cannot get rid of (Refused: the errors of apply.rs).           *)
THEOREM FeedIsAccepted == MigrationSpec => []FeedIsNeverRefused
<1>1. ASSUME FeedInv, ReplicaInv PROVE FeedIsNeverRefused
  <2>1. /\ SoundLog(feed) /\ feed \in Seq(Commit) /\ Len(feed) \in Nat
        /\ applied \in 0..Len(feed) /\ ledger = SeenUpTo(feed, applied)
    BY <1>1 DEF FeedInv, SoundLog, ReplicaInv
  <2>2. PICK R : IsReplay(R, feed) /\ R[applied] = mirror
    BY <1>1 DEF ReplicaInv
  <2>3. 1 \in 1..applied + 1 /\ Len(feed) \in 0..Len(feed) /\ 1 <= Len(feed) + 1
    BY <2>1
  <2>4. SubSeq(feed, 1, Len(feed)) = feed
    BY <2>1, SubSeqFull
  <2>5. Apply(R[applied], SeenUpTo(feed, applied), SubSeq(feed, 1, Len(feed)))
          = Reached(R, feed, applied, Later(applied, Len(feed)))
    BY <2>1, <2>2, <2>3, ApplyFollows
  <2>6. Apply(mirror, ledger, feed) = Reached(R, feed, applied, Later(applied, Len(feed)))
    BY <2>1, <2>2, <2>4, <2>5
  <2>7. Reached(R, feed, applied, Later(applied, Len(feed))).ok
    BY DEF Reached
  <2>8. QED
    BY <2>6, <2>7 DEF FeedIsNeverRefused
<1>2. QED
  BY <1>1, MigrationInv, PTL

--------------------------------------------------------------------------------
(* A feed has one replay.                                                  *)
LEMMA OneReplay ==
    ASSUME NEW log \in Seq(Commit), NEW R, IsReplay(R, log), NEW Q, IsReplay(Q, log)
    PROVE  \A i \in 0..Len(log) : R[i] = Q[i]
<1> DEFINE T == {i \in Nat : i <= Len(log) => R[i] = Q[i]}
<1>1. 0 \in T
  BY DEF IsReplay
<1>2. ASSUME NEW i \in Nat, i \in T PROVE i + 1 \in T
  <2>1. SUFFICES ASSUME i + 1 <= Len(log) PROVE R[i + 1] = Q[i + 1]
    OBVIOUS
  <2>2. PICK j \in 1..Len(log) : j = i + 1 /\ j - 1 = i
    BY <2>1
  <2>3. R[j] = Materialized(R[j - 1], log[j]) /\ Q[j] = Materialized(Q[j - 1], log[j])
    BY DEF IsReplay
  <2>4. R[i] = Q[i]
    BY <1>2, <2>1
  <2>5. QED
    BY <2>2, <2>3, <2>4
<1> HIDE DEF T
<1>3. \A i \in Nat : i \in T
  BY <1>1, <1>2, InductiveSet
<1>4. QED
  BY <1>3 DEF T

(* On the replay of its feed the store is at the end, and the replica where*)
(* its cursor is.                                                          *)
OnReplay ==
    \A R : IsReplay(R, feed) => R[applied] = mirror /\ R[Len(feed)] = Published

(* They are where the invariants say.                                     *)
LEMMA OnTheReplay == FeedInv /\ ReplicaInv => OnReplay
<1> SUFFICES ASSUME FeedInv, ReplicaInv, NEW R, IsReplay(R, feed)
             PROVE  R[applied] = mirror /\ R[Len(feed)] = Published
  BY DEF OnReplay
<1>1. feed \in Seq(Commit) /\ Len(feed) \in Nat /\ applied \in 0..Len(feed)
  BY DEF FeedInv, SoundLog, ReplicaInv
<1>2. PICK Q : /\ IsReplay(Q, feed) /\ Q[applied] = mirror
               /\ version = CurrentVersion => Q[Len(feed)] = Here
  BY DEF ReplicaInv
<1>3. R[applied] = Q[applied] /\ R[Len(feed)] = Q[Len(feed)]
  BY <1>1, <1>2, OneReplay
<1>4. version # CurrentVersion => Len(feed) = 0 /\ R[0] = EmptyTables
  BY FeedIsMigrated DEF IsReplay
<1>5. QED
  BY <1>2, <1>3, <1>4 DEF Published

(* A step either appends one commit and leaves the replica alone, or takes *)
(* the replica forward and leaves the feed alone.                          *)
LEMMA FeedOrReplica ==
    ASSUME FeedInv, ReplicaInv, [MigrationNext]_migrationVars
    PROVE  \/ /\ \E new : feed' = Append(feed, new)
              /\ version' = CurrentVersion /\ UNCHANGED <<mirror, applied>>
           \/ feed' = feed /\ applied <= applied'
<1>1. /\ SoundLog(feed) /\ Len(feed) \in Nat /\ applied \in 0..Len(feed)
      /\ reads \subseteq 0 .. FeedVersion - 1
  BY DEF FeedInv, SoundLog, ReplicaInv
<1>2. applied <= applied
  BY <1>1
<1>3. CASE OlderRelease \/ ReadVersion \/ UNCHANGED migrationVars
  BY <1>2, <1>3 DEF OlderRelease, ReadVersion, migrationVars, allVars, feedVars, mirrorVars
<1>4. ASSUME NEW v \in reads, Migrate(v)
      PROVE  \/ \E new : feed' = Append(feed, new)
             \/ feed' = feed
  <2>1. CASE feed = <<>> /\ feed' = <<BootstrapRecords>>
    <3>1. feed' = Append(feed, BootstrapRecords)
      BY <2>1
    <3>2. QED
      BY <3>1
  <2>2. CASE feed' = feed
    BY <2>2
  <2>3. QED
    BY <1>4, <2>1, <2>2 DEF Migrate, Bootstrapped
<1>5. ASSUME NEW v \in reads, Migrate(v)
      PROVE  version' = CurrentVersion /\ UNCHANGED <<mirror, applied>>
  BY <1>5 DEF Migrate, mirrorVars
<1>6. ASSUME PresentRelease
      PROVE  /\ \E new : feed' = Append(feed, new)
             /\ version' = CurrentVersion /\ UNCHANGED <<mirror, applied>>
  <2>1. FeedNext /\ version' = CurrentVersion /\ UNCHANGED <<mirror, applied>>
    BY <1>6 DEF PresentRelease, Operate, mirrorVars
  <2>2. \E new : feed' = Append(feed, new)
    BY <2>1 DEF FeedNext, RememberC, RememberClaimC, CorrectC, DeleteSourceC, PromoteC, ArchiveC,
       LinkSupportC, LinkContradictionC, StoreProfileC, StoreReviewC, Publish
  <2>3. QED
    BY <2>1, <2>2
<1>7. ASSUME Replicate PROVE feed' = feed /\ applied <= applied'
  <2>1. PICK range \in Batches(applied, feed) : Deliver(range)
    BY <1>7 DEF Replicate, DeliverSome
  <2>2. feed' = feed /\ applied' = Further(applied, range)
    BY <2>1 DEF Deliver, feedVars
  <2>3. range[2] \in 1..Len(feed)
    BY <2>1 DEF Batches
  <2>4. QED
    BY <1>1, <2>2, <2>3 DEF Further
<1>8. QED
  BY <1>2, <1>3, <1>4, <1>5, <1>6, <1>7 DEF MigrationNext

(* The states the store has been in are those its feed replays to.         *)
TraceInv == \A R : IsReplay(R, feed) => history = [i \in 1..Len(feed) |-> R[i]]

(* A commit adds the state after it to both.                               *)
LEMMA TraceGrows ==
    ASSUME FeedInv, TraceInv, OnReplay',
           NEW new, feed' = Append(feed, new), history' = Append(history, Published')
    PROVE  TraceInv'
<1>1. SUFFICES ASSUME NEW R, IsReplay(R, feed') PROVE history' = [i \in 1..Len(feed') |-> R[i]]
  BY DEF TraceInv
<1>2. feed \in Seq(Commit) /\ Len(feed) \in Nat
  BY DEF FeedInv, SoundLog
<1>3. /\ Len(feed') = Len(feed) + 1 /\ feed'[Len(feed) + 1] = new
      /\ \A i \in 1..Len(feed) : feed'[i] = feed[i] /\ i \in 1..Len(feed')
  BY <1>2
<1>4. IsReplay(R, feed)
  BY <1>1, <1>3 DEF IsReplay
<1>5. history = [i \in 1..Len(feed) |-> R[i]]
  BY <1>4 DEF TraceInv
<1>6. Published' = R[Len(feed')]
  BY <1>1 DEF OnReplay
<1>7. Append([i \in 1..Len(feed) |-> R[i]], R[Len(feed) + 1])
        = [i \in 1..Len(feed) + 1 |-> R[i]]
  BY <1>2
<1>8. QED
  BY <1>3, <1>5, <1>6, <1>7

(* Every step of the store and the replica is one of the abstract follower,*)
(* or none.                                                                *)
LEMMA TracedStep ==
    ASSUME FeedInv, ReplicaInv, TraceInv, ReplicaInv', OnReplay', [TracedNext]_tracedVars
    PROVE  TraceInv' /\ [Store!Lead \/ Store!CatchUp]_(Store!followerVars)
<1>1. /\ [MigrationNext]_migrationVars
      /\ history' = IF feed' = feed THEN history ELSE Append(history, Here')
  BY DEF TracedNext, tracedVars, migrationVars, allVars, feedVars
<1>2. feed \in Seq(Commit) /\ Len(feed) \in Nat /\ applied \in 0..Len(feed)
      /\ applied' \in 0..Len(feed')
  BY DEF FeedInv, SoundLog, ReplicaInv
<1>3. ASSUME NEW new, feed' = Append(feed, new), version' = CurrentVersion,
             UNCHANGED <<mirror, applied>>
      PROVE  TraceInv' /\ Store!Lead
  <2>1. feed' # feed
    BY <1>2, <1>3
  <2>2. history' = Append(history, Published')
    BY <1>1, <1>3, <2>1 DEF Published
  <2>3. TraceInv'
    BY <1>3, <2>2, TraceGrows
  <2>4. QED
    BY <1>3, <2>2, <2>3 DEF Store!Lead
<1>4. ASSUME feed' = feed, applied <= applied'
      PROVE  TraceInv' /\ Store!CatchUp
  <2>1. history' = history
    BY <1>1, <1>4
  <2>2. TraceInv'
    BY <1>4, <2>1 DEF TraceInv
  <2>3. PICK R : IsReplay(R, feed)
    BY DEF ReplicaInv
  <2>4. Published = R[Len(feed)] /\ history = [i \in 1..Len(feed) |-> R[i]]
    BY <2>3, OnTheReplay DEF OnReplay, TraceInv
  <2>5. IsReplay(R, feed')
    BY <1>4, <2>3
  <2>6. Published' = R[Len(feed')] /\ mirror' = R[applied']
    BY <2>5 DEF OnReplay
  <2>7. Published' = Published
    BY <1>4, <2>4, <2>6
  <2>8. Len(history) = Len(feed)
    BY <1>2, <2>4
  <2>9. R[0] = EmptyTables /\ \A i \in 1..Len(feed) : history[i] = R[i]
    BY <2>3, <2>4 DEF IsReplay
  <2>10. mirror' = Store!Passed(applied')
    BY <1>2, <1>4, <2>6, <2>9 DEF Store!Passed
  <2>11. applied' \in applied .. Len(history)
    BY <1>2, <1>4, <2>8
  <2>12. Store!Passed(applied') = IF applied' = 0 THEN EmptyTables ELSE history[applied']
    BY DEF Store!Passed
  <2>13. QED
    BY <2>1, <2>2, <2>7, <2>10, <2>11, <2>12 DEF Store!CatchUp, Store!Passed
<1>5. QED
  BY <1>1, <1>3, <1>4, FeedOrReplica

(* A replica that is handed a store's feed, in any batches and with any    *)
(* redelivery, is at every moment in a state the store was in after one of *)
(* its commits, and only moves on to later ones: whoever reads it reads a  *)
(* past of the store, never a mixture (apply_commit in one transaction per *)
(* batch, its ledger, and the record builders of lifecycle.rs).            *)
THEOREM ReplicaFollowsTheStore == TracedSpec => FollowsTheStore
<1>1. TracedInit => FeedInv /\ ReplicaInv /\ TraceInv /\ Store!FollowerInit
  <2> SUFFICES ASSUME TracedInit
               PROVE  FeedInv /\ ReplicaInv /\ TraceInv /\ Store!FollowerInit
    OBVIOUS
  <2>1. FeedInv /\ ReplicaInv
    BY MigrationStarts DEF TracedInit
  <2>2. feed = <<>> /\ applied = 0 /\ history = <<>>
    BY DEF TracedInit, MigrationInit, ReplicationInit, FeedInit
  <2>3. PICK R : IsReplay(R, feed)
    BY <2>1 DEF ReplicaInv
  <2>4. mirror = EmptyTables /\ Published = EmptyTables
    <3>1. Len(feed) = 0
      BY <2>2
    <3>2. QED
      BY <2>1, <2>2, <2>3, <3>1, OnTheReplay DEF OnReplay, IsReplay
  <2>5. TraceInv
    <3>1. \A Q : [i \in 1..Len(feed) |-> Q[i]] = <<>>
      BY <2>2
    <3>2. QED
      BY <2>2, <3>1 DEF TraceInv
  <2>6. QED
    BY <2>1, <2>2, <2>4, <2>5 DEF Store!FollowerInit
<1>2. [TracedNext]_tracedVars => [MigrationNext]_migrationVars
  BY DEF TracedNext, tracedVars
<1>3. TracedSpec => [](FeedInv /\ ReplicaInv /\ OnReplay)
  <2>1. TracedSpec => MigrationSpec
    BY <1>2, PTL DEF TracedSpec, TracedInit, MigrationSpec
  <2>2. QED
    BY <2>1, MigrationInv, OnTheReplay, PTL
<1>4. /\ FeedInv /\ ReplicaInv /\ TraceInv /\ (ReplicaInv /\ OnReplay)' /\ [TracedNext]_tracedVars
      => TraceInv' /\ [Store!Lead \/ Store!CatchUp]_(Store!followerVars)
  BY TracedStep
<1>5. QED
  BY <1>1, <1>3, <1>4, PTL DEF TracedSpec, FollowsTheStore, Store!FollowerSpec

--------------------------------------------------------------------------------
(* A record that is in some commit of a sound feed is in exactly one.      *)
LEMMA OneCommitHasIt ==
    ASSUME SoundLog(feed), NEW kind \in Kinds, NEW record,
           \E i \in 1..Len(feed) : record \in feed[i][kind]
    PROVE  Cardinality(CommitsWith(kind, record)) = 1
<1>1. PICK i \in 1..Len(feed) : record \in feed[i][kind]
  OBVIOUS
<1>2. Len(feed) \in Nat /\ DOMAIN feed = 1..Len(feed)
  BY DEF SoundLog
<1>3. ASSUME NEW j \in 1..Len(feed), record \in feed[j][kind] PROVE j = i
  <2>1. ~(i < j)
    BY <1>1, <1>3 DEF SoundLog, Disjoint
  <2>2. ~(j < i)
    BY <1>1, <1>3 DEF SoundLog, Disjoint
  <2>3. QED
    BY <1>2, <2>1, <2>2
<1>4. CommitsWith(kind, record) = {i}
  BY <1>1, <1>2, <1>3 DEF CommitsWith
<1>5. QED
  BY <1>4, FS_Singleton

(* What LastNaming finds.                                                  *)
LEMMA LastNamingFinds ==
    ASSUME SoundLog(feed), NEW kind, NEW id, NEW i, LastToName(feed, kind, id, i)
    PROVE  LastNaming(kind, id) = {r \in feed[i][kind] : r.id = id}
<1> DEFINE named == {j \in DOMAIN feed : id \in Ids(feed[j][kind])}
<1>1. Len(feed) \in Nat /\ DOMAIN feed = 1..Len(feed)
  BY DEF SoundLog
<1>2. i \in named /\ \A j \in named : j \in Nat /\ i >= j
  <2>1. i \in named
    BY <1>1 DEF LastToName
  <2>2. ASSUME NEW j \in named PROVE j \in Nat /\ i >= j
    BY <1>1 DEF LastToName
  <2>3. QED
    BY <2>1, <2>2
<1> HIDE DEF named
<1>3. \A x \in named : (\A y \in named : x >= y) => x = i
  BY <1>2
<1>4. Max(named) = i
  BY <1>2, <1>3 DEF Max
<1>5. named # {}
  BY <1>2
<1>6. QED
  BY <1>4, <1>5 DEF LastNaming, named

(* The feed of a migrated store has every link and review in exactly one   *)
(* commit, and the last commit that names a source or a claim has the row  *)
(* as it is, whatever the migration found and however many processes ran it*)
(* (bootstrap_records in schema.rs, the record builders of lifecycle.rs).  *)
THEOREM RowsArePublishedOnce == MigrationSpec => []EveryRowPublishedOnce
<1>1. ASSUME FeedInv PROVE EveryRowPublishedOnce
  <2> SUFFICES ASSUME version = CurrentVersion
               PROVE
        /\ \A c, e \in Source :
              /\ e \in supports[c] =>
                    Cardinality(CommitsWith("links", LinkRecord(c, e, "supports"))) = 1
              /\ e \in contradicts[c] =>
                    Cardinality(CommitsWith("links", LinkRecord(c, e, "contradicts"))) = 1
        /\ \A r \in Review : review[r] # {} =>
              Cardinality(CommitsWith("reviews", [id |-> r, cited |-> review[r]])) = 1
        /\ \A s \in Source :
              /\ source[s] # "absent" =>
                    {r.state : r \in LastNaming("sources", s)} = {source[s]}
              /\ claim[s].status # "none" =>
                    {r.row : r \in LastNaming("claims", s)} = {claim[s]}
    BY DEF EveryRowPublishedOnce
  <2>1. SoundLog(feed) /\ Told(Here, feed) /\ "links" \in Kinds /\ "reviews" \in Kinds
    BY <1>1 DEF FeedInv, Kinds
  <2>2. ASSUME NEW c \in Source, NEW e \in Source
        PROVE  /\ e \in supports[c] =>
                    Cardinality(CommitsWith("links", LinkRecord(c, e, "supports"))) = 1
               /\ e \in contradicts[c] =>
                    Cardinality(CommitsWith("links", LinkRecord(c, e, "contradicts"))) = 1
    <3>1. /\ e \in supports[c] =>
                \E i \in 1..Len(feed) : LinkRecord(c, e, "supports") \in feed[i]["links"]
          /\ e \in contradicts[c] =>
                \E i \in 1..Len(feed) : LinkRecord(c, e, "contradicts") \in feed[i]["links"]
      BY <2>1, HereFields DEF Told
    <3>2. QED
      BY <2>1, <3>1, OneCommitHasIt
  <2>3. ASSUME NEW r \in Review, review[r] # {}
        PROVE  Cardinality(CommitsWith("reviews", [id |-> r, cited |-> review[r]])) = 1
    <3>1. \E i \in 1..Len(feed) : [id |-> r, cited |-> review[r]] \in feed[i]["reviews"]
      BY <2>1, <2>3, HereFields DEF Told
    <3>2. QED
      BY <2>1, <3>1, OneCommitHasIt
  <2>4. ASSUME NEW s \in Source, source[s] # "absent"
        PROVE  {r.state : r \in LastNaming("sources", s)} = {source[s]}
    <3>1. PICK i : /\ LastToName(feed, "sources", s, i)
                   /\ \A r \in feed[i].sources : r.id = s => r.state = source[s]
      BY <2>1, <2>4, HereFields DEF Told
    <3>2. LastNaming("sources", s) = {r \in feed[i].sources : r.id = s}
      BY <2>1, <3>1, LastNamingFinds
    <3>3. PICK r \in feed[i].sources : r.id = s
      BY <3>1 DEF LastToName, Ids
    <3>4. QED
      BY <3>1, <3>2, <3>3
  <2>5. ASSUME NEW c \in Source, claim[c].status # "none"
        PROVE  {r.row : r \in LastNaming("claims", c)} = {claim[c]}
    <3>1. PICK i : /\ LastToName(feed, "claims", c, i)
                   /\ \A r \in feed[i].claims : r.id = c => r.row = claim[c]
      BY <2>1, <2>5, HereFields DEF Told
    <3>2. LastNaming("claims", c) = {r \in feed[i].claims : r.id = c}
      BY <2>1, <3>1, LastNamingFinds
    <3>3. PICK r \in feed[i].claims : r.id = c
      BY <3>1 DEF LastToName, Ids
    <3>4. QED
      BY <3>1, <3>2, <3>3
  <2>6. QED
    BY <2>2, <2>3, <2>4, <2>5
<1>2. QED
  BY <1>1, MigrationInv, PTL

--------------------------------------------------------------------------------
(* The ids a store has given away.                                         *)
Present == {s \in Source : source[s] # "absent"}
Profiled == {k \in Key : profile[k] # NoClaim}
Reviewed == {r \in Review : review[r] # {}}

(* However many ids there are to give, a store has finitely many rows.     *)
FiniteRows == IsFiniteSet(Present) /\ IsFiniteSet(Profiled) /\ IsFiniteSet(Reviewed)

FiniteCommit(c) == \A kind \in Kinds : IsFiniteSet(c[kind])

(* A set whose elements are values of a function on a finite set is finite.*)
LEMMA FiniteImage ==
    ASSUME NEW S, IsFiniteSet(S), NEW f, DOMAIN f = S, f = [x \in S |-> f[x]],
           NEW T, \A y \in T : \E x \in S : y = f[x]
    PROVE  IsFiniteSet(T)
<1> DEFINE I == {f[x] : x \in S}
<1>1. f \in Surjection(S, I)
  BY DEF Surjection
<1>2. IsFiniteSet(I)
  BY <1>1, FS_Surjection
<1>3. T \in SUBSET I
  OBVIOUS
<1>4. QED
  BY <1>2, <1>3, FS_Subset

(* A set that gained at most one element, or lost some, is still finite.   *)
LEMMA OneMoreIsFinite ==
    ASSUME NEW S, IsFiniteSet(S), NEW T, \E x : T \subseteq S \cup {x}
    PROVE  IsFiniteSet(T)
<1>1. PICK x : T \subseteq S \cup {x}
  OBVIOUS
<1>2. IsFiniteSet(S \cup {x})
  BY FS_AddElement
<1>3. T \in SUBSET (S \cup {x})
  BY <1>1
<1>4. QED
  BY <1>2, <1>3, FS_Subset

(* An operation adds at most one id of each kind.                          *)
LEMMA FiniteRowsStep == RowsOK /\ FiniteRows /\ [Next]_vars => FiniteRows'
<1> SUFFICES ASSUME RowsOK, FiniteRows, [Next]_vars PROVE FiniteRows'
  OBVIOUS
<1>0. TypeOK
  BY DEF RowsOK
<1> DEFINE Goal == /\ \E x : Present' \subseteq Present \cup {x}
                   /\ \E x : Profiled' \subseteq Profiled \cup {x}
                   /\ \E x : Reviewed' \subseteq Reviewed \cup {x}
<1>1. ASSUME NEW gone, DropProfilesOf(gone) PROVE Profiled' \subseteq Profiled
  BY <1>1 DEF DropProfilesOf, Profiled
<1>2. ASSUME NEW s \in Source, NEW v, NEW t, InsertSource(s, v, t)
      PROVE  Present' \subseteq Present \cup {s}
  BY <1>0, <1>2 DEF InsertSource, Present, TypeOK
<1>3. ASSUME NEW s \in Source, NEW v \in ValidTime, NEW t \in RecordTime,
             \/ Remember(s, v, t)
             \/ \E input \in ClaimInput : RememberClaim(s, v, t, input)
             \/ \E old \in Source : Correct(old, s, v, t)
      PROVE  Goal
  <2>1. InsertSource(s, v, t) /\ review' = review
    BY <1>3 DEF Remember, RememberClaim, Correct
  <2>2. profile' = profile \/ \E old : DropProfilesOf({old})
    BY <1>3 DEF Remember, RememberClaim, Correct
  <2>3. Present' \subseteq Present \cup {s}
    BY <1>2, <2>1
  <2>4. Profiled' \subseteq Profiled /\ Reviewed' \subseteq Reviewed
    BY <1>1, <2>1, <2>2 DEF Profiled, Reviewed
  <2>5. QED
    BY <2>3, <2>4
<1>4. ASSUME NEW s \in Source, NEW t \in RecordTime, DeleteSource(s, t)
      PROVE  Goal
  <2>1. Present' \subseteq Present
    BY <1>0, <1>4 DEF DeleteSource, Present, TypeOK
  <2>2. Profiled' \subseteq Profiled
    BY <1>1, <1>4 DEF DeleteSource
  <2>3. Reviewed' \subseteq Reviewed
    BY <1>4 DEF DeleteSource, ReviewsWithout, Reviewed
  <2>4. QED
    BY <2>1, <2>2, <2>3
<1>5. ASSUME NEW c \in Source, NEW t \in RecordTime, StoreProfile(c, t)
      PROVE  Goal
  <2>1. Profiled' \subseteq Profiled \cup {claim[c].key}
    BY <1>0, <1>5 DEF StoreProfile, Profiled, TypeOK
  <2>2. Present' \subseteq Present /\ Reviewed' \subseteq Reviewed
    BY <1>5 DEF StoreProfile, Present, Reviewed
  <2>3. QED
    BY <2>1, <2>2
<1>6. ASSUME NEW r \in Review, NEW cited \in SUBSET Source, StoreReview(r, cited)
      PROVE  Goal
  <2>1. Reviewed' \subseteq Reviewed \cup {r}
    BY <1>0, <1>6 DEF StoreReview, Reviewed, TypeOK
  <2>2. Present' \subseteq Present /\ Profiled' \subseteq Profiled
    BY <1>6 DEF StoreReview, Present, Profiled
  <2>3. QED
    BY <2>1, <2>2
<1>7. ASSUME UNCHANGED <<source, profile, review>> PROVE Goal
  <2>1. Present' = Present /\ Profiled' = Profiled /\ Reviewed' = Reviewed
    BY <1>7 DEF Present, Profiled, Reviewed
  <2>2. QED
    BY <2>1
<1>8. Goal
  <2>1. \A c, e \in Source : LinkSupport(c, e) \/ LinkContradiction(c, e) =>
           UNCHANGED <<source, profile, review>>
    BY DEF LinkSupport, LinkContradiction
  <2>2. \A s, t : Promote(s, t) \/ Archive(s, t) => UNCHANGED <<source, profile, review>>
    BY DEF Promote, Archive
  <2>3. UNCHANGED vars => UNCHANGED <<source, profile, review>>
    BY DEF vars
  <2> HIDE DEF Goal
  <2>4. QED
    BY <1>3, <1>4, <1>5, <1>6, <1>7, <2>1, <2>2, <2>3 DEF Next
<1>9. QED
  BY <1>8, OneMoreIsFinite DEF FiniteRows

(* So the commit of an operation is finite.                                *)
LEMMA WrittenIsFinite ==
    ASSUME RowsOK', EntriesOK, FiniteRows, FiniteRows', NEW new, Writes(new)
    PROVE  FiniteCommit(new)
<1>1. new \in Commit
  BY DEF Writes
<1>2. IsFiniteSet(Present') /\ IsFiniteSet(Profiled) /\ IsFiniteSet(Profiled')
      /\ IsFiniteSet(Reviewed) /\ IsFiniteSet(Reviewed')
  BY DEF FiniteRows
<1>3. /\ \A c \in Source : claim'[c].status # "none" => c \in Present'
      /\ \A s \in Source : source'[s] # "absent" => s \in Present'
  BY DEF RowsOK, AbsentIdsAreUnused, Present
<1>4. IsFiniteSet(new.sources)
  <2> DEFINE f == [s \in Present' |-> SourceRecord(s)]
  <2>1. \A r \in new.sources : r.id \in Source /\ r = SourceRecord(r.id)
                               /\ source'[r.id] # "absent"
    BY <1>1 DEF Writes, WritesSources, Commit
  <2>2. \A r \in new.sources : \E s \in Present' : r = f[s]
    BY <1>3, <2>1
  <2>3. DOMAIN f = Present' /\ f = [s \in Present' |-> f[s]]
    OBVIOUS
  <2> HIDE DEF f
  <2>4. QED
    BY <1>2, <2>2, <2>3, FiniteImage
<1>5. IsFiniteSet(new.claims)
  <2> DEFINE f == [c \in Present' |-> ClaimRecord(c)]
  <2>1. \A r \in new.claims : r.id \in Source /\ r = ClaimRecord(r.id)
                              /\ claim'[r.id].status # "none"
    BY <1>1 DEF Writes, WritesClaims, WritesRows, Commit
  <2>2. \A r \in new.claims : \E c \in Present' : r = f[c]
    BY <1>3, <2>1
  <2>3. DOMAIN f = Present' /\ f = [c \in Present' |-> f[c]]
    OBVIOUS
  <2> HIDE DEF f
  <2>4. QED
    BY <1>2, <2>2, <2>3, FiniteImage
<1>6. IsFiniteSet(new.links)
  <2> DEFINE Ends == (Present' \X Present') \X {"supports", "contradicts"}
             f == [x \in Ends |-> [claim |-> x[1][1], evidence |-> x[1][2], relation |-> x[2]]]
  <2>1. IsFiniteSet({"supports", "contradicts"})
    <3>1. IsFiniteSet({"supports"})
      BY FS_Singleton
    <3>2. IsFiniteSet({"supports"} \cup {"contradicts"})
      BY <3>1, FS_AddElement
    <3>3. {"supports", "contradicts"} = {"supports"} \cup {"contradicts"}
      OBVIOUS
    <3>4. QED
      BY <3>2, <3>3
  <2>2. IsFiniteSet(Present' \X Present')
    BY <1>2, FS_Product
  <2>3. IsFiniteSet(Ends)
    BY <2>1, <2>2, FS_Product
  <2>4. ASSUME NEW l \in new.links PROVE \E x \in Ends : l = f[x]
    <3>1. /\ l \in [claim : Source, evidence : Source, relation : {"supports", "contradicts"}]
          /\ claim'[l.claim].status # "none" /\ source'[l.evidence] # "absent"
      BY <1>1 DEF Writes, WritesLinks, Commit
    <3>2. <<<<l.claim, l.evidence>>, l.relation>> \in Ends
      BY <1>3, <3>1
    <3>3. l = [claim |-> l.claim, evidence |-> l.evidence, relation |-> l.relation]
      BY <3>1
    <3>4. l = f[<<<<l.claim, l.evidence>>, l.relation>>]
      BY <3>2, <3>3
    <3>5. QED
      BY <3>2, <3>4
  <2>5. DOMAIN f = Ends /\ f = [x \in Ends |-> f[x]]
    OBVIOUS
  <2> HIDE DEF f, Ends
  <2>6. QED
    BY <2>3, <2>4, <2>5, FiniteImage
<1>7. IsFiniteSet(new.corrections)
  <2> DEFINE f == [c \in Present' |-> [claim |-> c, old |-> corrects'[c]]]
  <2>1. \A x \in new.corrections : /\ x.claim \in Source /\ claim'[x.claim].status # "none"
                                   /\ x = [claim |-> x.claim, old |-> corrects'[x.claim]]
    <3>1. \A x \in new.corrections : x = [claim |-> x.claim, old |-> x.old] /\ x.claim \in Source
      BY <1>1 DEF Commit
    <3>2. QED
      BY <3>1 DEF Writes, WritesClaims
  <2>2. \A x \in new.corrections : \E c \in Present' : x = f[c]
    BY <1>3, <2>1
  <2>3. DOMAIN f = Present' /\ f = [c \in Present' |-> f[c]]
    OBVIOUS
  <2> HIDE DEF f
  <2>4. QED
    BY <1>2, <2>2, <2>3, FiniteImage
<1>8. IsFiniteSet(new.profiles)
  <2> DEFINE f == [k \in Profiled' |-> [id |-> entry'[k], key |-> k, claim |-> profile'[k],
                                        at |-> profileAt'[k]]]
  <2>1. \A p \in new.profiles :
           /\ p.key \in Key /\ profile'[p.key] # NoClaim
           /\ p = [id |-> entry'[p.key], key |-> p.key, claim |-> profile'[p.key],
                   at |-> profileAt'[p.key]]
    BY <1>1 DEF Writes, WritesProfiles, Commit
  <2>2. \A p \in new.profiles : \E k \in Profiled' : p = f[k]
    BY <2>1 DEF Profiled
  <2>3. DOMAIN f = Profiled' /\ f = [k \in Profiled' |-> f[k]]
    OBVIOUS
  <2> HIDE DEF f
  <2>4. QED
    BY <1>2, <2>2, <2>3, FiniteImage
<1>9. IsFiniteSet(new.reviews)
  <2> DEFINE f == [r \in Reviewed' |-> [id |-> r, cited |-> review'[r]]]
  <2>1. \A x \in new.reviews : /\ x.id \in Review /\ review'[x.id] # {}
                               /\ x = [id |-> x.id, cited |-> review'[x.id]]
    <3>1. \A x \in new.reviews : x = [id |-> x.id, cited |-> x.cited] /\ x.id \in Review
      BY <1>1 DEF Commit
    <3>2. QED
      BY <3>1 DEF Writes, WritesReviews
  <2>2. \A x \in new.reviews : \E r \in Reviewed' : x = f[r]
    BY <2>1 DEF Reviewed
  <2>3. DOMAIN f = Reviewed' /\ f = [r \in Reviewed' |-> f[r]]
    OBVIOUS
  <2> HIDE DEF f
  <2>4. QED
    BY <1>2, <2>2, <2>3, FiniteImage
<1>10. IsFiniteSet(new.deletedSources)
  <2>1. \A s \in new.deletedSources : s \in Source /\ source'[s] # "absent"
    BY <1>1 DEF Writes, WritesSources, Commit
  <2>2. new.deletedSources \in SUBSET Present'
    BY <1>3, <2>1
  <2>3. QED
    BY <1>2, <2>2, FS_Subset
<1>11. IsFiniteSet(new.deletedEntries)
  <2> DEFINE f == [k \in Profiled |-> entry[k]]
  <2>1. \A d \in new.deletedEntries : \E k \in Profiled : d = f[k]
    BY DEF Writes, WritesProfiles, EntriesOK, Profiled
  <2>2. DOMAIN f = Profiled /\ f = [k \in Profiled |-> f[k]]
    OBVIOUS
  <2> HIDE DEF f
  <2>3. QED
    BY <1>2, <2>1, <2>2, FiniteImage
<1>12. IsFiniteSet(new.deletedReviews)
  <2>1. new.deletedReviews \in SUBSET Reviewed
    BY <1>1 DEF Writes, WritesReviews, Commit, Reviewed
  <2>2. QED
    BY <1>2, <2>1, FS_Subset
<1>13. QED
  BY <1>4, <1>5, <1>6, <1>7, <1>8, <1>9, <1>10, <1>11, <1>12 DEF FiniteCommit, Kinds

(* So is the commit of a migration.                                        *)
LEMMA BootstrapIsFinite ==
    ASSUME RowsOK, FiniteRows
    PROVE  FiniteCommit(BootstrapRecords)
<1>1. IsFiniteSet(Present) /\ IsFiniteSet(Profiled) /\ IsFiniteSet(Reviewed)
  BY DEF FiniteRows
<1>2. /\ \A c \in Source : claim[c].status # "none" => c \in Present
      /\ \A c, e \in Source : e \in supports[c] \cup contradicts[c] => c \in Present /\ e \in Present
  BY DEF RowsOK, AbsentIdsAreUnused, Cites, Present
<1> DEFINE Sources == {SourceRecord(s) : s \in {x \in Source : source[x] # "absent"}}
           Claims == {ClaimRecord(c) : c \in {x \in Source : claim[x].status # "none"}}
           Links(of, relation) == {LinkRecord(l[1], l[2], relation) :
                                     l \in {x \in Source \X Source : x[2] \in of[x[1]]}}
           Profiles == {[id |-> entry[k], key |-> k, claim |-> profile[k], at |-> profileAt[k]] :
                           k \in {x \in Key : profile[x] # NoClaim}}
           Reviews == {[id |-> r, cited |-> review[r]] : r \in {x \in Review : review[x] # {}}}
<1>3. IsFiniteSet(Sources)
  <2> DEFINE f == [s \in Present |-> SourceRecord(s)]
  <2>1. \A r \in Sources : \E s \in Present : r = f[s]
    BY DEF Present
  <2>2. DOMAIN f = Present /\ f = [s \in Present |-> f[s]]
    OBVIOUS
  <2> HIDE DEF f, Sources
  <2>3. QED
    BY <1>1, <2>1, <2>2, FiniteImage
<1>4. IsFiniteSet(Claims)
  <2> DEFINE f == [c \in Present |-> ClaimRecord(c)]
  <2>1. \A r \in Claims : \E c \in Present : r = f[c]
    BY <1>2
  <2>2. DOMAIN f = Present /\ f = [c \in Present |-> f[c]]
    OBVIOUS
  <2> HIDE DEF f, Claims
  <2>3. QED
    BY <1>1, <2>1, <2>2, FiniteImage
<1>5. ASSUME NEW of, NEW relation,
             \A c, e \in Source : e \in of[c] => c \in Present /\ e \in Present
      PROVE  IsFiniteSet(Links(of, relation))
  <2> DEFINE Ends == Present \X Present
             f == [x \in Ends |-> LinkRecord(x[1], x[2], relation)]
  <2>1. IsFiniteSet(Ends)
    BY <1>1, FS_Product
  <2>2. \A l \in Links(of, relation) : \E x \in Ends : l = f[x]
    <3>1. ASSUME NEW x \in Source \X Source, x[2] \in of[x[1]]
          PROVE  x \in Ends /\ LinkRecord(x[1], x[2], relation) = f[x]
      <4>1. x[1] \in Present /\ x[2] \in Present
        BY <1>5, <3>1
      <4>2. QED
        BY <3>1, <4>1
    <3> HIDE DEF f, Ends
    <3>2. QED
      BY <3>1
  <2>3. DOMAIN f = Ends /\ f = [x \in Ends |-> f[x]]
    OBVIOUS
  <2> HIDE DEF f, Ends, Links
  <2>4. QED
    BY <2>1, <2>2, <2>3, FiniteImage
<1>6. IsFiniteSet(Links(supports, "supports") \cup Links(contradicts, "contradicts"))
  <2>1. \A c, e \in Source : e \in supports[c] => c \in Present /\ e \in Present
    BY <1>2
  <2>2. \A c, e \in Source : e \in contradicts[c] => c \in Present /\ e \in Present
    BY <1>2
  <2> HIDE DEF Links
  <2>3. IsFiniteSet(Links(supports, "supports"))
    BY <1>5, <2>1
  <2>4. IsFiniteSet(Links(contradicts, "contradicts"))
    BY <1>5, <2>2
  <2>5. QED
    BY <2>3, <2>4, FS_Union
<1>7. IsFiniteSet(Profiles)
  <2> DEFINE f == [k \in Profiled |-> [id |-> entry[k], key |-> k, claim |-> profile[k],
                                       at |-> profileAt[k]]]
  <2>1. \A p \in Profiles : \E k \in Profiled : p = f[k]
    BY DEF Profiled
  <2>2. DOMAIN f = Profiled /\ f = [k \in Profiled |-> f[k]]
    OBVIOUS
  <2> HIDE DEF f, Profiles
  <2>3. QED
    BY <1>1, <2>1, <2>2, FiniteImage
<1>8. IsFiniteSet(Reviews)
  <2> DEFINE f == [r \in Reviewed |-> [id |-> r, cited |-> review[r]]]
  <2>1. \A x \in Reviews : \E r \in Reviewed : x = f[r]
    BY DEF Reviewed
  <2>2. DOMAIN f = Reviewed /\ f = [r \in Reviewed |-> f[r]]
    OBVIOUS
  <2> HIDE DEF f, Reviews
  <2>3. QED
    BY <1>1, <2>1, <2>2, FiniteImage
<1>9. BootstrapRecords = [NoRecords EXCEPT !.sources = Sources, !.claims = Claims,
          !.links = Links(supports, "supports") \cup Links(contradicts, "contradicts"),
          !.profiles = Profiles, !.reviews = Reviews]
  BY Zenon DEF BootstrapRecords
<1> DEFINE AllLinks == Links(supports, "supports") \cup Links(contradicts, "contradicts")
<1> HIDE DEF Sources, Claims, Links, Profiles, Reviews, AllLinks
<1>10. PICK c : c = BootstrapRecords
  OBVIOUS
<1>11. c = [NoRecords EXCEPT !.sources = Sources, !.claims = Claims, !.links = AllLinks,
                             !.profiles = Profiles, !.reviews = Reviews]
  BY <1>9, <1>10 DEF AllLinks
<1>12. /\ c["sources"] = Sources /\ c["claims"] = Claims /\ c["links"] = AllLinks
       /\ c["profiles"] = Profiles /\ c["reviews"] = Reviews /\ c["corrections"] = {}
       /\ c["deletedSources"] = {} /\ c["deletedEntries"] = {} /\ c["deletedReviews"] = {}
  BY <1>11 DEF NoRecords
<1>13. IsFiniteSet(AllLinks) /\ IsFiniteSet({})
  BY <1>6, FS_EmptySet DEF AllLinks
<1>14. FiniteCommit(c)
  BY <1>3, <1>4, <1>7, <1>8, <1>12, <1>13 DEF FiniteCommit, Kinds
<1>15. QED
  BY <1>10, <1>14

(* A feed of finite commits.                                               *)
FiniteInv == FiniteRows /\ \A i \in 1..Len(feed) : FiniteCommit(feed[i])

(* A feed of finite commits, with one more.                                *)
LEMMA FiniteFeedGrows ==
    ASSUME feed \in Seq(Commit), \A i \in 1..Len(feed) : FiniteCommit(feed[i]),
           NEW new, FiniteCommit(new), feed' = Append(feed, new)
    PROVE  \A i \in 1..Len(feed') : FiniteCommit(feed'[i])
<1>1. /\ Len(feed') = Len(feed) + 1 /\ feed'[Len(feed) + 1] = new
      /\ \A i \in 1..Len(feed') : i = Len(feed) + 1 \/ (i \in 1..Len(feed) /\ feed'[i] = feed[i])
  OBVIOUS
<1>2. ASSUME NEW i \in 1..Len(feed') PROVE FiniteCommit(feed'[i])
  <2>1. CASE i = Len(feed) + 1
    BY <1>1, <2>1
  <2>2. CASE i \in 1..Len(feed) /\ feed'[i] = feed[i]
    BY <2>2
  <2>3. QED
    BY <1>1, <2>1, <2>2
<1>3. QED
  BY <1>2

(* At no time does a store have infinitely many rows, or publish a commit  *)
(* that has.                                                               *)
LEMMA FeedIsFinite == MigrationSpec => [](FeedInv /\ FiniteInv)
<1>1. MigrationInit => FiniteInv
  <2> SUFFICES ASSUME MigrationInit PROVE FiniteInv
    OBVIOUS
  <2>1. Init /\ feed = <<>>
    BY DEF MigrationInit, ReplicationInit, FeedInit
  <2>2. Present = {} /\ Profiled = {} /\ Reviewed = {}
    BY <2>1 DEF Init, Present, Profiled, Reviewed
  <2>3. QED
    BY <2>1, <2>2, FS_EmptySet DEF FiniteInv, FiniteRows
<1>2. FeedInv /\ FeedInv' /\ FiniteInv /\ [MigrationNext]_migrationVars => FiniteInv'
  <2> SUFFICES ASSUME FeedInv, FeedInv', FiniteInv, [MigrationNext]_migrationVars
               PROVE  FiniteInv'
    OBVIOUS
  <2>1. RowsOK /\ RowsOK' /\ EntriesOK /\ feed \in Seq(Commit) /\ FiniteRows
        /\ \A i \in 1..Len(feed) : FiniteCommit(feed[i])
    BY DEF FeedInv, SoundLog, FiniteInv
  <2>2. CASE [Next]_vars /\ UNCHANGED feed
    <3>1. FiniteRows'
      BY <2>1, <2>2, FiniteRowsStep
    <3>2. QED
      BY <2>1, <2>2, <3>1 DEF FiniteInv
  <2>3. ASSUME NEW v \in reads, Migrate(v) PROVE FiniteInv'
    <3>1. UNCHANGED <<source, profile, review>>
      BY <2>3 DEF Migrate
    <3>2. Present' = Present /\ Profiled' = Profiled /\ Reviewed' = Reviewed
      BY <3>1 DEF Present, Profiled, Reviewed
    <3>3. FiniteRows'
      BY <2>1, <3>2 DEF FiniteRows
    <3>4. PICK new : new = BootstrapRecords
      OBVIOUS
    <3>5. FiniteCommit(new)
      BY <2>1, <3>4, BootstrapIsFinite
    <3>6. feed' = feed \/ feed' = Append(feed, new)
      BY <2>3, <3>4 DEF Migrate, Bootstrapped
    <3>7. \A i \in 1..Len(feed') : FiniteCommit(feed'[i])
      BY <2>1, <3>5, <3>6, FiniteFeedGrows
    <3>8. QED
      BY <3>3, <3>7 DEF FiniteInv
  <2>4. CASE PresentRelease
    <3>1. FeedNext
      BY <2>4 DEF PresentRelease, Operate
    <3>2. entry' \in [Key -> Nat] /\ \E new : Writes(new)
      BY <2>1, <3>1, OperationWrites
    <3>3. PICK new : Writes(new)
      BY <3>2
    <3>4. FiniteRows'
      BY <2>1, <3>1, OperationIsNext, FiniteRowsStep
    <3>5. FiniteCommit(new)
      BY <2>1, <3>3, <3>4, WrittenIsFinite
    <3>6. \A i \in 1..Len(feed') : FiniteCommit(feed'[i])
      BY <2>1, <3>3, <3>5, FiniteFeedGrows DEF Writes
    <3>7. QED
      BY <3>4, <3>6 DEF FiniteInv
  <2>5. OlderRelease => Next /\ UNCHANGED feed
    BY DEF OlderRelease
  <2>6. ReadVersion \/ Replicate \/ UNCHANGED migrationVars => UNCHANGED <<vars, feed>>
    BY DEF ReadVersion, Replicate, DeliverSome, Deliver, migrationVars, allVars, feedVars
  <2>7. QED
    BY <2>2, <2>3, <2>4, <2>5, <2>6 DEF MigrationNext
<1>3. QED
  BY <1>1, <1>2, MigrationInv, PTL DEF MigrationSpec

--------------------------------------------------------------------------------
(* A commit that is not empty has an event at least.                       *)
LEMMA CommitHasEvents ==
    ASSUME NEW c, c \in Commit, FiniteCommit(c), c # NoRecords
    PROVE  EventCount(c) \in Nat \ {0}
<1>1. \A kind \in Kinds : Cardinality(c[kind]) \in Nat /\ (Cardinality(c[kind]) = 0 <=> c[kind] = {})
  <2>1. SUFFICES ASSUME NEW kind \in Kinds
                 PROVE  Cardinality(c[kind]) \in Nat /\ (Cardinality(c[kind]) = 0 <=> c[kind] = {})
    OBVIOUS
  <2>2. IsFiniteSet(c[kind])
    BY DEF FiniteCommit
  <2>3. QED
    BY <2>2, FS_CardinalityType, FS_EmptySet
<1>2. PICK kind \in Kinds : c[kind] # {}
  <2>1. c = [kind \in Kinds |-> c[kind]] /\ NoRecords = [kind \in Kinds |-> {}]
    BY CommitShape, NothingShape
  <2>2. QED
    BY <2>1
<1>3. Cardinality(c[kind]) > 0
  BY <1>1, <1>2
<1>4. /\ Cardinality(c.sources) \in Nat /\ Cardinality(c.deletedSources) \in Nat
      /\ Cardinality(c.claims) \in Nat /\ Cardinality(c.links) \in Nat
      /\ Cardinality(c.corrections) \in Nat /\ Cardinality(c.profiles) \in Nat
      /\ Cardinality(c.deletedEntries) \in Nat /\ Cardinality(c.reviews) \in Nat
      /\ Cardinality(c.deletedReviews) \in Nat
  BY <1>1 DEF Kinds
<1>5. \/ Cardinality(c.sources) > 0 \/ Cardinality(c.deletedSources) > 0
      \/ Cardinality(c.claims) > 0 \/ Cardinality(c.links) > 0
      \/ Cardinality(c.corrections) > 0 \/ Cardinality(c.profiles) > 0
      \/ Cardinality(c.deletedEntries) > 0 \/ Cardinality(c.reviews) > 0
      \/ Cardinality(c.deletedReviews) > 0
  BY <1>3 DEF Kinds
<1>6. QED
  BY <1>4, <1>5 DEF EventCount

(* Where the commits of a feed of n commits end.                           *)
Ends(ends, n) ==
    /\ ends \in [1 .. n + 1 -> Nat]
    /\ \A i, j \in 1 .. n + 1 : i < j => ends[i] < ends[j]

(* A sequence of naturals each of which is less than the next is           *)
(* increasing.                                                             *)
LEMMA EachLessThanNext ==
    ASSUME NEW n \in Nat, NEW ends \in [1 .. n + 1 -> Nat], \A i \in 1..n : ends[i] < ends[i + 1]
    PROVE  Ends(ends, n)
<1> DEFINE T == {j \in Nat : \A i \in 1 .. n + 1 : j \in 1 .. n + 1 /\ i < j => ends[i] < ends[j]}
<1>1. 0 \in T
  OBVIOUS
<1>2. ASSUME NEW j \in Nat, j \in T PROVE j + 1 \in T
  <2>1. SUFFICES ASSUME NEW i \in 1 .. n + 1, j + 1 \in 1 .. n + 1, i < j + 1
                 PROVE  ends[i] < ends[j + 1]
    OBVIOUS
  <2>2. j \in 1..n /\ j \in 1 .. n + 1
    BY <2>1
  <2>3. ends[i] \in Nat /\ ends[j] \in Nat /\ ends[j + 1] \in Nat /\ ends[j] < ends[j + 1]
    BY <2>1, <2>2
  <2>4. CASE i = j
    BY <2>3, <2>4
  <2>5. CASE i < j
    BY <1>2, <2>2, <2>3, <2>5
  <2>6. QED
    BY <2>1, <2>2, <2>4, <2>5
<1> HIDE DEF T
<1>3. \A j \in Nat : j \in T
  BY <1>1, <1>2, InductiveSet
<1>4. QED
  BY <1>3 DEF T, Ends

(* EventEnds says where the commits of a feed end.                         *)
LEMMA FeedEnds ==
    ASSUME NEW log \in Seq(Commit), \A i \in 1..Len(log) : EventCount(log[i]) \in Nat \ {0}
    PROVE  Ends(EventEnds(log), Len(log))
<1> DEFINE n == Len(log)
           step == [i \in 1..n |-> [x \in Nat |-> x + EventCount(log[i])]]
           Def(f) == [i \in 0..n |-> IF i = 0 THEN 0 ELSE f[i - 1] + EventCount(log[i])]
           events == CHOOSE f : f = Def(f)
<1>1. n \in Nat /\ \A i \in 1..n : EventCount(log[i]) \in Nat \ {0}
  OBVIOUS
<1>2. step \in [1..n -> [Nat -> Nat]]
  BY <1>1
<1>3. \E f : Iterates(f, Nat, 0, n, step)
  <2> HIDE DEF step, n
  <2>1. QED
    BY <1>1, <1>2, IterationExists
<1>4. PICK f : Iterates(f, Nat, 0, n, step)
  BY <1>3
<1>5. f = Def(f)
  <2> HIDE DEF n, step
  <2>1. f \in [0..n -> Nat] /\ \A i \in 0..n : f[i] = IF i = 0 THEN 0 ELSE step[i][f[i - 1]]
    BY <1>4 DEF Iterates
  <2>2. 0 \in 0..n /\ \A i \in 0..n : i # 0 => i \in 1..n /\ i - 1 \in 0..n
    BY <1>1
  <2>3. \A i \in 0..n : i # 0 => f[i - 1] \in Nat
    BY <2>1, <2>2
  <2>4. \A i \in 1..n : \A x \in Nat : step[i][x] = x + EventCount(log[i])
    BY DEF step
  <2>5. \A i \in 0..n : i # 0 => f[i] = f[i - 1] + EventCount(log[i])
    BY <2>1, <2>2, <2>3, <2>4
  <2>6. f[0] = 0 /\ f = [i \in 0..n |-> f[i]]
    BY <2>1, <2>2
  <2>7. \A i \in 0..n : f[i] = IF i = 0 THEN 0 ELSE f[i - 1] + EventCount(log[i])
    BY <2>5, <2>6
  <2>8. QED
    BY <2>6, <2>7
<1>6. events = Def(events)
  <2> HIDE DEF Def
  <2>1. QED
    BY <1>5
<1>7. events[0] = 0 /\ \A i \in 1..n : events[i] = events[i - 1] + EventCount(log[i])
  <2> HIDE DEF events
  <2>1. \A i \in 0..n : events[i] = IF i = 0 THEN 0 ELSE events[i - 1] + EventCount(log[i])
    BY <1>6
  <2>2. 0 \in 0..n /\ \A i \in 1..n : i \in 0..n /\ i # 0
    BY <1>1
  <2> HIDE DEF n
  <2>3. QED
    BY <2>1, <2>2
<1> HIDE DEF events, step, Def, n
<1>8. \A i \in 0..n : events[i] \in Nat
  <2> DEFINE T == {i \in Nat : i <= n => events[i] \in Nat}
  <2>1. 0 \in T
    BY <1>7
  <2>2. ASSUME NEW i \in Nat, i \in T PROVE i + 1 \in T
    <3>1. SUFFICES ASSUME i + 1 <= n PROVE events[i + 1] \in Nat
      OBVIOUS
    <3>2. i + 1 \in 1..n /\ (i + 1) - 1 = i /\ events[i] \in Nat
      BY <1>1, <2>2, <3>1
    <3>3. QED
      BY <1>1, <1>7, <3>2
  <2> HIDE DEF T
  <2>3. \A i \in Nat : i \in T
    BY <2>1, <2>2, InductiveSet
  <2>4. QED
    BY <1>1, <2>3 DEF T
<1> DEFINE ends == [i \in 1 .. n + 1 |-> events[i - 1]]
<1>9. EventEnds(log) = ends
  BY Zenon DEF EventEnds, events, Def, n
<1>10. ends \in [1 .. n + 1 -> Nat]
  BY <1>1, <1>8
<1>11. \A i \in 1..n : ends[i] < ends[i + 1]
  <2>1. SUFFICES ASSUME NEW i \in 1..n PROVE ends[i] < ends[i + 1]
    OBVIOUS
  <2>2. ends[i] = events[i - 1] /\ ends[i + 1] = events[i]
    BY <1>1
  <2>3. events[i - 1] \in Nat /\ events[i] = events[i - 1] + EventCount(log[i])
    BY <1>1, <1>7, <1>8
  <2> HIDE DEF ends
  <2>4. QED
    BY <1>1, <2>2, <2>3
<1> HIDE DEF ends
<1>12. Ends(ends, n)
  BY <1>1, <1>10, <1>11, EachLessThanNext
<1>13. QED
  BY <1>9, <1>12 DEF n

(* The events between two places of a feed.                                *)
LEMMA EventsBetween ==
    ASSUME NEW n \in Nat, NEW ends, Ends(ends, n), NEW from \in 0..n
    PROVE  /\ \A to \in from..n : EventsIn(ends, from, to) \in Nat
           /\ EventsIn(ends, from, from) = 0
           /\ \A a, b \in from..n : a < b => EventsIn(ends, from, a) < EventsIn(ends, from, b)
<1>1. from + 1 \in 1 .. n + 1 /\ \A to \in from..n : to + 1 \in 1 .. n + 1
  OBVIOUS
<1>2. ends[from + 1] \in Nat /\ \A to \in from..n : ends[to + 1] \in Nat
  BY <1>1 DEF Ends
<1>3. \A a, b \in from..n : a < b => ends[a + 1] < ends[b + 1]
  <2>1. \A a, b \in from..n : a < b => a + 1 < b + 1
    OBVIOUS
  <2>2. QED
    BY <1>1, <2>1 DEF Ends
<1>4. \A to \in from..n : to # from => ends[from + 1] < ends[to + 1]
  <2>1. \A to \in from..n : to # from => from + 1 < to + 1
    OBVIOUS
  <2>2. QED
    BY <1>1, <2>1 DEF Ends
<1>5. QED
  BY <1>2, <1>3, <1>4 DEF EventsIn

(* The doubling of the fetch comes to an end, at a cap that is no smaller  *)
(* than the first one and takes no commit apart.                           *)
LEMMA FetchCapFound ==
    ASSUME NEW n \in Nat, NEW ends, Ends(ends, n), NEW mark \in 0..n, NEW cursor \in 0..mark,
           NEW limit \in Nat \ {0}
    PROVE  /\ FetchCap(ends, cursor, mark, limit) \in Nat
           /\ FetchCap(ends, cursor, mark, limit) > limit
           /\ EndsWhole(ends, cursor, mark, FetchCap(ends, cursor, mark, limit))
<1> DEFINE total == EventsIn(ends, cursor, mark)
           Whole(cap) == EndsWhole(ends, cursor, mark, cap)
           Def(f) == [cap \in Nat |-> IF Whole(cap) THEN cap ELSE f[2 * cap]]
           grown == CHOOSE f : f = Def(f)
<1>1. total \in Nat
  <2>1. cursor \in 0..n /\ mark \in cursor..n
    OBVIOUS
  <2>2. QED
    BY <2>1, EventsBetween
<1>2. \A cap \in Nat : cap >= total => Whole(cap)
  BY DEF EndsWhole
<1> HIDE DEF total, Whole
(* From 0 it goes nowhere, from anywhere else it is past the total soon.   *)
<1>3. \E f : f = Def(f)
  <2> DEFINE Reaches(m, f) ==
                \A cap \in Nat \ {0} : cap + m >= total =>
                    f[cap] = IF Whole(cap) THEN cap ELSE f[2 * cap]
             T == {m \in Nat : \E f \in [Nat -> Nat] : Reaches(m, f)}
  <2>1. 0 \in T
    <3>1. [cap \in Nat |-> cap] \in [Nat -> Nat] /\ Reaches(0, [cap \in Nat |-> cap])
      BY <1>1, <1>2
    <3>2. QED
      BY <3>1
  <2>2. ASSUME NEW m \in Nat, m \in T PROVE m + 1 \in T
    <3>1. PICK f \in [Nat -> Nat] : Reaches(m, f)
      BY <2>2
    <3>2. CASE total > m + 1
      <4> DEFINE last == total - (m + 1)
                 g == [cap \in Nat |-> IF cap = last
                                       THEN IF Whole(last) THEN last ELSE f[2 * last]
                                       ELSE f[cap]]
      <4>1. last \in Nat \ {0} /\ 2 * last \in Nat /\ 2 * last # last
        BY <1>1, <3>2
      <4>2. \A cap \in Nat \ {0} : cap + (m + 1) >= total =>
               cap = last \/ (cap + m >= total /\ cap # last /\ 2 * cap # last /\ 2 * cap \in Nat)
        BY <1>1, <3>2
      <4> HIDE DEF last
      <4>3. g \in [Nat -> Nat] /\ \A cap \in Nat : cap # last => g[cap] = f[cap]
        BY <4>1
      <4>4. g[last] = IF Whole(last) THEN last ELSE f[2 * last]
        BY <4>1
      <4> HIDE DEF g
      <4>5. Reaches(m + 1, g)
        <5>1. SUFFICES ASSUME NEW cap \in Nat \ {0}, cap + (m + 1) >= total
                       PROVE  g[cap] = IF Whole(cap) THEN cap ELSE g[2 * cap]
          OBVIOUS
        <5>2. CASE cap = last
          BY <4>1, <4>3, <4>4, <5>2
        <5>3. CASE cap + m >= total /\ cap # last /\ 2 * cap # last /\ 2 * cap \in Nat
          BY <3>1, <4>3, <5>3
        <5>4. QED
          BY <4>2, <5>1, <5>2, <5>3
      <4>6. QED
        BY <4>3, <4>5
    <3>3. CASE total <= m + 1
      <4>1. CASE total <= m
        <5>1. Reaches(m + 1, f)
          BY <1>1, <3>1, <4>1
        <5>2. QED
          BY <5>1
      <4>2. CASE total = m + 1
        <5>1. Reaches(m + 1, f)
          <6>1. \A cap \in Nat \ {0} : cap + m >= total
            BY <4>2
          <6>2. QED
            BY <3>1, <6>1
        <5>2. QED
          BY <5>1
      <4>3. QED
        BY <1>1, <3>3, <4>1, <4>2
    <3>4. QED
      BY <1>1, <3>2, <3>3
  <2> HIDE DEF T
  <2>3. total \in T
    BY <1>1, <2>1, <2>2, InductiveSet
  <2>4. PICK f \in [Nat -> Nat] : Reaches(total, f)
    BY <2>3 DEF T
  <2>5. \A cap \in Nat \ {0} : f[cap] = IF Whole(cap) THEN cap ELSE f[2 * cap]
    <3>1. \A cap \in Nat \ {0} : cap + total >= total
      BY <1>1
    <3>2. QED
      BY <2>4, <3>1
  <2> DEFINE h == [cap \in Nat |-> IF cap = 0 THEN 0 ELSE f[cap]]
  <2>6. \A cap \in Nat : h[cap] = IF Whole(cap) THEN cap ELSE h[2 * cap]
    <3>1. SUFFICES ASSUME NEW cap \in Nat PROVE h[cap] = IF Whole(cap) THEN cap ELSE h[2 * cap]
      OBVIOUS
    <3>2. CASE cap = 0
      BY <3>2
    <3>3. CASE cap # 0
      <4>1. 2 * cap \in Nat /\ 2 * cap # 0
        BY <3>3
      <4>2. h[cap] = f[cap] /\ h[2 * cap] = f[2 * cap]
        BY <3>3, <4>1
      <4> HIDE DEF h
      <4>3. QED
        BY <2>5, <3>3, <4>2
    <3>4. QED
      BY <3>2, <3>3
  <2>7. h = [cap \in Nat |-> h[cap]]
    OBVIOUS
  <2> HIDE DEF h
  <2>8. h = Def(h)
    BY <2>6, <2>7
  <2>9. QED
    BY <2>8
<1>4. grown = Def(grown)
  <2> HIDE DEF Def
  <2>1. QED
    BY <1>3
<1> HIDE DEF grown
<1>5. \A cap \in Nat : grown[cap] = IF Whole(cap) THEN cap ELSE grown[2 * cap]
  BY <1>4
<1>6. \A cap \in Nat \ {0} : grown[cap] \in Nat /\ grown[cap] >= cap /\ Whole(grown[cap])
  <2> DEFINE T == {m \in Nat : \A cap \in Nat \ {0} : cap + m >= total =>
                      grown[cap] \in Nat /\ grown[cap] >= cap /\ Whole(grown[cap])}
  <2>1. 0 \in T
    BY <1>1, <1>2, <1>5
  <2>2. ASSUME NEW m \in Nat, m \in T PROVE m + 1 \in T
    <3>1. SUFFICES ASSUME NEW cap \in Nat \ {0}, cap + (m + 1) >= total
                   PROVE  grown[cap] \in Nat /\ grown[cap] >= cap /\ Whole(grown[cap])
      OBVIOUS
    <3>2. CASE Whole(cap)
      BY <1>5, <3>2
    <3>3. CASE ~Whole(cap)
      <4>1. 2 * cap \in Nat \ {0} /\ 2 * cap + m >= total /\ 2 * cap >= cap
        BY <1>1, <3>1
      <4>2. grown[2 * cap] \in Nat /\ grown[2 * cap] >= 2 * cap /\ Whole(grown[2 * cap])
        BY <2>2, <4>1
      <4>3. grown[cap] = grown[2 * cap]
        BY <1>5, <3>3
      <4>4. QED
        BY <4>1, <4>2, <4>3
    <3>4. QED
      BY <3>2, <3>3
  <2> HIDE DEF T
  <2>3. total \in T
    BY <1>1, <2>1, <2>2, InductiveSet
  <2>4. QED
    BY <1>1, <2>3 DEF T
<1>7. FetchCap(ends, cursor, mark, limit) = grown[limit + 1]
  BY Zenon DEF FetchCap, grown, Def, Whole
<1>8. limit + 1 \in Nat \ {0}
  OBVIOUS
<1>9. grown[limit + 1] \in Nat /\ grown[limit + 1] >= limit + 1 /\ Whole(grown[limit + 1])
  BY <1>6, <1>8
<1>10. QED
  BY <1>7, <1>9 DEF Whole

(* A set of places from a first one on, with no gap, is an interval.       *)
LEMMA NoGapIsAnInterval ==
    ASSUME NEW first \in Nat, NEW last \in Nat, NEW S, S \subseteq first + 1 .. last, S # {},
           \A y \in S : \A x \in first + 1 .. y : x \in S
    PROVE  S = first + 1 .. first + Cardinality(S) /\ first + Cardinality(S) \in first + 1 .. last
<1> DEFINE Bound == {x \in Nat : S \subseteq first + 1 .. x}
<1>1. last \in Bound /\ Bound \subseteq Nat /\ Bound # {}
  OBVIOUS
<1>2. PICK p \in Bound : \A x \in Bound : p <= x
  <2> HIDE DEF Bound
  <2>1. QED
    BY <1>1, LeastNatural
<1>3. p \in Nat /\ S \subseteq first + 1 .. p
  BY <1>2
<1>4. p \in S
  <2>1. SUFFICES ASSUME p \notin S PROVE FALSE
    OBVIOUS
  <2>2. PICK y \in S : TRUE
    OBVIOUS
  <2>3. p - 1 \in Nat /\ S \subseteq first + 1 .. p - 1
    BY <1>3, <2>1, <2>2
  <2>4. p - 1 \in Bound
    BY <2>3
  <2>5. QED
    BY <1>2, <1>3, <2>4
<1>5. S = first + 1 .. p /\ p \in first + 1 .. last
  BY <1>3, <1>4
<1>6. Cardinality(first + 1 .. p) = p - first
  <2>1. Cardinality(first + 1 .. p) = IF first + 1 > p THEN 0 ELSE p - (first + 1) + 1
    BY <1>3, FS_Interval
  <2>2. QED
    BY <1>3, <1>5, <2>1
<1>7. QED
  BY <1>3, <1>5, <1>6

(* A page of a feed: the commits after the cursor up to the next one, all  *)
(* of them, and what the host is told to do.                               *)
LEMMA PageIsARun ==
    ASSUME NEW n \in Nat, NEW ends, Ends(ends, n), NEW mark \in 0..n, NEW cursor \in 0..mark,
           NEW limit \in Nat \ {0}, NEW budget \in Nat \ {0}
    PROVE  LET page == Page(ends, cursor, mark, limit, budget)
               cap == FetchCap(ends, cursor, mark, limit)
           IN  /\ page.next \in cursor..mark
               /\ Packed(ends, cursor, Within(ends, cursor, mark, cap), limit, budget)
                     = cursor + 1 .. page.next
               /\ page.complete => page.next = mark
               /\ ~page.complete => page.next > cursor
<1> DEFINE cap == FetchCap(ends, cursor, mark, limit)
           fetched == Within(ends, cursor, mark, cap)
           packed == Packed(ends, cursor, fetched, limit, budget)
           page == Page(ends, cursor, mark, limit, budget)
           count(to) == EventsIn(ends, cursor, to)
<1>1. cap \in Nat /\ cap > limit /\ EndsWhole(ends, cursor, mark, cap)
  BY FetchCapFound
<1>2. /\ \A to \in cursor..n : count(to) \in Nat
      /\ count(cursor) = 0
      /\ \A a, b \in cursor..n : a < b => count(a) < count(b)
  <2>1. cursor \in 0..n
    OBVIOUS
  <2>2. QED
    BY <2>1, EventsBetween
<1>3. fetched = {to \in cursor + 1 .. mark : count(to) <= cap}
  BY DEF Within
<1>4. packed = {to \in fetched : to = cursor + 1 \/ (count(to) <= limit /\ count(to) <= budget)}
  BY DEF Packed
<1>5. page.next = cursor + Cardinality(packed) /\ page.complete = (count(mark) < cap /\ packed = fetched)
  BY DEF Page
<1>6. EndsWhole(ends, cursor, mark, cap) <=>
         \/ cap >= count(mark)
         \/ \E to \in fetched : count(to) = cap
  BY DEF EndsWhole
<1> HIDE DEF cap, fetched, packed, page, count
<1>7. CASE cursor = mark
  <2>1. packed = {} /\ fetched = {} /\ cursor + 1 .. mark = {}
    BY <1>3, <1>4, <1>7
  <2>2. Cardinality(packed) = 0
    BY <2>1, FS_EmptySet
  <2>3. page.next = mark /\ cursor + 1 .. page.next = {}
    BY <1>5, <1>7, <2>1, <2>2
  <2>4. page.complete
    <3>1. count(mark) = 0 /\ cap > 0
      BY <1>1, <1>2, <1>7
    <3>2. count(mark) < cap /\ packed = fetched
      BY <1>1, <2>1, <3>1
    <3>3. QED
      BY <1>5, <3>2
  <2>5. QED
    BY <1>7, <2>1, <2>3, <2>4 DEF page, cap, fetched, packed
<1>8. CASE cursor < mark
  <2>1. /\ cursor + 1 \in cursor + 1 .. mark /\ cursor + 1 \in cursor..n /\ mark \in cursor..n
        /\ \A to \in cursor + 1 .. mark :
              to \in cursor..n /\ (to = cursor + 1 \/ cursor + 1 < to) /\ (to = mark \/ to < mark)
    BY <1>8
  <2>2. cursor + 1 \in fetched
    <3>1. CASE cap >= count(mark)
      BY <1>1, <1>2, <1>3, <2>1, <3>1
    <3>2. CASE \E to \in fetched : count(to) = cap
      BY <1>1, <1>2, <1>3, <2>1, <3>2
    <3>3. QED
      BY <1>1, <1>6, <3>1, <3>2
  <2>3. packed \subseteq cursor + 1 .. mark /\ packed # {}
    BY <1>3, <1>4, <2>2
  <2>4. ASSUME NEW y \in packed, NEW x \in cursor + 1 .. y PROVE x \in packed
    <3>1. y \in fetched /\ y \in cursor + 1 .. mark /\ x \in cursor + 1 .. mark
      BY <1>4, <2>3
    <3>2. CASE x = y
      BY <3>2
    <3>3. CASE x < y
      <4>1. count(x) < count(y) /\ count(x) \in Nat /\ count(y) \in Nat
        BY <1>2, <2>1, <3>1, <3>3
      <4>2. x \in fetched
        BY <1>1, <1>3, <3>1, <4>1
      <4>3. y # cursor + 1
        BY <3>1, <3>3
      <4>4. count(x) <= limit /\ count(x) <= budget
        BY <1>4, <4>1, <4>3
      <4>5. QED
        BY <1>4, <4>2, <4>4
    <3>4. QED
      BY <3>1, <3>2, <3>3
  <2>5. packed = cursor + 1 .. cursor + Cardinality(packed)
        /\ cursor + Cardinality(packed) \in cursor + 1 .. mark
    <3>1. \A y \in packed : \A x \in cursor + 1 .. y : x \in packed
      BY <2>4
    <3>2. cursor \in Nat /\ mark \in Nat
      OBVIOUS
    <3>3. QED
      BY <2>3, <3>1, <3>2, NoGapIsAnInterval
  <2>6. packed = cursor + 1 .. page.next /\ page.next \in cursor + 1 .. mark
    BY <1>5, <2>5
  <2>7. ASSUME page.complete PROVE page.next = mark
    <3>1. count(mark) < cap /\ packed = fetched
      BY <1>5, <2>7
    <3>2. mark \in fetched
      BY <1>1, <1>2, <1>3, <1>8, <2>1, <3>1
    <3>3. QED
      BY <2>6, <3>1, <3>2
  <2>8. page.next \in cursor..mark /\ page.next > cursor
    BY <2>6
  <2>9. QED
    BY <2>6, <2>7, <2>8 DEF page, cap, fetched, packed
<1>9. QED
  BY <1>7, <1>8

(* Whatever the limits of its pages, a host that follows the cursor to a   *)
(* frozen mark gets every commit once and comes to an end (export and      *)
(* pack_export_page in export.rs).                                         *)
THEOREM PagesTile == MigrationSpec => []PagesTileTheFeed
<1>1. ASSUME FeedInv, FiniteInv PROVE PagesTileTheFeed
  <2>1. feed \in Seq(Commit) /\ Len(feed) \in Nat /\ PageLimit \subseteq Nat \ {0}
    BY <1>1, BatchAssumption DEF FeedInv, SoundLog
  <2>2. ASSUME NEW i \in 1..Len(feed) PROVE EventCount(feed[i]) \in Nat \ {0}
    <3>1. feed[i] \in Commit /\ feed[i] # NoRecords /\ FiniteCommit(feed[i])
      BY <1>1 DEF FeedInv, SoundLog, FiniteInv
    <3>2. QED
      BY <3>1, CommitHasEvents
  <2>3. Ends(EventEnds(feed), Len(feed))
    BY <2>1, <2>2, FeedEnds
  <2> DEFINE ends == EventEnds(feed)
  <2> HIDE DEF ends
  <2>4. ASSUME NEW mark \in 0..Len(feed), NEW limit \in PageLimit, NEW budget \in PageLimit,
               NEW cursor \in 0..mark
        PROVE  LET page == Page(ends, cursor, mark, limit, budget)
               IN  /\ page.next \in cursor..mark
                   /\ page.complete => page.next = mark
                   /\ ~page.complete => page.next > cursor
    <3>1. Ends(ends, Len(feed)) /\ limit \in Nat \ {0} /\ budget \in Nat \ {0}
      BY <2>1, <2>3 DEF ends
    <3>2. QED
      BY <2>1, <3>1, PageIsARun
  <2>5. QED
    BY <2>4 DEF PagesTileTheFeed, ends
<1>2. QED
  BY <1>1, FeedIsFinite, PTL

--------------------------------------------------------------------------------
(* Apply for any tables, any ledger and any batch: what a store and its    *)
(* replica get from each other when the feeds run both ways, and neither is*)
(* on a replay of anything.                                                *)

(* Commits that tell of sources which are there, live or deleted.          *)
Settled == {c \in Commit : \A r \in c.sources : r.state # "absent"}

(* A store in the middle of a batch.                                       *)
Stores == [tables : Tables, seen : Commit, commits : Seq(Settled), ok : BOOLEAN]

(* A ledger has every record of a commit.                                  *)
Has(seen, commit) == \A kind \in Kinds : commit[kind] \subseteq seen[kind]

(* Whatever is deleted in T is deleted in U.                               *)
StayDeleted(T, U) == \A s \in Source : T.source[s] = "deleted" => U.source[s] = "deleted"

(* What the ledger does not have of a commit is a commit.                  *)
LEMMA UnseenIsSettled ==
    ASSUME NEW commit \in Settled, NEW seen
    PROVE  /\ Unseen(commit, seen) \in Settled
           /\ \A kind \in Kinds : Unseen(commit, seen)[kind] = commit[kind] \ seen[kind]
<1>1. commit \in Commit /\ DOMAIN commit = Kinds
  BY CommitShape DEF Settled
<1>2. Unseen(commit, seen) = [kind \in Kinds |-> commit[kind] \ seen[kind]]
  BY <1>1, Zenon DEF Unseen
<1>3. \A kind \in Kinds : Unseen(commit, seen)[kind] = commit[kind] \ seen[kind]
  BY <1>2
<1>4. Unseen(commit, seen)
        = [sources |-> commit.sources \ seen.sources, claims |-> commit.claims \ seen.claims,
           links |-> commit.links \ seen.links, profiles |-> commit.profiles \ seen.profiles,
           reviews |-> commit.reviews \ seen.reviews,
           corrections |-> commit.corrections \ seen.corrections,
           deletedSources |-> commit.deletedSources \ seen.deletedSources,
           deletedEntries |-> commit.deletedEntries \ seen.deletedEntries,
           deletedReviews |-> commit.deletedReviews \ seen.deletedReviews]
  BY <1>2 DEF Kinds
<1>5. Unseen(commit, seen) \in Commit
  BY <1>1, <1>4 DEF Commit
<1>6. \A r \in Unseen(commit, seen).sources : r.state # "absent"
  BY <1>4 DEF Settled
<1>7. QED
  BY <1>3, <1>5, <1>6 DEF Settled

(* What a ledger has once it remembers a commit.                           *)
LEMMA RememberedType ==
    ASSUME NEW seen \in Commit, NEW new \in Commit
    PROVE  /\ Remembered(seen, new) \in Commit
           /\ \A kind \in Kinds : Remembered(seen, new)[kind] = seen[kind] \cup new[kind]
<1>1. DOMAIN seen = Kinds
  BY CommitShape
<1>2. Remembered(seen, new) = [kind \in Kinds |-> seen[kind] \cup new[kind]]
  BY <1>1, Zenon DEF Remembered
<1>3. Remembered(seen, new)
        = [sources |-> seen.sources \cup new.sources, claims |-> seen.claims \cup new.claims,
           links |-> seen.links \cup new.links, profiles |-> seen.profiles \cup new.profiles,
           reviews |-> seen.reviews \cup new.reviews,
           corrections |-> seen.corrections \cup new.corrections,
           deletedSources |-> seen.deletedSources \cup new.deletedSources,
           deletedEntries |-> seen.deletedEntries \cup new.deletedEntries,
           deletedReviews |-> seen.deletedReviews \cup new.deletedReviews]
  BY <1>2 DEF Kinds
<1>4. Remembered(seen, new) \in Commit
  BY <1>3 DEF Commit
<1>5. QED
  BY <1>2, <1>4

(* The profile entry of a key after a commit.                              *)
LEMMA ProfileAfterType ==
    ASSUME NEW T \in Tables, NEW new \in Commit, NEW k \in Key
    PROVE  /\ ProfileAfter(T, new, k).claim \in Source \cup {NoClaim}
           /\ ProfileAfter(T, new, k).at \in RecordTime \cup {Open}
           /\ ProfileAfter(T, new, k).id \in Nat
<1> DEFINE old == [id |-> T.entry[k], key |-> k, claim |-> T.profile[k], at |-> T.profileAt[k]]
           named == CHOOSE x \in new.profiles : x.key = k
           P == [id : Nat, key : Key, claim : Source \cup {NoClaim}, at : RecordTime \cup {Open}]
<1>1. old \in P
  BY DEF Tables
<1>2. (\E x \in new.profiles : x.key = k) => named \in P
  BY DEF Commit
<1>3. PICK p : /\ p = IF \E x \in new.profiles : x.key = k THEN named ELSE old
               /\ p \in P
  BY <1>1, <1>2
<1>4. ProfileAfter(T, new, k) = IF p.id \in new.deletedEntries
                                THEN [id |-> 0, key |-> k, claim |-> NoClaim, at |-> Open]
                                ELSE p
  BY <1>3, Zenon DEF ProfileAfter
<1>5. QED
  BY <1>3, <1>4

(* Apply writes well-typed tables.                                         *)
LEMMA MaterializedType ==
    ASSUME NEW T \in Tables, NEW new \in Commit
    PROVE  Materialized(T, new) \in Tables
<1>1. \A s \in Ids(new.sources) : Only(new.sources, s) \in new.sources
  BY Zenon DEF Ids, Only
<1>2. \A s \in Ids(new.sources) :
         /\ Only(new.sources, s).state \in {"absent", "live", "deleted"}
         /\ Only(new.sources, s).capturedAt \in ValidTime \cup {Open}
         /\ Only(new.sources, s).recordedAt \in RecordTime \cup {Open}
  BY <1>1 DEF Commit
<1>3. \A s \in Source : SourceAfter(T, new, s) \in {"absent", "live", "deleted"}
  BY <1>2 DEF SourceAfter, Tables
<1>4. \A c \in Source : ClaimAfter(T, new, c) \in ClaimRow
  <2>1. \A c \in Ids(new.claims) : Only(new.claims, c) \in new.claims
    BY Zenon DEF Ids, Only
  <2>2. \A c \in Ids(new.claims) : Only(new.claims, c).row \in ClaimRow
    BY <2>1 DEF Commit
  <2>3. QED
    BY <2>2 DEF ClaimAfter, Tables
<1>5. \A c \in Source : CorrectsAfter(T, new, c) \in Source \cup {NoClaim}
  BY DEF CorrectsAfter, Tables, Commit
<1>6. \A c \in Source, x \in {"supports", "contradicts"} : LinksOf(new, c, x) \subseteq Source
  BY DEF LinksOf, Commit
<1>7. \A r \in Review : ReviewAfter(T, new, r) \in SUBSET Source
  <2>1. \A r \in Ids(new.reviews) : Only(new.reviews, r) \in new.reviews
    BY Zenon DEF Ids, Only
  <2>2. \A r \in Ids(new.reviews) : Only(new.reviews, r).cited \in SUBSET Source
    BY <2>1 DEF Commit
  <2>3. QED
    BY <2>2 DEF ReviewAfter, Tables
<1> DEFINE U == Materialized(T, new)
<1>8. /\ U.source \in [Source -> {"absent", "live", "deleted"}]
      /\ U.claim \in [Source -> ClaimRow]
      /\ U.corrects \in [Source -> Source \cup {NoClaim}]
      /\ U.review \in [Review -> SUBSET Source]
  BY <1>3, <1>4, <1>5, <1>7 DEF Materialized
<1>9. /\ U.validFrom \in [Source -> ValidTime \cup {Open}]
      /\ U.recordedAt \in [Source -> RecordTime \cup {Open}]
  BY <1>2 DEF Materialized, Tables
<1>10. /\ U.supports \in [Source -> SUBSET Source]
       /\ U.contradicts \in [Source -> SUBSET Source]
  BY <1>6 DEF Materialized, Tables
<1>11. /\ U.profile \in [Key -> Source \cup {NoClaim}]
       /\ U.profileAt \in [Key -> RecordTime \cup {Open}]
       /\ U.entry \in [Key -> Nat]
  BY ProfileAfterType DEF Materialized
<1>12. U = [source |-> U.source, validFrom |-> U.validFrom, recordedAt |-> U.recordedAt,
            claim |-> U.claim, supports |-> U.supports, contradicts |-> U.contradicts,
            corrects |-> U.corrects, profile |-> U.profile, profileAt |-> U.profileAt,
            entry |-> U.entry, review |-> U.review]
  BY DEF Materialized
<1> HIDE DEF U
<1>13. U \in Tables
  BY <1>8, <1>9, <1>10, <1>11, <1>12 DEF Tables
<1>14. QED
  BY <1>13 DEF U

(* No record apply accepts takes a tombstone away.                         *)
LEMMA TombstonesStay ==
    ASSUME NEW T, NEW new \in Settled, ~Refused(T, new)
    PROVE  StayDeleted(T, Materialized(T, new))
<1>1. SUFFICES ASSUME NEW s \in Source, T.source[s] = "deleted"
               PROVE  SourceAfter(T, new, s) = "deleted"
  BY DEF StayDeleted, Materialized
<1>2. ASSUME s \in Ids(new.sources) PROVE Only(new.sources, s).state = "deleted"
  <2>1. PICK r \in new.sources : r = Only(new.sources, s) /\ r.id = s
    BY <1>2, Zenon DEF Ids, Only
  <2>2. r.state \in {"absent", "live", "deleted"} /\ r.state # "absent"
    BY DEF Settled, Commit
  <2>3. r.state # "live"
    BY <1>1, <2>1 DEF Refused
  <2>4. QED
    BY <2>1, <2>2, <2>3
<1>3. QED
  BY <1>1, <1>2 DEF SourceAfter

(* One commit: the ledger gains it, tombstones stay, and nothing happens   *)
(* when the ledger had it already.                                         *)
Gains(store, commit, U) ==
    /\ U \in Stores
    /\ Has(U.seen, store.seen)
    /\ U.ok => store.ok /\ Has(U.seen, commit)
    /\ StayDeleted(store.tables, U.tables)
    /\ Has(store.seen, commit) => U = store

(* That is what apply_commit does.                                         *)
LEMMA ApplyCommitGains ==
    ASSUME NEW store \in Stores, NEW commit \in Settled
    PROVE  Gains(store, commit, ApplyCommit(store, commit))
<1>1. PICK new : new = Unseen(commit, store.seen)
  OBVIOUS
<1>2. /\ new \in Settled /\ new \in Commit
      /\ \A kind \in Kinds : new[kind] = commit[kind] \ store.seen[kind]
  BY <1>1, UnseenIsSettled DEF Settled
<1>3. /\ store.tables \in Tables /\ store.seen \in Commit /\ store.commits \in Seq(Settled)
      /\ store.ok \in BOOLEAN
      /\ store = [tables |-> store.tables, seen |-> store.seen, commits |-> store.commits,
                  ok |-> store.ok]
  BY DEF Stores
<1>4. new = NoRecords <=> Has(store.seen, commit)
  <2>1. new = [kind \in Kinds |-> new[kind]]
    BY <1>2, CommitShape
  <2>2. new = NoRecords <=> \A kind \in Kinds : new[kind] = {}
    <3>1. new = NoRecords => \A kind \in Kinds : new[kind] = {}
      <4>1. \A kind \in Kinds : [k \in Kinds |-> {}][kind] = {}
        OBVIOUS
      <4>2. QED
        BY <4>1, NothingShape
    <3>2. (\A kind \in Kinds : new[kind] = {}) => new = [kind \in Kinds |-> {}]
      BY <2>1
    <3>3. QED
      BY <3>1, <3>2, NothingShape
  <2>3. QED
    BY <1>2, <2>2 DEF Has
<1>5. Has(store.seen, store.seen) /\ StayDeleted(store.tables, store.tables)
  BY DEF Has, StayDeleted
<1>6. CASE ~store.ok \/ new = NoRecords
  <2>1. ApplyCommit(store, commit) = store
    BY <1>1, <1>6 DEF ApplyCommit
  <2>2. QED
    BY <1>4, <1>5, <1>6, <2>1 DEF Gains
<1>7. CASE store.ok /\ new # NoRecords /\ Refused(store.tables, new)
  <2>1. PICK U : U = ApplyCommit(store, commit)
    OBVIOUS
  <2>2. U = [store EXCEPT !.ok = FALSE]
    BY <1>1, <1>7, <2>1 DEF ApplyCommit
  <2>3. U \in Stores /\ U.seen = store.seen /\ U.tables = store.tables /\ ~U.ok
    BY <2>2 DEF Stores
  <2>4. QED
    BY <1>4, <1>5, <1>7, <2>1, <2>3 DEF Gains
<1>8. CASE store.ok /\ new # NoRecords /\ ~Refused(store.tables, new)
  <2>1. PICK U : U = ApplyCommit(store, commit)
    OBVIOUS
  <2>2. U = [tables |-> Materialized(store.tables, new), seen |-> Remembered(store.seen, new),
             commits |-> Append(store.commits, new), ok |-> TRUE]
    BY <1>1, <1>8, <2>1 DEF ApplyCommit
  <2>3. Materialized(store.tables, new) \in Tables
    BY <1>2, <1>3, MaterializedType
  <2>4. /\ Remembered(store.seen, new) \in Commit
        /\ \A kind \in Kinds : Remembered(store.seen, new)[kind] = store.seen[kind] \cup new[kind]
    BY <1>2, <1>3, RememberedType
  <2>5. Append(store.commits, new) \in Seq(Settled)
    BY <1>2, <1>3
  <2>6. U \in Stores
    BY <2>2, <2>3, <2>4, <2>5 DEF Stores
  <2>7. Has(Remembered(store.seen, new), store.seen) /\ Has(Remembered(store.seen, new), commit)
    BY <1>2, <2>4 DEF Has
  <2>8. StayDeleted(store.tables, Materialized(store.tables, new))
    BY <1>2, <1>8, TombstonesStay
  <2>9. U.tables = Materialized(store.tables, new) /\ U.seen = Remembered(store.seen, new)
    BY <2>2
  <2>10. QED
    BY <1>4, <1>8, <2>1, <2>6, <2>7, <2>8, <2>9 DEF Gains
<1>9. QED
  BY <1>3, <1>6, <1>7, <1>8

(* The stores Apply passes through, one for each commit of the batch.      *)
PassesThrough(after, tables, seen, batch) ==
    /\ after \in [0..Len(batch) -> Stores]
    /\ after[0] = NothingDone(tables, seen)
    /\ \A i \in 1..Len(batch) : after[i] = ApplyCommit(after[i - 1], batch[i])

(* There is one for each commit, whatever the tables, the ledger and the   *)
(* batch: apply always has an answer.                                      *)
LEMMA ApplyRuns ==
    ASSUME NEW tables \in Tables, NEW seen \in Commit, NEW batch \in Seq(Settled)
    PROVE  \E after : /\ PassesThrough(after, tables, seen, batch)
                      /\ Apply(tables, seen, batch) = after[Len(batch)]
<1> DEFINE n == Len(batch)
           start == NothingDone(tables, seen)
           step == [i \in 1..n |-> [store \in Stores |-> ApplyCommit(store, batch[i])]]
           Def(f) == [i \in 0..n |-> IF i = 0 THEN start ELSE ApplyCommit(f[i - 1], batch[i])]
           after == CHOOSE f : f = Def(f)
<1>1. n \in Nat /\ \A i \in 1..n : batch[i] \in Settled
  OBVIOUS
<1>2. start \in Stores
  BY DEF NothingDone, Stores
<1>3. \A i \in 1..n, store \in Stores : ApplyCommit(store, batch[i]) \in Stores
  <2> HIDE DEF n
  <2>1. QED
    BY <1>1, ApplyCommitGains DEF Gains
<1>4. step \in [1..n -> [Stores -> Stores]]
  BY <1>3
<1>5. Apply(tables, seen, batch) = after[n]
  BY Zenon DEF Apply, NothingDone
<1> HIDE DEF n, start, step
<1>6. PICK g : Iterates(g, Stores, start, n, step)
  BY <1>1, <1>2, <1>4, IterationExists
<1>7. g \in [0..n -> Stores] /\ \A i \in 0..n : g[i] = IF i = 0 THEN start ELSE step[i][g[i - 1]]
  BY <1>6 DEF Iterates
<1>8. ASSUME NEW i \in 0..n
      PROVE  g[i] = IF i = 0 THEN start ELSE ApplyCommit(g[i - 1], batch[i])
  <2>1. CASE i = 0
    BY <1>7, <2>1
  <2>2. CASE i # 0
    <3>1. i \in 1..n /\ i - 1 \in 0..n
      BY <1>1, <2>2
    <3>2. g[i - 1] \in Stores
      BY <1>7, <3>1
    <3>3. step[i][g[i - 1]] = ApplyCommit(g[i - 1], batch[i])
      BY <3>1, <3>2 DEF step
    <3>4. QED
      BY <1>7, <2>2, <3>3
  <2>3. QED
    BY <2>1, <2>2
<1>9. g = Def(g)
  <2>1. g = [i \in 0..n |-> g[i]]
    BY <1>7
  <2>2. QED
    BY <1>8, <2>1, Zenon
<1>10. after = Def(after)
  <2> HIDE DEF Def
  <2>1. QED
    BY <1>9, Zenon
<1> HIDE DEF after
<1>11. \A i \in 0..n : after[i] = IF i = 0 THEN start ELSE ApplyCommit(after[i - 1], batch[i])
  BY <1>10
<1> DEFINE T == {i \in Nat : i <= n => after[i] \in Stores}
<1>12. 0 \in T
  BY <1>1, <1>2, <1>11
<1>13. ASSUME NEW i \in Nat, i \in T PROVE i + 1 \in T
  <2>1. SUFFICES ASSUME i + 1 <= n PROVE after[i + 1] \in Stores
    OBVIOUS
  <2>2. PICK j \in 1..n : j = i + 1 /\ j # 0 /\ j \in 0..n /\ j - 1 = i
    BY <1>1, <2>1
  <2>3. after[j - 1] \in Stores
    BY <1>1, <1>13, <2>1, <2>2
  <2>4. after[j] = ApplyCommit(after[j - 1], batch[j])
    BY <1>11, <2>2, Zenon
  <2>5. QED
    BY <1>3, <2>2, <2>3, <2>4
<1> HIDE DEF T
<1>14. \A i \in Nat : i \in T
  BY <1>12, <1>13, InductiveSet
<1>15. \A i \in 0..n : after[i] \in Stores
  BY <1>1, <1>14 DEF T
<1>16. after \in [0..n -> Stores]
  <2>1. after = [i \in 0..n |-> after[i]]
    BY <1>10
  <2>2. QED
    BY <1>15, <2>1
<1>17. after[0] = start
  BY <1>1, <1>11
<1>18. ASSUME NEW i \in 1..n PROVE after[i] = ApplyCommit(after[i - 1], batch[i])
  <2>1. i \in 0..n /\ i # 0
    BY <1>1
  <2>2. QED
    BY <1>11, <2>1, Zenon
<1>19. QED
  BY <1>5, <1>16, <1>17, <1>18 DEF PassesThrough, n, start

(* What apply does, at any time: it writes well-typed tables, its ledger   *)
(* only grows and has every commit of a batch that was not refused, what   *)
(* was deleted stays deleted, and a batch it has the records of changes    *)
(* nothing.                                                                *)
LEMMA ApplyGains ==
    ASSUME NEW tables \in Tables, NEW seen \in Commit, NEW batch \in Seq(Settled)
    PROVE  LET U == Apply(tables, seen, batch)
           IN  /\ U \in Stores
               /\ Has(U.seen, seen)
               /\ U.ok => \A i \in 1..Len(batch) : Has(U.seen, batch[i])
               /\ StayDeleted(tables, U.tables)
               /\ (\A i \in 1..Len(batch) : Has(seen, batch[i])) => U = NothingDone(tables, seen)
<1> DEFINE n == Len(batch)
           start == NothingDone(tables, seen)
           Upto(i, U) ==
               /\ Has(U.seen, seen)
               /\ U.ok => \A j \in 1..i : Has(U.seen, batch[j])
               /\ StayDeleted(tables, U.tables)
               /\ (\A j \in 1..n : Has(seen, batch[j])) => U = start
<1>1. n \in Nat /\ \A i \in 1..n : batch[i] \in Settled
  OBVIOUS
<1>2. PICK after : /\ PassesThrough(after, tables, seen, batch)
                   /\ Apply(tables, seen, batch) = after[n]
  BY ApplyRuns
<1>3. /\ after \in [0..n -> Stores]
      /\ after[0] = start
      /\ \A i \in 1..n : after[i] = ApplyCommit(after[i - 1], batch[i])
  BY <1>2 DEF PassesThrough
<1> HIDE DEF n
<1> DEFINE T == {i \in Nat : i <= n => Upto(i, after[i])}
<1>4. 0 \in T
  <2>1. start.seen = seen /\ start.tables = tables
    BY DEF NothingDone
  <2>2. Upto(0, start)
    BY <2>1 DEF Has, StayDeleted
  <2>3. QED
    BY <1>3, <2>2
<1>5. ASSUME NEW i \in Nat, i \in T PROVE i + 1 \in T
  <2>1. SUFFICES ASSUME i + 1 <= n PROVE Upto(i + 1, after[i + 1])
    OBVIOUS
  <2>2. PICK old : old = after[i] /\ old \in Stores
    BY <1>1, <1>3, <2>1
  <2>3. Upto(i, old)
    BY <1>1, <1>5, <2>1, <2>2
  <2>4. i + 1 \in 1..n /\ i + 1 - 1 = i
    BY <1>1, <2>1
  <2>5. PICK commit \in Settled : commit = batch[i + 1]
    BY <1>1, <2>4
  <2>6. PICK U : U = after[i + 1] /\ U = ApplyCommit(old, commit)
    BY <1>3, <2>2, <2>4, <2>5
  <2>7. /\ Has(U.seen, old.seen)
        /\ U.ok => old.ok /\ Has(U.seen, commit)
        /\ StayDeleted(old.tables, U.tables)
        /\ Has(old.seen, commit) => U = old
    BY <2>2, <2>5, <2>6, ApplyCommitGains DEF Gains
  <2>8. Has(U.seen, seen)
    BY <2>3, <2>7 DEF Has
  <2>9. U.ok => \A j \in 1..i + 1 : Has(U.seen, batch[j])
    <3>1. \A j \in 1..i + 1 : j \in 1..i \/ j = i + 1
      OBVIOUS
    <3>2. U.ok => \A j \in 1..i : Has(U.seen, batch[j])
      BY <2>3, <2>7 DEF Has
    <3>3. QED
      BY <2>5, <2>7, <3>1, <3>2
  <2>10. StayDeleted(tables, U.tables)
    BY <2>3, <2>7 DEF StayDeleted
  <2>11. ASSUME \A j \in 1..n : Has(seen, batch[j]) PROVE U = start
    <3>1. old = start
      BY <2>3, <2>11
    <3>2. Has(old.seen, commit)
      BY <2>4, <2>5, <2>11, <3>1 DEF NothingDone
    <3>3. QED
      BY <2>7, <3>1, <3>2
  <2>12. QED
    BY <2>6, <2>8, <2>9, <2>10, <2>11
<1> HIDE DEF T, Upto
<1>6. \A i \in Nat : i \in T
  BY <1>4, <1>5, InductiveSet
<1>7. Upto(n, after[n]) /\ after[n] \in Stores
  BY <1>1, <1>3, <1>6 DEF T
<1>8. QED
  BY <1>2, <1>7 DEF Upto, n

(* The step appends one settled commit and keeps the entry ids in order.   *)
Appends == entry' \in [Key -> Nat] /\ \E new \in Settled : feed' = Append(feed, new)

(* A commit without source records is settled.                             *)
LEMMA SettledWithoutSources ==
    ASSUME NEW new \in Commit, new.sources = {}
    PROVE  new \in Settled
  BY DEF Settled

(* So is one whose source record is of a source that is there.             *)
LEMMA SettledWithOneSource ==
    ASSUME NEW new \in Commit, NEW s, new.sources = {SourceRecord(s)}, source'[s] # "absent"
    PROVE  new \in Settled
  BY DEF Settled, SourceRecord

(* Every operation of a store publishes a settled commit, also one whose   *)
(* rows came in from elsewhere.                                            *)
LEMMA OperationAppends ==
    ASSUME TypeOK, TypeOK', entry \in [Key -> Nat], feed \in Seq(Settled), FeedNext
    PROVE  Appends
<1> DEFINE SourceRecords == [id : Source, state : {"absent", "live", "deleted"},
                             capturedAt : ValidTime \cup {Open}, recordedAt : RecordTime \cup {Open}]
           ClaimRecords == [id : Source, row : ClaimRow]
           LinkRecords == [claim : Source, evidence : Source, relation : {"supports", "contradicts"}]
           ProfileEntries == [id : Nat, key : Key, claim : Source \cup {NoClaim},
                              at : RecordTime \cup {Open}]
<1>1. Commit = [sources : SUBSET SourceRecords, claims : SUBSET ClaimRecords,
                links : SUBSET LinkRecords, profiles : SUBSET ProfileEntries,
                reviews : SUBSET [id : Review, cited : SUBSET Source],
                corrections : SUBSET [claim : Source, old : Source],
                deletedSources : SUBSET Source, deletedEntries : SUBSET Nat,
                deletedReviews : SUBSET Review]
  BY DEF Commit
<1>2. \A s \in Source : SourceRecord(s) \in SourceRecords
  BY SourceRecordType
<1>3. \A c \in Source : ClaimRecord(c) \in ClaimRecords
  BY ClaimRecordType
<1>4. \A s, v, t : s \in Source /\ InsertSource(s, v, t) => source'[s] # "absent"
  BY DEF InsertSource, TypeOK
<1>5. \A c, e \in Source, x \in {"supports", "contradicts"} : LinkRecord(c, e, x) \in LinkRecords
  BY DEF LinkRecord
<1>6. \A c : EntriesOf(c) \subseteq Nat
  BY DEF EntriesOf
<1>7. DropEntries => entry' \in [Key -> Nat]
  BY DEF DropEntries
<1> HIDE DEF SourceRecords, ClaimRecords, LinkRecords, ProfileEntries
<1>8. ASSUME NEW s \in Source, NEW v \in ValidTime, NEW t \in RecordTime, RememberC(s, v, t)
      PROVE  Appends
  <2>1. source'[s] # "absent"
    BY <1>4, <1>8 DEF RememberC, Remember
  <2>2. RememberRecords(s) \in Commit /\ RememberRecords(s).sources = {SourceRecord(s)}
    BY <1>1, <1>2 DEF RememberRecords, NoRecords
  <2>3. RememberRecords(s) \in Settled
    BY <2>1, <2>2, SettledWithOneSource
  <2>4. QED
    BY <1>8, <2>3 DEF Appends, RememberC, Publish
<1>9. ASSUME NEW s \in Source, NEW v \in ValidTime, NEW t \in RecordTime,
              NEW input \in ClaimInput, RememberClaimC(s, v, t, input)
       PROVE  Appends
  <2>1. source'[s] # "absent"
    BY <1>4, <1>9 DEF RememberClaimC, RememberClaim
  <2>2. RememberClaimRecords(s) \in Commit /\ RememberClaimRecords(s).sources = {SourceRecord(s)}
    BY <1>1, <1>2, <1>3, <1>5 DEF RememberClaimRecords, NoRecords
  <2>3. RememberClaimRecords(s) \in Settled
    BY <2>1, <2>2, SettledWithOneSource
  <2>4. QED
    BY <1>9, <2>3 DEF Appends, RememberClaimC, Publish
<1>10. ASSUME NEW s \in Source, NEW v \in ValidTime, NEW t \in RecordTime,
              NEW old \in Source, CorrectC(old, s, v, t)
       PROVE  Appends
  <2>1. source'[s] # "absent"
    BY <1>4, <1>10 DEF CorrectC, Correct
  <2>2. {[claim |-> s, old |-> old]} \in SUBSET [claim : Source, old : Source]
    OBVIOUS
  <2>3. PICK new : new = CorrectionRecords(old, s)
    OBVIOUS
  <2>4. /\ new.sources = {SourceRecord(s)}
        /\ new \in Commit
    BY <1>1, <1>2, <1>3, <1>5, <1>6, <2>2, <2>3
       DEF CorrectionRecords, RememberClaimRecords, NoRecords
  <2>5. CorrectionRecords(old, s) \in Settled
    BY <2>1, <2>3, <2>4, SettledWithOneSource
  <2>6. QED
    BY <1>7, <1>10, <2>5 DEF Appends, CorrectC, Publish
<1>11. ASSUME NEW s \in Source, NEW t \in RecordTime, DeleteSourceC(s, t)
       PROVE  Appends
  <2> DEFINE gone == {entry[k] : k \in {x \in Key : profile[x] # NoClaim /\ Cites(profile[x], s)
                                                       /\ profile'[x] = NoClaim}}
             claims == {ClaimRecord(c) : c \in LosesSupport(s)}
             citing == {r \in Review : s \in review[r]}
  <2>1. DeletionRecords(s) = [NoRecords EXCEPT !.sources = {SourceRecord(s)},
                                               !.deletedSources = {s}, !.claims = claims,
                                               !.deletedEntries = gone, !.deletedReviews = citing]
    BY Zenon DEF DeletionRecords
  <2>2. source'[s] # "absent"
    BY <1>11 DEF DeleteSourceC, DeleteSource, TypeOK
  <2>3. claims \subseteq ClaimRecords /\ gone \subseteq Nat /\ citing \subseteq Review
    BY <1>3 DEF LosesSupport, Accepted
  <2> HIDE DEF gone, claims, citing
  <2>4. DeletionRecords(s) \in Commit /\ DeletionRecords(s).sources = {SourceRecord(s)}
    <3>1. PICK record \in SourceRecords : record = SourceRecord(s)
      BY <1>2
    <3>2. PICK new : new = DeletionRecords(s)
      OBVIOUS
    <3>3. new = [sources |-> {record}, claims |-> claims, links |-> {}, profiles |-> {},
                 reviews |-> {}, corrections |-> {}, deletedSources |-> {s},
                 deletedEntries |-> gone, deletedReviews |-> citing]
      BY <2>1, <3>1, <3>2 DEF NoRecords
    <3>4. {record} \subseteq SourceRecords /\ {s} \subseteq Source
      OBVIOUS
    <3>5. new \in Commit /\ new.sources = {record}
      BY <1>1, <2>3, <3>3, <3>4
    <3>6. QED
      BY <3>1, <3>2, <3>5
  <2>5. DeletionRecords(s) \in Settled
    BY <2>2, <2>4, SettledWithOneSource
  <2>6. QED
    BY <1>7, <1>11, <2>5 DEF Appends, DeleteSourceC, Publish
<1>12. ASSUME NEW c \in Source, NEW t \in RecordTime, PromoteC(c, t) \/ ArchiveC(c, t)
       PROVE  Appends
  <2>1. PICK new : new = [NoRecords EXCEPT !.claims = {ClaimRecord(c)}]
    OBVIOUS
  <2>2. new \in Commit /\ new.sources = {}
    BY <1>1, <1>3, <2>1 DEF NoRecords
  <2>3. QED
    BY <1>12, <2>1, <2>2, SettledWithoutSources DEF Appends, PromoteC, ArchiveC, Publish
<1>13. ASSUME NEW c \in Source, NEW e \in Source, LinkSupportC(c, e) \/ LinkContradictionC(c, e)
       PROVE  Appends
  <2>1. PICK x \in {"supports", "contradicts"} :
           /\ feed' = Append(feed, [NoRecords EXCEPT !.links = {LinkRecord(c, e, x)}])
           /\ UNCHANGED entry
    BY <1>13 DEF LinkSupportC, LinkContradictionC, Publish
  <2>2. PICK new : new = [NoRecords EXCEPT !.links = {LinkRecord(c, e, x)}]
    OBVIOUS
  <2>3. new \in Commit /\ new.sources = {}
    BY <1>1, <1>5, <2>2 DEF NoRecords
  <2>4. QED
    BY <2>1, <2>2, <2>3, SettledWithoutSources DEF Appends
<1>14. ASSUME NEW c \in Source, NEW t \in RecordTime, StoreProfileC(c, t)
       PROVE  Appends
  <2>1. PICK k \in Key : k = claim[c].key
    BY <1>14 DEF StoreProfileC, StoreProfile, ProfileFact, TypeOK, ClaimRow
  <2>2. entry' = [entry EXCEPT ![k] = IF profile[k] = NoClaim THEN Len(feed) + 1 ELSE @]
    BY <1>14, <2>1 DEF StoreProfileC
  <2>3. entry' \in [Key -> Nat]
    BY <2>2
  <2>4. feed' = Append(feed, ProfileRecords(k))
    BY <1>14, <2>1 DEF StoreProfileC, Publish
  <2>5. PICK p : p = [id |-> entry'[k], key |-> k, claim |-> profile'[k], at |-> profileAt'[k]]
    OBVIOUS
  <2>6. p \in ProfileEntries
    BY <2>3, <2>5 DEF ProfileEntries, TypeOK
  <2>7. PICK new : new = ProfileRecords(k)
    OBVIOUS
  <2>8. new = [NoRecords EXCEPT !.profiles = {p}]
    BY <2>5, <2>7, Zenon DEF ProfileRecords
  <2>9. new \in Commit /\ new.sources = {}
    BY <1>1, <2>6, <2>8 DEF NoRecords
  <2>10. QED
    BY <2>3, <2>4, <2>7, <2>9, SettledWithoutSources DEF Appends
<1>15. ASSUME NEW r \in Review, NEW cited \in SUBSET Source, StoreReviewC(r, cited)
       PROVE  Appends
  <2>1. [id |-> r, cited |-> cited] \in [id : Review, cited : SUBSET Source]
    OBVIOUS
  <2>2. PICK new : new = [NoRecords EXCEPT !.reviews = {[id |-> r, cited |-> cited]}]
    OBVIOUS
  <2>3. new \in Commit /\ new.sources = {}
    BY <1>1, <2>1, <2>2 DEF NoRecords
  <2>4. QED
    BY <1>15, <2>2, <2>3, SettledWithoutSources DEF Appends, StoreReviewC, Publish
<1>16. QED
  BY <1>8, <1>9, <1>10, <1>11, <1>12, <1>13, <1>14, <1>15 DEF FeedNext

(* A source of the store that is deleted stays so, by any operation.       *)
LEMMA OperationKeepsTombstones ==
    ASSUME TypeOK, Next, NEW s \in Source, source[s] = "deleted"
    PROVE  source'[s] = "deleted"
<1>1. \A x \in Source : \A v, t : InsertSource(x, v, t) => source'[s] = "deleted"
  BY DEF InsertSource, TypeOK
<1>2. \A x \in Source : \A t : DeleteSource(x, t) => source'[s] = "deleted"
  BY DEF DeleteSource, TypeOK
<1>3. QED
  BY <1>1, <1>2 DEF Next, Remember, RememberClaim, Correct, Promote, Archive, StoreProfile,
                    LinkSupport, LinkContradiction, StoreReview

(* The first n commits of a log are in a ledger.                           *)
HasUpTo(seen, log, n) == n \in 0..Len(log) /\ \A i \in 1..n : Has(seen, log[i])

(* What a host hands over is a run of the log.                             *)
LEMMA BatchIsARun ==
    ASSUME NEW log \in Seq(Settled), NEW cursor \in 0..Len(log), NEW range \in Batches(cursor, log)
    PROVE  \E a \in 1..Len(log), b \in 1..Len(log) :
              /\ a <= cursor + 1 /\ a <= b /\ b = range[2]
              /\ Batch(range, log) \in Seq(Settled)
              /\ Len(Batch(range, log)) = b - a + 1
              /\ \A i \in 1..b - a + 1 : Batch(range, log)[i] = log[a + i - 1]
<1>1. PICK a \in 1..Len(log), b \in 1..Len(log) :
         /\ range[1] = a /\ range[2] = b
         /\ a <= cursor + 1 /\ a <= b
  BY DEF Batches
<1>2. Batch(range, log) = SubSeq(log, a, b)
  BY <1>1 DEF Batch
<1>3. Len(log) \in Nat
  OBVIOUS
<1>4. /\ SubSeq(log, a, b) \in Seq(Settled)
      /\ Len(SubSeq(log, a, b)) = b - a + 1
      /\ \A i \in 1..b - a + 1 : SubSeq(log, a, b)[i] = log[a + i - 1]
  BY <1>1, <1>3
<1>5. /\ Batch(range, log) \in Seq(Settled)
      /\ Len(Batch(range, log)) = b - a + 1
      /\ \A i \in 1..b - a + 1 : Batch(range, log)[i] = log[a + i - 1]
  BY ONLY <1>2, <1>4
<1>6. a <= cursor + 1 /\ a <= b /\ b = range[2]
  BY <1>1
<1>7. QED
  <2>1. WITNESS a \in 1..Len(log), b \in 1..Len(log)
  <2>2. QED
    BY ONLY <1>5, <1>6

(* A batch that was taken: the cursor and the ledger go together.          *)
LEMMA TakenBatch ==
    ASSUME NEW tables \in Tables, NEW seen \in Commit, NEW log \in Seq(Settled), NEW cursor,
           HasUpTo(seen, log, cursor), NEW range \in Batches(cursor, log)
    PROVE  LET U == Apply(tables, seen, Batch(range, log))
           IN  /\ U \in Stores
               /\ Has(U.seen, seen)
               /\ StayDeleted(tables, U.tables)
               /\ U.ok => HasUpTo(U.seen, log, Further(cursor, range))
               /\ range[2] <= cursor => U = NothingDone(tables, seen)
<1>1. cursor \in 0..Len(log) /\ \A i \in 1..cursor : Has(seen, log[i])
  BY DEF HasUpTo
<1>2. PICK a \in 1..Len(log), b \in 1..Len(log) :
         /\ a <= cursor + 1 /\ a <= b /\ b = range[2]
         /\ Batch(range, log) \in Seq(Settled)
         /\ Len(Batch(range, log)) = b - a + 1
         /\ \A i \in 1..b - a + 1 : Batch(range, log)[i] = log[a + i - 1]
  BY <1>1, BatchIsARun
<1>3. PICK batch \in Seq(Settled) : batch = Batch(range, log)
  BY <1>2
<1>4. PICK U : U = Apply(tables, seen, batch)
  OBVIOUS
<1>5. /\ U \in Stores
      /\ Has(U.seen, seen)
      /\ U.ok => \A i \in 1..Len(batch) : Has(U.seen, batch[i])
      /\ StayDeleted(tables, U.tables)
      /\ (\A i \in 1..Len(batch) : Has(seen, batch[i])) => U = NothingDone(tables, seen)
  BY <1>4, ApplyGains
<1>6. \A j \in 1..Len(log) : a <= j /\ j <= b => j - a + 1 \in 1..Len(batch) /\ batch[j - a + 1] = log[j]
  <2>1. SUFFICES ASSUME NEW j \in 1..Len(log), a <= j, j <= b
                 PROVE  j - a + 1 \in 1..Len(batch) /\ batch[j - a + 1] = log[j]
    OBVIOUS
  <2>2. PICK i \in 1..b - a + 1 : i = j - a + 1 /\ a + i - 1 = j
    BY <2>1
  <2>3. QED
    BY <1>2, <1>3, <2>2
<1>7. \A i \in 1..Len(batch) : a + i - 1 \in 1..b /\ batch[i] = log[a + i - 1]
  <2>1. SUFFICES ASSUME NEW i \in 1..b - a + 1 PROVE a + i - 1 \in 1..b
    BY <1>2, <1>3
  <2>2. QED
    OBVIOUS
<1>8. U.ok => HasUpTo(U.seen, log, Further(cursor, range))
  <2>1. Further(cursor, range) = IF b > cursor THEN b ELSE cursor
    BY <1>2 DEF Further
  <2>2. Further(cursor, range) \in 0..Len(log)
    BY <1>1, <2>1
  <2>3. \A i \in 1..cursor : Has(U.seen, log[i])
    BY <1>1, <1>5 DEF Has
  <2>4. ASSUME U.ok, NEW i \in 1..Further(cursor, range) PROVE Has(U.seen, log[i])
    <3>1. CASE i \in 1..cursor
      BY <2>3, <3>1
    <3>2. CASE i \notin 1..cursor
      <4>1. i \in 1..Len(log) /\ a <= i /\ i <= b
        BY <1>1, <1>2, <2>1, <3>2
      <4>2. QED
        BY <1>5, <1>6, <2>4, <4>1
    <3>3. QED
      BY <3>1, <3>2
  <2>5. QED
    BY <2>2, <2>4 DEF HasUpTo
<1>9. ASSUME b <= cursor PROVE U = NothingDone(tables, seen)
  <2>1. \A i \in 1..Len(batch) : a + i - 1 \in 1..cursor
    BY <1>1, <1>7, <1>9
  <2>2. QED
    BY <1>1, <1>5, <1>7, <2>1
<1>10. QED
  BY <1>2, <1>3, <1>4, <1>5, <1>8, <1>9

(* The two stores, each with a feed and with what it remembers of the      *)
(* feed of the other.                                                      *)
EchoInv ==
    /\ TypeOK
    /\ entry \in [Key -> Nat]
    /\ mirror \in Tables
    /\ feed \in Seq(Settled) /\ mirrorFeed \in Seq(Settled)
    /\ ledger \in Commit /\ HasUpTo(ledger, feed, applied)
    /\ echoLedger \in Commit /\ HasUpTo(echoLedger, mirrorFeed, echoed)

(* A log that grows keeps the commits a ledger has.                        *)
LEMMA HasUpToGrows ==
    ASSUME NEW seen, NEW log \in Seq(Settled), NEW more \in Seq(Settled), NEW n,
           HasUpTo(seen, log, n)
    PROVE  HasUpTo(seen, log \o more, n)
<1>1. Len(log \o more) = Len(log) + Len(more) /\ Len(log) \in Nat /\ Len(more) \in Nat
  OBVIOUS
<1>2. \A i \in 1..n : (log \o more)[i] = log[i]
  BY <1>1 DEF HasUpTo
<1>3. QED
  BY <1>1, <1>2 DEF HasUpTo

(* It holds at the start,                                                  *)
LEMMA EchoStart == ReplicationInit => EchoInv
<1> SUFFICES ASSUME ReplicationInit PROVE EchoInv
  OBVIOUS
<1>1. TypeOK /\ entry \in [Key -> Nat]
  BY TypeInit DEF ReplicationInit, FeedInit
<1>2. Here \in Tables
  BY <1>1, HereTyped
<1>3. NoRecords \in Commit
  BY DEF NoRecords, Commit
<1>4. feed = <<>> /\ mirrorFeed = <<>> /\ applied = 0 /\ echoed = 0
  BY DEF ReplicationInit, FeedInit
<1>5. feed \in Seq(Settled) /\ mirrorFeed \in Seq(Settled) /\ Len(feed) = 0 /\ Len(mirrorFeed) = 0
  BY <1>4
<1>6. HasUpTo(ledger, feed, applied) /\ HasUpTo(echoLedger, mirrorFeed, echoed)
  BY <1>4, <1>5 DEF HasUpTo
<1>7. QED
  BY <1>1, <1>2, <1>3, <1>5, <1>6 DEF EchoInv, ReplicationInit

(* What a source has on either side of the link keeps its tombstone.       *)
TombstonesStayOnBothSides ==
    \A s \in Source : /\ source[s] = "deleted" => source'[s] = "deleted"
                      /\ mirror.source[s] = "deleted" => mirror'.source[s] = "deleted"

(* an operation of the store keeps it,                                     *)
LEMMA EchoOperate ==
    ASSUME EchoInv, Operate
    PROVE  EchoInv' /\ TombstonesStayOnBothSides
<1>1. FeedNext /\ Next /\ UNCHANGED <<mirror, ledger, mirrorFeed, applied, echoLedger, echoed>>
  BY OperationIsNext DEF Operate, mirrorVars, echoVars
<1>2. TypeOK /\ TypeOK' /\ entry \in [Key -> Nat] /\ feed \in Seq(Settled)
  BY <1>1, TypeStep DEF EchoInv
<1>3. PICK new \in Settled : feed' = Append(feed, new) /\ entry' \in [Key -> Nat]
  BY <1>1, <1>2, OperationAppends DEF Appends
<1>4. feed' = feed \o <<new>> /\ <<new>> \in Seq(Settled) /\ feed' \in Seq(Settled)
  BY <1>2, <1>3
<1>5. HasUpTo(ledger, feed', applied)
  BY <1>2, <1>4, HasUpToGrows DEF EchoInv
<1>6. EchoInv'
  BY <1>1, <1>2, <1>3, <1>4, <1>5 DEF EchoInv
<1>7. TombstonesStayOnBothSides
  BY <1>1, <1>2, OperationKeepsTombstones DEF TombstonesStayOnBothSides
<1>8. QED
  BY <1>6, <1>7

(* so does a batch for the replica,                                        *)
LEMMA EchoDeliver ==
    ASSUME EchoInv, DeliverSome
    PROVE  EchoInv' /\ TombstonesStayOnBothSides
<1>1. PICK range \in Batches(applied, feed) : Deliver(range)
  BY DEF DeliverSome
<1>2. PICK U : U = Apply(mirror, ledger, Batch(range, feed))
  OBVIOUS
<1>3. /\ U.ok /\ mirror' = U.tables /\ ledger' = U.seen /\ mirrorFeed' = mirrorFeed \o U.commits
      /\ applied' = Further(applied, range)
      /\ UNCHANGED <<feedVars, echoLedger, echoed>>
  BY <1>1, <1>2 DEF Deliver, echoVars
<1>4. /\ U \in Stores /\ StayDeleted(mirror, U.tables)
      /\ HasUpTo(U.seen, feed, Further(applied, range))
  BY <1>2, <1>3, TakenBatch DEF EchoInv
<1>5. U.tables \in Tables /\ U.seen \in Commit /\ U.commits \in Seq(Settled)
  BY <1>4 DEF Stores
<1>6. mirrorFeed' \in Seq(Settled) /\ HasUpTo(echoLedger, mirrorFeed', echoed)
  BY <1>3, <1>5, HasUpToGrows DEF EchoInv
<1>7. TypeOK' /\ entry' = entry /\ feed' = feed /\ source' = source
  BY <1>3 DEF EchoInv, feedVars, vars, TypeOK
<1>8. EchoInv'
  BY <1>3, <1>4, <1>5, <1>6, <1>7 DEF EchoInv
<1>9. TombstonesStayOnBothSides
  BY <1>3, <1>4, <1>7 DEF TombstonesStayOnBothSides, StayDeleted
<1>10. QED
  BY <1>8, <1>9

(* and so does one that goes back.                                         *)
LEMMA EchoBack ==
    ASSUME EchoInv, EchoSome
    PROVE  EchoInv' /\ TombstonesStayOnBothSides
<1>1. PICK range \in Batches(echoed, mirrorFeed) : Echo(range)
  BY DEF EchoSome
<1>2. PICK U : U = Apply(Here, echoLedger, Batch(range, mirrorFeed))
  OBVIOUS
<1>3. /\ U.ok /\ Here' = U.tables /\ echoLedger' = U.seen /\ feed' = feed \o U.commits
      /\ echoed' = Further(echoed, range)
      /\ UNCHANGED <<mirror, ledger, mirrorFeed, applied>>
  <2>1. /\ U.ok /\ echoLedger' = U.seen /\ feed' = feed \o U.commits
        /\ echoed' = Further(echoed, range)
        /\ UNCHANGED <<mirror, ledger, mirrorFeed, applied>>
        /\ source' = U.tables.source /\ validFrom' = U.tables.validFrom
        /\ recordedAt' = U.tables.recordedAt /\ claim' = U.tables.claim
        /\ supports' = U.tables.supports /\ contradicts' = U.tables.contradicts
        /\ corrects' = U.tables.corrects /\ profile' = U.tables.profile
        /\ profileAt' = U.tables.profileAt /\ entry' = U.tables.entry
        /\ review' = U.tables.review
    BY <1>1, <1>2 DEF Echo, mirrorVars
  <2>2. Here \in Tables
    BY HereTyped DEF EchoInv
  <2>3. U.tables \in Tables
    BY <1>2, <2>2, TakenBatch DEF EchoInv, Stores
  <2>4. U.tables = [source |-> U.tables.source, validFrom |-> U.tables.validFrom,
                    recordedAt |-> U.tables.recordedAt, claim |-> U.tables.claim,
                    supports |-> U.tables.supports, contradicts |-> U.tables.contradicts,
                    corrects |-> U.tables.corrects, profile |-> U.tables.profile,
                    profileAt |-> U.tables.profileAt, entry |-> U.tables.entry,
                    review |-> U.tables.review]
    BY <2>3 DEF Tables
  <2>5. Here' = U.tables
    BY <2>1, <2>4 DEF Here
  <2>6. QED
    BY <2>1, <2>5
<1>4. /\ U \in Stores /\ StayDeleted(Here, U.tables)
      /\ HasUpTo(U.seen, mirrorFeed, Further(echoed, range))
  BY <1>2, <1>3, TakenBatch, HereTyped DEF EchoInv
<1>5. U.tables \in Tables /\ U.seen \in Commit /\ U.commits \in Seq(Settled)
  BY <1>4 DEF Stores
<1>6. feed' \in Seq(Settled) /\ HasUpTo(ledger, feed', applied)
  BY <1>3, <1>5, HasUpToGrows DEF EchoInv
<1>7. TypeOK' /\ entry' \in [Key -> Nat]
  BY <1>3, <1>5 DEF Tables, Here, TypeOK
<1>8. EchoInv'
  BY <1>3, <1>4, <1>5, <1>6, <1>7 DEF EchoInv
<1>9. Here.source = source /\ Here'.source = source'
  BY DEF Here
<1>10. TombstonesStayOnBothSides
  BY <1>3, <1>4, <1>9 DEF TombstonesStayOnBothSides, StayDeleted
<1>11. QED
  BY <1>8, <1>10

(* So does every step,                                                     *)
LEMMA EchoStep ==
    ASSUME EchoInv, [Operate \/ DeliverSome \/ EchoSome]_allVars
    PROVE  EchoInv' /\ TombstonesStayOnBothSides
<1>1. CASE UNCHANGED allVars
  BY <1>1 DEF EchoInv, TypeOK, TombstonesStayOnBothSides, allVars, feedVars, vars, mirrorVars, echoVars
<1>2. QED
  BY <1>1, EchoOperate, EchoDeliver, EchoBack

(* and it is an invariant of two stores that feed each other.              *)
LEMMA EchoCorrect == EchoSpec => []EchoInv
<1>1. EchoInv /\ [Operate \/ DeliverSome \/ EchoSome]_allVars => EchoInv'
  BY EchoStep
<1>2. QED
  BY <1>1, EchoStart, PTL DEF EchoSpec

(* A batch the host has had an answer for, or did not hear the answer of,  *)
(* can be sent again at any time: apply finds every record in its ledger   *)
(* and writes nothing (apply.rs, check_seen).                          *)
THEOREM RedeliveryIsHarmless == EchoSpec => []RedeliveryChangesNothing
<1>1. EchoInv => RedeliveryChangesNothing
  BY TakenBatch, HereTyped DEF EchoInv, RedeliveryChangesNothing
<1>2. QED
  BY <1>1, EchoCorrect, PTL

(* No commit apply takes, from either side and in any order the hosts may  *)
(* deliver, brings back a source that was deleted.                         *)
THEOREM NoSourceComesBack == EchoSpec => DeletionsAreFinal
<1>1. EchoInv /\ [Operate \/ DeliverSome \/ EchoSome]_allVars
        => [\A s \in Source :
               /\ source[s] = "deleted" => source'[s] = "deleted"
               /\ mirror.source[s] = "deleted" => mirror'.source[s] = "deleted"]_<<source, mirror>>
  BY EchoStep DEF TombstonesStayOnBothSides
<1>2. QED
  BY <1>1, EchoCorrect, PTL DEF EchoSpec, DeletionsAreFinal

(* A ledger has every record of a log, in which no record is twice and no  *)
(* commit is empty.                                                        *)
Once(log, seen) ==
    /\ \A i \in 1..Len(log) : log[i] # NoRecords /\ Has(seen, log[i])
    /\ Disjoint(log)

(* The next commit leaves it so, when it has nothing of the ledger.        *)
LEMMA OnceMore ==
    ASSUME NEW log \in Seq(Settled), NEW seen \in Commit, Once(log, seen), NEW new \in Settled,
           new # NoRecords, \A kind \in Kinds : new[kind] \cap seen[kind] = {}
    PROVE  Once(Append(log, new), Remembered(seen, new))
<1> DEFINE more == Append(log, new)
<1>1. /\ Len(log) \in Nat /\ Len(more) = Len(log) + 1
      /\ \A i \in 1..Len(log) : more[i] = log[i]
      /\ more[Len(log) + 1] = new
  OBVIOUS
<1>2. \A kind \in Kinds : Remembered(seen, new)[kind] = seen[kind] \cup new[kind]
  BY RememberedType DEF Settled
<1>3. \A i \in 1..Len(more) : i \in 1..Len(log) \/ i = Len(log) + 1
  BY <1>1
<1> HIDE DEF more
<1>4. \A i \in 1..Len(log) : more[i] # NoRecords /\ Has(Remembered(seen, new), more[i])
  BY <1>1, <1>2 DEF Once, Has
<1>5. Has(Remembered(seen, new), new)
  BY <1>2 DEF Has
<1>6. ASSUME NEW i \in 1..Len(more), NEW j \in 1..Len(more), i < j, NEW kind \in Kinds
      PROVE  more[i][kind] \cap more[j][kind] = {}
  <2>1. i \in 1..Len(log)
    BY <1>1, <1>6
  <2>2. CASE j \in 1..Len(log)
    BY <1>1, <1>6, <2>1, <2>2 DEF Once, Disjoint
  <2>3. CASE j = Len(log) + 1
    <3>1. log[i][kind] \subseteq seen[kind]
      BY <2>1 DEF Once, Has
    <3>2. QED
      BY <1>1, <2>1, <2>3, <3>1
  <2>4. QED
    BY <1>3, <2>2, <2>3
<1>7. QED
  BY <1>1, <1>3, <1>4, <1>5, <1>6 DEF Once, Disjoint, more

(* apply_commit publishes what it has not published before.                *)
LEMMA ApplyCommitOnce ==
    ASSUME NEW past \in Seq(Settled), NEW store \in Stores, NEW commit \in Settled,
           Once(past \o store.commits, store.seen)
    PROVE  LET U == ApplyCommit(store, commit)
           IN  Once(past \o U.commits, U.seen)
<1>1. PICK new : new = Unseen(commit, store.seen)
  OBVIOUS
<1>2. PICK U : U = ApplyCommit(store, commit)
  OBVIOUS
<1>3. /\ new \in Settled
      /\ \A kind \in Kinds : new[kind] = commit[kind] \ store.seen[kind]
  BY <1>1, UnseenIsSettled
<1>4. store.seen \in Commit /\ store.commits \in Seq(Settled)
  BY DEF Stores
<1>5. CASE ~store.ok \/ new = NoRecords
  BY <1>1, <1>2, <1>5 DEF ApplyCommit
<1>6. CASE store.ok /\ new # NoRecords /\ Refused(store.tables, new)
  <2>1. U = [store EXCEPT !.ok = FALSE]
    BY <1>1, <1>2, <1>6 DEF ApplyCommit
  <2>2. U.commits = store.commits /\ U.seen = store.seen
    BY <2>1 DEF Stores
  <2>3. QED
    BY <1>2, <2>2
<1>7. CASE store.ok /\ new # NoRecords /\ ~Refused(store.tables, new)
  <2>1. U = [tables |-> Materialized(store.tables, new), seen |-> Remembered(store.seen, new),
             commits |-> Append(store.commits, new), ok |-> TRUE]
    BY <1>1, <1>2, <1>7 DEF ApplyCommit
  <2>2. U.commits = Append(store.commits, new) /\ U.seen = Remembered(store.seen, new)
    BY <2>1
  <2>3. PICK log \in Seq(Settled) : log = past \o store.commits
    <3>1. \A more \in Seq(Settled) : past \o more \in Seq(Settled)
      OBVIOUS
    <3>2. QED
      BY <1>4, <3>1
  <2>4. past \o Append(store.commits, new) = Append(log, new)
    BY <1>3, <1>4, <2>3
  <2>5. \A kind \in Kinds : new[kind] \cap store.seen[kind] = {}
    BY <1>3
  <2>6. Once(Append(log, new), Remembered(store.seen, new))
    BY <1>3, <1>4, <1>7, <2>3, <2>5, OnceMore
  <2>7. QED
    BY <1>2, <2>2, <2>4, <2>6
<1>8. QED
  BY <1>5, <1>6, <1>7 DEF Stores

(* So does a batch.                                                        *)
LEMMA ApplyOnce ==
    ASSUME NEW past \in Seq(Settled), NEW tables \in Tables, NEW seen \in Commit,
           NEW batch \in Seq(Settled), Once(past, seen)
    PROVE  LET U == Apply(tables, seen, batch)
           IN  Once(past \o U.commits, U.seen)
<1> DEFINE n == Len(batch)
<1>1. n \in Nat /\ \A i \in 1..n : batch[i] \in Settled
  OBVIOUS
<1>2. PICK after : /\ PassesThrough(after, tables, seen, batch)
                   /\ Apply(tables, seen, batch) = after[n]
  BY ApplyRuns
<1>3. /\ after \in [0..n -> Stores]
      /\ after[0] = NothingDone(tables, seen)
      /\ \A i \in 1..n : after[i] = ApplyCommit(after[i - 1], batch[i])
  BY <1>2 DEF PassesThrough
<1> HIDE DEF n
<1> DEFINE T == {i \in Nat : i <= n => Once(past \o after[i].commits, after[i].seen)}
<1>4. 0 \in T
  <2>1. after[0].commits = <<>> /\ after[0].seen = seen
    BY <1>3 DEF NothingDone
  <2>2. past \o <<>> = past
    OBVIOUS
  <2>3. QED
    BY <2>1, <2>2
<1>5. ASSUME NEW i \in Nat, i \in T PROVE i + 1 \in T
  <2>1. SUFFICES ASSUME i + 1 <= n PROVE Once(past \o after[i + 1].commits, after[i + 1].seen)
    OBVIOUS
  <2>2. PICK old : old = after[i] /\ old \in Stores
    BY <1>1, <1>3, <2>1
  <2>3. Once(past \o old.commits, old.seen)
    BY <1>1, <1>5, <2>1, <2>2
  <2>4. i + 1 \in 1..n /\ i + 1 - 1 = i
    BY <1>1, <2>1
  <2>5. PICK commit \in Settled : commit = batch[i + 1]
    BY <1>1, <2>4
  <2>6. after[i + 1] = ApplyCommit(old, commit)
    BY <1>3, <2>2, <2>4, <2>5
  <2>7. QED
    BY <2>2, <2>3, <2>5, <2>6, ApplyCommitOnce
<1> HIDE DEF T
<1>6. \A i \in Nat : i \in T
  BY <1>4, <1>5, InductiveSet
<1>7. Once(past \o after[n].commits, after[n].seen)
  BY <1>1, <1>6 DEF T
<1>8. QED
  BY <1>2, <1>7

(* The ledger of the replica has its feed, step by step.                   *)
LEMMA OnceStep ==
    ASSUME EchoInv, Once(mirrorFeed, ledger), [Operate \/ DeliverSome \/ EchoSome]_allVars
    PROVE  Once(mirrorFeed, ledger)'
<1>1. CASE UNCHANGED <<mirrorFeed, ledger>>
  BY <1>1 DEF Once
<1>2. CASE DeliverSome
  <2>1. PICK range \in Batches(applied, feed) : Deliver(range)
    BY <1>2 DEF DeliverSome
  <2>2. PICK batch : batch = Batch(range, feed)
    OBVIOUS
  <2>3. applied \in 0..Len(feed) /\ feed \in Seq(Settled) /\ mirrorFeed \in Seq(Settled)
        /\ mirror \in Tables /\ ledger \in Commit
    BY DEF EchoInv, HasUpTo
  <2>4. batch \in Seq(Settled)
    BY <2>2, <2>3, BatchIsARun
  <2>5. PICK U : U = Apply(mirror, ledger, batch)
    OBVIOUS
  <2>6. mirrorFeed' = mirrorFeed \o U.commits /\ ledger' = U.seen
    BY <2>1, <2>2, <2>5 DEF Deliver
  <2>7. Once(mirrorFeed \o U.commits, U.seen)
    BY <2>3, <2>4, <2>5, ApplyOnce
  <2>8. QED
    BY <2>6, <2>7
<1>3. QED
  BY <1>1, <1>2 DEF Operate, EchoSome, Echo, mirrorVars, allVars

(* A replica that is fed by a store which takes its records back publishes *)
(* each record once and no empty commit: an echo does not go round and     *)
(* round (apply.rs, accepted).                                             *)
THEOREM RecordsArePassedOnOnce == EchoSpec => []PassedOnOnce
<1>1. ReplicationInit => Once(mirrorFeed, ledger)
  <2>1. Len(<<>>) = 0
    OBVIOUS
  <2>2. QED
    BY <2>1 DEF ReplicationInit, Once, Disjoint
<1>2. EchoInv /\ Once(mirrorFeed, ledger) /\ [Operate \/ DeliverSome \/ EchoSome]_allVars
        => Once(mirrorFeed, ledger)'
  BY OnceStep
<1>3. EchoInv /\ Once(mirrorFeed, ledger) => PassedOnOnce
  <2>1. SUFFICES ASSUME EchoInv, Once(mirrorFeed, ledger) PROVE PassedOnOnce
    OBVIOUS
  <2>2. mirrorFeed \in Seq(Settled)
    BY <2>1 DEF EchoInv
  <2>3. DOMAIN mirrorFeed = 1..Len(mirrorFeed) /\ \A i \in 1..Len(mirrorFeed) : mirrorFeed[i] \in Commit
    BY <2>2 DEF Settled
  <2>4. \A i \in 1..Len(mirrorFeed) : DOMAIN mirrorFeed[i] = Kinds
    BY <2>3, CommitShape
  <2>5. QED
    BY <2>1, <2>3, <2>4 DEF Once, Disjoint, PassedOnOnce
<1>4. QED
  BY <1>1, <1>2, <1>3, EchoCorrect, PTL DEF EchoSpec
================================================================================
