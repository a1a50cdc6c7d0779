--------------------------- MODULE HermesQueueProofs ---------------------------
(***************************************************************************)
(* The safety of the Hermes queue for any number of turns, providers,      *)
(* processes, attempts and faults.  What makes the properties              *)
(* inductive is QueueInv: what a worker or an orphaned child is busy with  *)
(* was the head of the queue when it was read, so nothing captured earlier *)
(* is pending any more, and a row is deleted only after its commit.        *)
(***************************************************************************)
EXTENDS HermesQueue, TLAPS

Busy(p) == worker[p] \in InCriticalSection

(* Nothing captured before u is still queued.                              *)
NothingAhead(u) == \A t \in Enqueued : rowId[t] < rowId[u] => t \notin pending

QueueInv ==
    /\ TypeOK
    /\ \A t \in Turn : rowId[t] <= lastRowId
    /\ pending \subseteq Enqueued /\ orphans \subseteq Enqueued
    /\ \A t \in Turn : copies[t] > 0 => t \in Enqueued
    /\ \A p \in Provider : Busy(p) => held[p] \in Enqueued /\ NothingAhead(held[p])
    /\ \A p \in Provider : child[p] # "none" => worker[p] = "remembering"
    /\ \A p \in Provider :
          worker[p] = "stored" \/ child[p] = "committed" => copies[held[p]] > 0
    /\ \A t \in orphans : NothingAhead(t)
    /\ \A t \in Turn : copies[t] > 0 => NothingAhead(t)
    /\ NoTurnIsLost

LEMMA QueueInit == Init => QueueInv
  BY QueueAssumption DEF Init, QueueInv, TypeOK, WorkerState, Busy, InCriticalSection,
     NothingAhead, Enqueued, NoTurnIsLost

(* sync_turn hands out an id above every other one.                        *)
LEMMA SyncTurnInv ==
    ASSUME QueueInv, NEW p \in Provider, NEW t \in Turn, SyncTurn(p, t)
    PROVE  QueueInv'
<1>1. /\ t \notin Enqueued
      /\ rowId' = [rowId EXCEPT ![t] = lastRowId + 1]
      /\ lastRowId' = lastRowId + 1
      /\ pending' = pending \cup {t}
      /\ UNCHANGED <<scope, attempts, failed, storeVars, held, heldTries, child, orphans, faults>>
  BY DEF SyncTurn, NextId, Enqueued
<1>2. /\ rowId'[t] = lastRowId + 1 /\ rowId'[t] # 0
      /\ \A u \in Turn \ {t} : rowId'[u] = rowId[u]
      /\ \A u \in Turn : rowId'[u] <= lastRowId + 1
  BY <1>1 DEF QueueInv, TypeOK
<1>3. Enqueued' = Enqueued \cup {t}
  BY <1>1, <1>2 DEF Enqueued
<1>4. /\ worker' \in [Provider -> WorkerState] /\ stop' \in [Provider -> BOOLEAN]
      /\ \A q \in Provider : worker'[q] = worker[q] \/ (worker[q] = "off" /\ worker'[q] = "ready")
  <2>1. worker \in [Provider -> WorkerState] /\ stop \in [Provider -> BOOLEAN]
    BY DEF QueueInv, TypeOK
  <2> QED
    BY <2>1 DEF SyncTurn, StartWorker, WorkerState
<1>5. TypeOK'
  BY <1>1, <1>4 DEF QueueInv, TypeOK, storeVars
<1>6. \A u \in Enqueued : NothingAhead(u) => NothingAhead(u)'
  <2> SUFFICES ASSUME NEW u \in Enqueued, NothingAhead(u), NEW w \in Enqueued',
                      rowId'[w] < rowId'[u]
               PROVE  w \notin pending'
    BY DEF NothingAhead
  <2>1. u # t /\ u \in Turn
    BY <1>1 DEF Enqueued
  <2>2. w # t
    BY <1>1, <1>2, <2>1 DEF QueueInv, TypeOK
  <2> QED
    BY <1>1, <1>2, <1>3, <2>1, <2>2 DEF NothingAhead, Enqueued
<1>7. \A q \in Provider : Busy(q)' => Busy(q) /\ worker'[q] = worker[q]
  BY <1>4 DEF Busy, InCriticalSection
<1> QED
  BY <1>1, <1>2, <1>3, <1>4, <1>5, <1>6, <1>7
     DEF QueueInv, NoTurnIsLost, storeVars, Busy, InCriticalSection

(* Steps that change neither a row's id nor what is stored keep what is    *)
(* ahead of a turn gone, as rows only leave the queue.                     *)
LEMMA NothingAheadKept ==
    ASSUME NEW u, NothingAhead(u), UNCHANGED rowId, pending' \subseteq pending
    PROVE  NothingAhead(u)'
  BY DEF NothingAhead, Enqueued

(* What a worker does between two looks at the queue.                      *)
LEMMA WorkerStepInv ==
    ASSUME QueueInv, NEW p \in Provider, WorkerStep(p)
    PROVE  QueueInv'
<1>1. UNCHANGED <<rowId, lastRowId, scope, deleted, stop, orphans, faults>>
  BY DEF WorkerStep, TakeHead, FindEmpty, LeaveIdle, Exit, QuarantineForeign, Send, ChildCommits, Store,
     AnswerOk, AnswerFails, DeleteRow, GiveUp, CountAttempt, queueVars, storeVars
<1>2. Enqueued' = Enqueued
  BY <1>1 DEF Enqueued
<1>3. ASSUME NEW t \in Turn, TakeHead(p, t)
      PROVE  QueueInv'
  <2>1. t \in Enqueued /\ NothingAhead(t)
    BY <1>3 DEF TakeHead, Head, NothingAhead, QueueInv, TypeOK, Enqueued
  <2>2. TypeOK'
    BY <1>3 DEF TakeHead, QueueInv, TypeOK, WorkerState, queueVars, storeVars
  <2>3. /\ worker'[p] = "holding" /\ held'[p] = t
        /\ \A q \in Provider \ {p} : worker'[q] = worker[q] /\ held'[q] = held[q]
        /\ UNCHANGED <<queueVars, storeVars, child>>
    BY <1>3 DEF TakeHead, QueueInv, TypeOK
  <2>4. worker[p] = "ready"
    BY <1>3 DEF TakeHead
  <2> QED
    BY <1>1, <1>2, <2>1, <2>2, <2>3, <2>4
       DEF QueueInv, Busy, InCriticalSection, NothingAhead, NoTurnIsLost,
           queueVars, storeVars
<1>4. CASE FindEmpty(p) \/ LeaveIdle(p) \/ Exit(p)
  <2>1. TypeOK'
    BY <1>4 DEF FindEmpty, LeaveIdle, Exit, QueueInv, TypeOK, WorkerState, queueVars, storeVars
  <2>2. /\ worker[p] \in {"ready", "idle", "exiting"}
        /\ worker'[p] \in {"idle", "ready", "exiting", "off"}
        /\ \A q \in Provider \ {p} : worker'[q] = worker[q] /\ held'[q] = held[q]
        /\ UNCHANGED <<queueVars, storeVars, child>>
    BY <1>4 DEF FindEmpty, LeaveIdle, Exit, QueueInv, TypeOK
  <2> QED
    BY <1>1, <1>2, <2>1, <2>2
       DEF QueueInv, Busy, InCriticalSection, NothingAhead, NoTurnIsLost,
           queueVars, storeVars
<1>5. CASE QuarantineForeign(p) \/ GiveUp(p) \/ DeleteRow(p)
  <2>1. /\ Busy(p) /\ held[p] \in Turn /\ worker[p] # "remembering"
        /\ pending' = pending \ {held[p]}
        /\ worker' = [worker EXCEPT ![p] = "ready"]
        /\ failed \subseteq failed' /\ failed' \subseteq failed \cup {held[p]}
        /\ held[p] \in failed' \/ copies[held[p]] > 0
        /\ UNCHANGED <<attempts, copies, held, heldTries, child>>
    BY <1>5 DEF QuarantineForeign, GiveUp, DeleteRow, QueueInv, Busy, InCriticalSection,
       Enqueued, storeVars
  <2>2. TypeOK'
    BY <1>1, <2>1 DEF QueueInv, TypeOK, WorkerState
  <2>3. /\ worker'[p] = "ready"
        /\ \A q \in Provider \ {p} : worker'[q] = worker[q]
    BY <2>1 DEF QueueInv, TypeOK
  <2>4. NoTurnIsLost'
    BY <1>2, <2>1 DEF QueueInv, NoTurnIsLost
  <2>5. \A u : NothingAhead(u) => NothingAhead(u)'
    BY <1>1, <2>1, NothingAheadKept
  <2> QED
    BY <1>1, <1>2, <2>1, <2>2, <2>3, <2>4, <2>5
       DEF QueueInv, Busy, InCriticalSection
<1>6. CASE Send(p) \/ AnswerOk(p) \/ AnswerFails(p)
  <2>1. /\ Busy(p) /\ worker'[p] \in {"remembering", "stored", "refused"}
        /\ worker'[p] = "remembering" => child'[p] = "running"
        /\ worker'[p] # "remembering" => child'[p] = "none"
        /\ worker'[p] = "stored" => child[p] = "committed"
        /\ \A q \in Provider \ {p} : worker'[q] = worker[q] /\ child'[q] = child[q]
        /\ UNCHANGED <<queueVars, storeVars, held, heldTries>>
    BY <1>6 DEF Send, AnswerOk, AnswerFails, QueueInv, TypeOK, Busy, InCriticalSection
  <2>2. TypeOK'
    BY <1>6 DEF Send, AnswerOk, AnswerFails, QueueInv, TypeOK, WorkerState, queueVars, storeVars
  <2> QED
    BY <1>1, <1>2, <2>1, <2>2
       DEF QueueInv, Busy, InCriticalSection, NothingAhead, NoTurnIsLost,
           queueVars, storeVars
<1>7. CASE ChildCommits(p)
  <2>1. /\ Busy(p) /\ held[p] \in Enqueued /\ NothingAhead(held[p])
        /\ child' = [child EXCEPT ![p] = "committed"]
        /\ copies' = [copies EXCEPT ![held[p]] = IF @ = 0 THEN 1 ELSE @]
        /\ UNCHANGED <<queueVars, worker, held, heldTries>>
    BY <1>7 DEF ChildCommits, Store, QueueInv, Busy, InCriticalSection
  <2>2. TypeOK'
    BY <1>1, <2>1 DEF QueueInv, TypeOK, queueVars
  <2>3. /\ copies'[held[p]] > 0
        /\ \A t \in Turn \ {held[p]} : copies'[t] = copies[t]
        /\ \A t \in Turn : copies[t] > 0 => copies'[t] > 0
    BY <2>1 DEF QueueInv, TypeOK, Enqueued
  <2>4. /\ child'[p] = "committed"
        /\ \A q \in Provider \ {p} : child'[q] = child[q]
        /\ worker[p] = "remembering"
    BY <1>7, <2>1 DEF ChildCommits, QueueInv, TypeOK
  <2>5. \A q \in Provider : worker'[q] = "stored" \/ child'[q] = "committed" => copies'[held'[q]] > 0
    BY <2>1, <2>3, <2>4 DEF QueueInv, TypeOK, Busy, InCriticalSection, Enqueued
  <2>6. \A u : NothingAhead(u) => NothingAhead(u)'
    BY <1>1, <2>1, NothingAheadKept DEF queueVars
  <2>7. NoTurnIsLost'
    BY <1>2, <2>1, <2>3 DEF QueueInv, NoTurnIsLost, queueVars, Enqueued
  <2> QED
    BY <1>1, <1>2, <2>1, <2>2, <2>3, <2>4, <2>5, <2>6, <2>7
       DEF QueueInv, Busy, InCriticalSection, queueVars
<1>8. CASE CountAttempt(p)
  <2>1. /\ Busy(p) /\ worker'[p] \in {"exiting", "ready"} /\ child[p] = "none"
        /\ \A q \in Provider \ {p} : worker'[q] = worker[q]
        /\ UNCHANGED <<pending, failed, storeVars, held, heldTries, child>>
    BY <1>8 DEF CountAttempt, QueueInv, TypeOK, Busy, InCriticalSection
  <2>2. attempts' \in [Turn -> 0..MaxAttempts - 1]
    BY <1>8, QueueAssumption DEF CountAttempt, AttemptsAfter, LastTry, QueueInv, TypeOK
  <2>3. TypeOK'
    BY <1>1, <1>8, <2>1, <2>2 DEF CountAttempt, QueueInv, TypeOK, WorkerState, storeVars
  <2> QED
    BY <1>1, <1>2, <2>1, <2>3
       DEF QueueInv, Busy, InCriticalSection, NothingAhead, NoTurnIsLost,
           storeVars
<1> QED
  BY <1>3, <1>4, <1>5, <1>6, <1>7, <1>8 DEF WorkerStep

(* Starting, stopping and losing workers touches no row and no source.     *)
LEMMA LifecycleInv ==
    ASSUME QueueInv, NEW p \in Provider,
           Initialize(p) \/ Shutdown(p) \/ WorkerDies(p) \/ Crash(p)
    PROVE  QueueInv'
<1>1. /\ UNCHANGED <<queueVars, storeVars, heldTries>>
      /\ Enqueued' = Enqueued
  BY DEF Initialize, Shutdown, WorkerDies, Crash, queueVars, workerVars, Enqueued
<1>2. TypeOK'
  <2>1. CASE Initialize(p)
    BY <2>1 DEF Initialize, StartWorker, QueueInv, TypeOK, WorkerState, queueVars, storeVars
  <2>2. CASE Shutdown(p)
    BY <2>2 DEF Shutdown, QueueInv, TypeOK, queueVars, storeVars, workerVars
  <2>3. CASE WorkerDies(p)
    BY <2>3, QueueAssumption
       DEF WorkerDies, QueueInv, TypeOK, WorkerState, queueVars, storeVars
  <2>4. CASE Crash(p)
    <3>1. orphans' \subseteq Turn
      BY <2>4 DEF Crash, QueueInv, TypeOK, Busy, InCriticalSection, Enqueued
    <3> QED
      BY <2>4, <3>1, <1>1, QueueAssumption
         DEF Crash, QueueInv, TypeOK, WorkerState, queueVars, storeVars
  <2> QED
    BY <2>1, <2>2, <2>3, <2>4
<1>3. /\ \A q \in Provider : \/ worker'[q] = worker[q] /\ held'[q] = held[q] /\ child'[q] = child[q]
                             \/ ~Busy(q)' /\ child'[q] = "none"
      /\ \A t \in orphans' : \/ t \in orphans
                             \/ \E q \in Provider : Busy(q) /\ t = held[q]
  <2>1. CASE Initialize(p)
    BY <2>1 DEF Initialize, StartWorker, QueueInv, TypeOK, Busy, InCriticalSection
  <2>2. CASE Shutdown(p)
    BY <2>2 DEF Shutdown, workerVars
  <2>3. CASE WorkerDies(p)
    BY <2>3 DEF WorkerDies, QueueInv, TypeOK, Busy, InCriticalSection
  <2>4. CASE Crash(p)
    BY <2>4 DEF Crash, QueueInv, TypeOK, Busy, InCriticalSection
  <2> QED
    BY <2>1, <2>2, <2>3, <2>4
<1>4. \A u : NothingAhead(u)' <=> NothingAhead(u)
  BY <1>1 DEF NothingAhead, queueVars
<1>5. \A q \in Provider : Busy(q)' => Busy(q) /\ held'[q] = held[q]
  BY <1>3 DEF Busy
<1>6. /\ orphans' \subseteq Enqueued
      /\ \A t \in orphans' : NothingAhead(t)
  BY <1>3 DEF QueueInv
<1>7. \A q \in Provider :
        /\ child'[q] # "none" => worker'[q] = "remembering"
        /\ worker'[q] = "stored" \/ child'[q] = "committed" => copies[held'[q]] > 0
  BY <1>3 DEF QueueInv, Busy, InCriticalSection
<1> QED
  BY <1>1, <1>2, <1>4, <1>5, <1>6, <1>7
     DEF QueueInv, NoTurnIsLost, queueVars, storeVars

(* What happens to the store behind the queue's back.                      *)
LEMMA StoreInvStep ==
    ASSUME QueueInv, NEW t \in Turn, OrphanCommits(t) \/ DeleteStored(t)
    PROVE  QueueInv'
<1>1. /\ UNCHANGED <<queueVars, workerVars, stop, faults>>
      /\ orphans' \subseteq orphans
      /\ deleted' \subseteq Turn
      /\ \/ copies' = copies
         \/ t \in orphans /\ copies' = [copies EXCEPT ![t] = IF @ = 0 THEN 1 ELSE @]
  BY DEF OrphanCommits, DeleteStored, Store, QueueInv, TypeOK
<1>2. /\ \A u \in Turn : copies[u] > 0 => copies'[u] > 0
      /\ \A u \in Turn : copies'[u] > 0 => copies[u] > 0 \/ u \in orphans
      /\ copies' \in [Turn -> Nat]
  BY <1>1 DEF QueueInv, TypeOK
<1>3. TypeOK'
  BY <1>1, <1>2 DEF QueueInv, TypeOK, queueVars, workerVars
<1>4. /\ Enqueued' = Enqueued
      /\ \A u : NothingAhead(u)' <=> NothingAhead(u)
      /\ \A q : Busy(q)' <=> Busy(q)
  BY <1>1 DEF Enqueued, NothingAhead, Busy, queueVars, workerVars
<1>5. \A q \in Provider : worker[q] = "stored" \/ child[q] = "committed" => held[q] \in Turn
  BY DEF QueueInv, Busy, InCriticalSection, Enqueued
<1>6. NoTurnIsLost'
  BY <1>1, <1>2, <1>4 DEF QueueInv, NoTurnIsLost, queueVars, Enqueued
<1> QED
  BY <1>1, <1>2, <1>3, <1>4, <1>5, <1>6
     DEF QueueInv, queueVars, workerVars

LEMMA QueueStep == QueueInv /\ [Next]_vars => QueueInv'
<1> SUFFICES ASSUME QueueInv, [Next]_vars PROVE QueueInv'
  OBVIOUS
<1>1. CASE UNCHANGED vars
  BY <1>1 DEF vars, QueueInv, TypeOK, Busy, NothingAhead, Enqueued, NoTurnIsLost
<1> QED
  BY <1>1, SyncTurnInv, WorkerStepInv, LifecycleInv, StoreInvStep DEF Next

LEMMA QueueCorrect == Spec => []QueueInv
  BY QueueInit, QueueStep, PTL DEF Spec

(* No turn sync_turn accepted is ever lost, whatever crashes.              *)
THEOREM NoTurnIsEverLost == Spec => []NoTurnIsLost
<1>1. QueueInv => NoTurnIsLost
  BY DEF QueueInv
<1> QED
  BY <1>1, QueueCorrect, PTL

(* Turns are stored in the order they were captured.                       *)
THEOREM TurnsAreStoredInOrder == Spec => []StoredInOrder
<1>1. QueueInv => StoredInOrder
  BY DEF QueueInv, NothingAhead, NoTurnIsLost, StoredInOrder, Enqueued
<1> QED
  BY <1>1, QueueCorrect, PTL

(* The queue's rows, workers and children keep their shape; in particular  *)
(* no row ever carries as many attempts as quarantine a turn.              *)
THEOREM QueueTypes == Spec => []TypeOK
<1>1. QueueInv => TypeOK
  BY DEF QueueInv
<1> QED
  BY <1>1, QueueCorrect, PTL

(* A row gets the id above all others: the turn joins the log at its end.  *)
LEMMA CapturesATurn ==
    ASSUME QueueInv, NEW p \in Provider, NEW t \in Turn, SyncTurn(p, t)
    PROVE  Log!Capture(t)
<1>1. /\ rowId[t] = 0 /\ rowId' = [rowId EXCEPT ![t] = lastRowId + 1]
      /\ UNCHANGED <<copies, failed, deleted>>
  BY DEF SyncTurn, NextId, storeVars
<1>2. rowId \in [Turn -> Nat] /\ lastRowId \in Nat /\ \A u \in Turn : rowId[u] <= lastRowId
  BY DEF QueueInv, TypeOK
<1>3. rowId'[t] = lastRowId + 1 /\ rowId'[t] > 0 /\ \A u \in Turn : rowId[u] < rowId'[t]
  BY <1>1, <1>2
<1>4. QED
  BY <1>1, <1>3 DEF Log!Capture, Log!Captured

(* What is at work was the head of the queue, and what was ahead of it is  *)
(* stored or given up.                                                     *)
LEMMA WorkIsForemost ==
    ASSUME QueueInv, NEW t \in Enqueued, NothingAhead(t)
    PROVE  t \in Log!Captured /\ Log!Foremost(t)
  BY DEF QueueInv, NothingAhead, NoTurnIsLost, Enqueued, Log!Captured, Log!Foremost

(* A commit of zkr settles the turn, or changes nothing.                   *)
LEMMA StoreSettles ==
    ASSUME QueueInv, NEW t \in Enqueued, NothingAhead(t), Store(t), UNCHANGED <<rowId, failed>>
    PROVE  Log!Settle(t) \/ UNCHANGED Log!logVars
<1>1. copies \in [Turn -> Nat] /\ t \in Turn
  BY DEF QueueInv, TypeOK, Enqueued
<1>2. CASE copies[t] = 0
  BY <1>1, <1>2, WorkIsForemost DEF Store, Log!Settle
<1>3. CASE copies[t] # 0
  <2>1. copies' = copies
    BY <1>1, <1>3 DEF Store
  <2>2. QED
    BY <2>1 DEF Store, Log!logVars
<1>4. QED
  BY <1>2, <1>3

(* Every step of the queue is a step of the log, or none.                  *)
LEMMA LogStep ==
    ASSUME QueueInv, [Next]_vars
    PROVE  [Log!TurnLogNext]_Log!logVars
<1>1. CASE UNCHANGED vars
  BY <1>1 DEF vars, Log!logVars
<1>2. ASSUME NEW p \in Provider, NEW t \in Turn, SyncTurn(p, t)
      PROVE  Log!TurnLogNext
  BY <1>2, CapturesATurn DEF Log!TurnLogNext
<1>3. ASSUME NEW p \in Provider, Initialize(p) \/ Shutdown(p) \/ WorkerDies(p) \/ Crash(p)
      PROVE  UNCHANGED Log!logVars
  BY <1>3 DEF Initialize, Shutdown, WorkerDies, Crash, queueVars, storeVars, Log!logVars
<1>4. ASSUME NEW t \in Turn, OrphanCommits(t)
      PROVE  Log!Settle(t) \/ UNCHANGED Log!logVars
  BY <1>4, StoreSettles DEF OrphanCommits, QueueInv, queueVars
<1>5. ASSUME NEW t \in Turn, DeleteStored(t)
      PROVE  Log!Forget(t)
  BY <1>5 DEF DeleteStored, Log!Forget, queueVars
<1>6. ASSUME NEW p \in Provider, ChildCommits(p)
      PROVE  Log!Settle(held[p]) \/ UNCHANGED Log!logVars
  <2>1. Busy(p)
    BY <1>6 DEF ChildCommits, QueueInv, Busy, InCriticalSection
  <2>2. held[p] \in Enqueued /\ NothingAhead(held[p])
    BY <2>1 DEF QueueInv
  <2>3. QED
    BY <1>6, <2>2, StoreSettles DEF ChildCommits, queueVars
<1>7. ASSUME NEW p \in Provider, QuarantineForeign(p) \/ GiveUp(p)
      PROVE  Log!Settle(held[p])
  <2>1. /\ Busy(p) /\ failed' = failed \cup {held[p]}
        /\ UNCHANGED <<rowId, copies, deleted>>
    BY <1>7 DEF QuarantineForeign, GiveUp, Busy, InCriticalSection, storeVars
  <2>2. held[p] \in Enqueued /\ NothingAhead(held[p])
    BY <2>1 DEF QueueInv
  <2>3. QED
    BY <2>1, <2>2, WorkIsForemost DEF Log!Settle
<1>8. ASSUME NEW p \in Provider,
             \/ \E t \in Turn : TakeHead(p, t)
             \/ FindEmpty(p) \/ LeaveIdle(p) \/ Exit(p) \/ Send(p)
             \/ AnswerOk(p) \/ AnswerFails(p) \/ DeleteRow(p) \/ CountAttempt(p)
      PROVE  UNCHANGED Log!logVars
  BY <1>8 DEF TakeHead, FindEmpty, LeaveIdle, Exit, Send, AnswerOk, AnswerFails, DeleteRow,
              CountAttempt, queueVars, storeVars, Log!logVars
<1>9. ASSUME NEW p \in Provider, WorkerStep(p)
      PROVE  (\E t \in Turn : Log!Settle(t)) \/ UNCHANGED Log!logVars
  <2>1. \A t : Log!Settle(t) => t \in Turn
    BY DEF Log!Settle, Log!Captured
  <2>2. QED
    BY <1>6, <1>7, <1>8, <1>9, <2>1 DEF WorkerStep
<1>10. QED
  BY <1>1, <1>2, <1>3, <1>4, <1>5, <1>9 DEF Next, Log!TurnLogNext

(* The queue implements the log: a turn is stored at most once, in the     *)
(* order of capture up to those given up, and a deletion is not undone by  *)
(* a redelivery, for any number of turns, providers, processes and faults. *)
THEOREM QueueIsALog == Spec => KeepsTheLog
<1>1. Init => Log!TurnLogInit
  BY DEF Init, Log!TurnLogInit
<1>2. QueueInv /\ [Next]_vars => [Log!TurnLogNext]_Log!logVars
  BY LogStep
<1>3. QED
  BY <1>1, <1>2, QueueCorrect, PTL DEF Spec, KeepsTheLog, Log!TurnLogSpec
================================================================================
