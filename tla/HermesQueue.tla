------------------------------ MODULE HermesQueue ------------------------------
(***************************************************************************)
(* The write-behind queue of the Hermes plugin (plugins/hermes/__init__.py)*)
(* sync_turn persists a conversation turn in the table pending_turns and   *)
(* returns; a worker thread of the provider drains the table, oldest row   *)
(* first, by running `zkr remember` in a child process, and moves what it  *)
(* cannot deliver to failed_turns.  Providers may live in one process,     *)
(* where a lock per queue file keeps their workers apart, or in several    *)
(* processes that share the file, where nothing does.                      *)
(*                                                                         *)
(* A turn is its ingestion key, so the store is the set of keys it has     *)
(* seen and how many sources it holds for each.                            *)
(***************************************************************************)
EXTENDS Naturals

CONSTANTS
    Turn,          \* turns to capture, each with an ingestion key of its own
    Provider,      \* ZkrMemoryProvider objects that share the queue file
    ProcessOf,     \* ProcessOf[p]: the process provider p lives in
    ScopeOf,       \* ScopeOf[p]: the tenant and person p is configured with
    NoTurn,        \* held by a worker that has read no row
    MaxAttempts,   \* _MAX_QUEUE_ATTEMPTS
    MaxFaults      \* bound on crashes and dying workers

ASSUME QueueAssumption ==
    /\ MaxAttempts \in Nat \ {0}
    /\ MaxFaults \in Nat
    /\ NoTurn \notin Turn

WorkerState ==
    {"off", "ready", "idle", "holding", "remembering", "stored", "refused", "exiting"}

VARIABLES
    pending,    \* turns with a row in pending_turns
    rowId,      \* rowId[t]: the AUTOINCREMENT id t was inserted with, 0 before
    lastRowId,  \* the last id the queue file handed out
    scope,      \* scope[t]: the provider whose scope the payload of t carries
    attempts,   \* attempts[t]: the attempts column of the row of t
    failed,     \* turns with a row in failed_turns
    copies,     \* copies[t]: sources zkr holds for the ingestion key of t
    deleted,    \* turns whose source was deleted from zkr after it was stored
    worker,     \* worker[p]: where the worker thread of p is in its loop
    held,       \* held[p]: the row the worker of p read last
    heldTries,  \* heldTries[p]: the attempts it read with that row
    stop,       \* stop[p]: the _stop event of p
    child,      \* child[p]: whether the child process p waits for has committed
    orphans,    \* turns a child process outlived its provider with
    faults      \* crashes and dead workers so far

(* The files, the store and the threads, by who owns them. *)
queueVars == <<pending, rowId, lastRowId, scope, attempts, failed>>
storeVars == <<copies, deleted>>
workerVars == <<worker, held, heldTries, child>>
vars == <<pending, rowId, lastRowId, scope, attempts, failed, copies, deleted, worker,
          held, heldTries, stop, child, orphans, faults>>

TypeOK ==
    /\ pending \subseteq Turn
    /\ rowId \in [Turn -> Nat]
    /\ lastRowId \in Nat
    /\ scope \in [Turn -> Provider]
    /\ attempts \in [Turn -> 0..MaxAttempts - 1]
    /\ failed \subseteq Turn
    /\ copies \in [Turn -> Nat]
    /\ deleted \subseteq Turn
    /\ worker \in [Provider -> WorkerState]
    /\ held \in [Provider -> Turn \cup {NoTurn}]
    /\ heldTries \in [Provider -> 0..MaxAttempts - 1]
    /\ stop \in [Provider -> BOOLEAN]
    /\ child \in [Provider -> {"none", "running", "committed"}]
    /\ orphans \subseteq Turn
    /\ faults \in 0..MaxFaults

Enqueued == {t \in Turn : rowId[t] # 0}

Init ==
    /\ pending = {}
    /\ rowId = [t \in Turn |-> 0]
    /\ lastRowId = 0
    /\ scope \in [Turn -> Provider]
    /\ attempts = [t \in Turn |-> 0]
    /\ failed = {}
    /\ copies = [t \in Turn |-> 0]
    /\ deleted = {}
    /\ worker = [p \in Provider |-> "off"]
    /\ held = [p \in Provider |-> NoTurn]
    /\ heldTries = [p \in Provider |-> 0]
    /\ stop = [p \in Provider |-> FALSE]
    /\ child = [p \in Provider |-> "none"]
    /\ orphans = {}
    /\ faults = 0

--------------------------------------------------------------------------------
(* _start_worker: a worker that is still shutting down makes it raise.     *)
StartWorker(p) ==
    IF worker[p] = "off"
    THEN /\ worker' = [worker EXCEPT ![p] = "ready"]
         /\ stop' = [stop EXCEPT ![p] = FALSE]
    ELSE UNCHANGED <<worker, stop>>

Initialize(p) ==
    /\ StartWorker(p)
    /\ UNCHANGED <<queueVars, storeVars, held, heldTries, child, orphans, faults>>

(* Seeded fault: without AUTOINCREMENT ids start again when the table is   *)
(* empty.                                                                  *)
ReusedId == IF pending = {} THEN 1 ELSE lastRowId + 1

(* The id AUTOINCREMENT gives a row: above every one it ever gave.         *)
NextId == lastRowId + 1

(* sync_turn: the row is committed before the worker is looked at, so it   *)
(* stays even when _start_worker raises.                                   *)
SyncTurn(p, t) ==
    /\ rowId[t] = 0
    /\ scope[t] = p
    /\ pending' = pending \cup {t}
    /\ lastRowId' = NextId
    /\ rowId' = [rowId EXCEPT ![t] = lastRowId']
    /\ StartWorker(p)
    /\ UNCHANGED <<scope, attempts, failed, storeVars, held, heldTries, child,
                   orphans, faults>>

Shutdown(p) ==
    /\ ~stop[p]
    /\ stop' = [stop EXCEPT ![p] = TRUE]
    /\ UNCHANGED <<queueVars, storeVars, workerVars, orphans, faults>>

--------------------------------------------------------------------------------
(* The queue lock of the worker's process is held while it works on a row. *)
InCriticalSection == {"holding", "remembering", "stored", "refused"}

LockFree(p) ==
    \A q \in Provider : ProcessOf[q] = ProcessOf[p] => worker[q] \notin InCriticalSection

(* Seeded fault: LIMIT 1 without ORDER BY.                                 *)
AnyRow(t) == t \in pending

(* SELECT ... ORDER BY id LIMIT 1.                                         *)
Head(t) == t \in pending /\ \A u \in pending : rowId[t] <= rowId[u]

TakeHead(p, t) ==
    /\ worker[p] = "ready"
    /\ LockFree(p)
    /\ Head(t)
    /\ worker' = [worker EXCEPT ![p] = "holding"]
    /\ held' = [held EXCEPT ![p] = t]
    /\ heldTries' = [heldTries EXCEPT ![p] = attempts[t]]
    /\ UNCHANGED <<queueVars, storeVars, stop, child, orphans, faults>>

(* The queue is read as empty, and the lock released.                      *)
FindEmpty(p) ==
    /\ worker[p] = "ready"
    /\ LockFree(p)
    /\ pending = {}
    /\ worker' = [worker EXCEPT ![p] = "idle"]
    /\ UNCHANGED <<queueVars, storeVars, held, heldTries, stop, child, orphans, faults>>

(* Only then stop is looked at: by now there may be a row again.           *)
LeaveIdle(p) ==
    /\ worker[p] = "idle"
    /\ worker' = [worker EXCEPT ![p] = IF stop[p] THEN "exiting" ELSE "ready"]
    /\ UNCHANGED <<queueVars, storeVars, held, heldTries, stop, child, orphans, faults>>

Exit(p) ==
    /\ worker[p] = "exiting"
    /\ worker' = [worker EXCEPT ![p] = "off"]
    /\ held' = [held EXCEPT ![p] = NoTurn]
    /\ UNCHANGED <<queueVars, storeVars, heldTries, stop, child, orphans, faults>>

InScope(p) == ScopeOf[scope[held[p]]] = ScopeOf[p]

(* A payload of another tenant or person goes to failed_turns unsent.      *)
QuarantineForeign(p) ==
    /\ worker[p] = "holding"
    /\ ~InScope(p)
    /\ failed' = failed \cup {held[p]}
    /\ pending' = pending \ {held[p]}
    /\ worker' = [worker EXCEPT ![p] = "ready"]
    /\ UNCHANGED <<rowId, lastRowId, scope, attempts, storeVars, held, heldTries, stop, child,
                   orphans, faults>>

Send(p) ==
    /\ worker[p] = "holding"
    /\ InScope(p)
    /\ worker' = [worker EXCEPT ![p] = "remembering"]
    /\ child' = [child EXCEPT ![p] = "running"]
    /\ UNCHANGED <<queueVars, storeVars, held, heldTries, stop, orphans, faults>>

(* zkr remember: the unique ingestion key makes a second delivery a replay *)
(* of the first, and an error when the source has been deleted since.      *)
Store(t) ==
    /\ t \notin deleted
    /\ copies' = [copies EXCEPT ![t] = IF @ = 0 THEN 1 ELSE @]
    /\ UNCHANGED deleted

ChildCommits(p) ==
    /\ child[p] = "running"
    /\ Store(held[p])
    /\ child' = [child EXCEPT ![p] = "committed"]
    /\ UNCHANGED <<queueVars, worker, held, heldTries, stop, orphans, faults>>

(* subprocess.run returned 0.                                              *)
AnswerOk(p) ==
    /\ child[p] = "committed"
    /\ worker' = [worker EXCEPT ![p] = "stored"]
    /\ child' = [child EXCEPT ![p] = "none"]
    /\ UNCHANGED <<queueVars, storeVars, held, heldTries, stop, orphans, faults>>

(* zkr failed, or the 10 s timeout killed it, before or after its commit.  *)
AnswerFails(p) ==
    /\ child[p] # "none"
    /\ worker' = [worker EXCEPT ![p] = "refused"]
    /\ child' = [child EXCEPT ![p] = "none"]
    /\ UNCHANGED <<queueVars, storeVars, held, heldTries, stop, orphans, faults>>

DeleteRow(p) ==
    /\ worker[p] = "stored"
    /\ pending' = pending \ {held[p]}
    /\ worker' = [worker EXCEPT ![p] = "ready"]
    /\ UNCHANGED <<rowId, lastRowId, scope, attempts, failed, storeVars, held, heldTries,
                   stop, child, orphans, faults>>

(* Seeded fault: one attempt too many.                                     *)
LastTryOffByOne(p) == heldTries[p] + 1 > MaxAttempts

LastTry(p) == heldTries[p] + 1 >= MaxAttempts

(* Seeded fault: the row is deleted and kept nowhere.                      *)
DropTurn(p) ==
    /\ worker[p] = "refused"
    /\ LastTry(p)
    /\ pending' = pending \ {held[p]}
    /\ worker' = [worker EXCEPT ![p] = "ready"]
    /\ UNCHANGED <<rowId, lastRowId, scope, attempts, failed, storeVars, held, heldTries,
                   stop, child, orphans, faults>>

(* The last attempt moves the row to failed_turns.                         *)
GiveUp(p) ==
    /\ worker[p] = "refused"
    /\ LastTry(p)
    /\ failed' = failed \cup {held[p]}
    /\ pending' = pending \ {held[p]}
    /\ worker' = [worker EXCEPT ![p] = "ready"]
    /\ UNCHANGED <<rowId, lastRowId, scope, attempts, storeVars, held, heldTries, stop, child,
                   orphans, faults>>

(* Seeded fault: failed attempts are not written back.                     *)
ForgetAttempt(p) == attempts

(* The attempts column after a failure, by the value read with the row; a  *)
(* row another process has removed meanwhile is not updated.               *)
AttemptsAfter(p) ==
    IF held[p] \in pending THEN [attempts EXCEPT ![held[p]] = heldTries[p] + 1]
                           ELSE attempts

(* An earlier attempt is counted in the row, and ends the loop when stop is*)
(* set.                                                                    *)
CountAttempt(p) ==
    /\ worker[p] = "refused"
    /\ ~LastTry(p)
    /\ attempts' = AttemptsAfter(p)
    /\ worker' = [worker EXCEPT ![p] = IF stop[p] THEN "exiting" ELSE "ready"]
    /\ UNCHANGED <<pending, rowId, lastRowId, scope, failed, storeVars, held, heldTries,
                   stop, child, orphans, faults>>

WorkerStep(p) ==
    \/ \E t \in Turn : TakeHead(p, t)
    \/ FindEmpty(p) \/ LeaveIdle(p) \/ Exit(p)
    \/ QuarantineForeign(p) \/ Send(p)
    \/ ChildCommits(p) \/ AnswerOk(p) \/ AnswerFails(p)
    \/ DeleteRow(p) \/ GiveUp(p) \/ CountAttempt(p)

--------------------------------------------------------------------------------
(* The thread dies of an exception it does not catch, such as a locked     *)
(* queue file; the object and its stop event stay.                         *)
WorkerDies(p) ==
    /\ worker[p] # "off"
    /\ faults < MaxFaults
    /\ faults' = faults + 1
    /\ worker' = [worker EXCEPT ![p] = "off"]
    /\ held' = [held EXCEPT ![p] = NoTurn]
    /\ child' = [child EXCEPT ![p] = "none"]
    /\ UNCHANGED <<queueVars, storeVars, heldTries, stop, orphans>>

(* The provider's process is killed.  A child it had started runs on.      *)
Crash(p) ==
    LET gone == {q \in Provider : ProcessOf[q] = ProcessOf[p]}
    IN  /\ faults < MaxFaults
        /\ faults' = faults + 1
        /\ worker' = [q \in Provider |-> IF q \in gone THEN "off" ELSE worker[q]]
        /\ held' = [q \in Provider |-> IF q \in gone THEN NoTurn ELSE held[q]]
        /\ stop' = [q \in Provider |-> q \notin gone /\ stop[q]]
        /\ child' = [q \in Provider |-> IF q \in gone THEN "none" ELSE child[q]]
        /\ orphans' = orphans \cup {held[q] : q \in {r \in gone : child[r] = "running"}}
        /\ UNCHANGED <<queueVars, storeVars, heldTries>>

OrphanCommits(t) ==
    /\ t \in orphans
    /\ Store(t)
    /\ orphans' = orphans \ {t}
    /\ UNCHANGED <<queueVars, workerVars, stop, faults>>

(* The user deletes the stored source.                                     *)
DeleteStored(t) ==
    /\ copies[t] > 0
    /\ t \notin deleted
    /\ deleted' = deleted \cup {t}
    /\ UNCHANGED <<queueVars, copies, workerVars, stop, orphans, faults>>

Next ==
    \/ \E p \in Provider :
          \/ Initialize(p) \/ Shutdown(p) \/ WorkerStep(p) \/ WorkerDies(p) \/ Crash(p)
          \/ \E t \in Turn : SyncTurn(p, t)
    \/ \E t \in Turn : OrphanCommits(t) \/ DeleteStored(t)

(* A running thread is scheduled; every wait in its loop has a timeout.    *)
Spec == Init /\ [][Next]_vars /\ \A p \in Provider : WF_vars(WorkerStep(p))

--------------------------------------------------------------------------------
(* A turn that sync_turn accepted is still queued, or stored, or in        *)
(* failed_turns, whatever crashed, timed out or ran twice in between.      *)
NoTurnIsLost == \A t \in Enqueued : t \in pending \/ copies[t] > 0 \/ t \in failed

(* Turns reach the store in the order they were captured: a later one is   *)
(* stored only when every earlier one is stored or given up.               *)
StoredInOrder ==
    \A t, u \in Enqueued :
        rowId[t] < rowId[u] /\ copies[u] > 0 => copies[t] > 0 \/ t \in failed

(* To the provider the queue is a log of turns that is settled from the    *)
(* front, whatever is behind it: ids, attempts, locks, children, crashes.  *)
Log == INSTANCE TurnLog WITH position <- rowId, givenUp <- failed, forgotten <- deleted
KeepsTheLog == Log!TurnLogSpec

(* While some worker stays alive no turn stays queued for ever, poison at  *)
(* the head of the queue included.                                         *)
QueueDrains ==
    <>[](\E p \in Provider : worker[p] # "off")
        => \A t \in Turn : t \in pending ~> t \notin pending
================================================================================
