------------------------------ MODULE Personality ------------------------------
(***************************************************************************)
(* The personality router (src/personality.rs): Personality objects        *)
(* that decide, event by event, whether the agent replies, and keep what   *)
(* they decide and observe in one store.  Turn limits and the event buffer *)
(* live in the object and die with it; decisions, signals and cards are    *)
(* sources under ingestion keys made of the epoch, participant, scope or   *)
(* name they are about, so the store outlives every object and is shared   *)
(* by all.                                                                 *)
(*                                                                         *)
(* A call writes its records one by one, each with a look-up of the key in *)
(* one transaction and a remember in the next.  Records under keys made of *)
(* the clock (raw events, hypotheses, findings) can never meet another     *)
(* record and are left out.  The arithmetic is that of the release build,  *)
(* where u64 subtraction wraps; a debug build panics instead.              *)
(***************************************************************************)
EXTENDS Naturals, Sequences, FiniteSets

CONSTANTS
    Runtime,       \* Personality objects that share the store
    Participant,   \* who may speak; the agent is one of them
    Epoch,         \* epochs the platform gives to events
    Event,         \* events the platform may hand over, in any order, again and again
    Modulus,       \* 2^64
    Rules,         \* RouterRules a host may set
    Clock,         \* readings of the wall clock, in seconds
    Card,          \* keys of voice cards, personas and calibrations
    Content,       \* what such a record, or an event, may say
    None,          \* an Option that is None
    MaxEvents,     \* bound on the calls made to all objects in their lives
    MaxFaults      \* bound on failed calls, restarts and deletions

(* Event kinds, messages split by what they contain.                       *)
Message == {"mention", "command", "question", "addressed", "chat"}
OtherKind == {"reaction", "typing", "reaction_removed", "error"}

ASSUME PersonalityAssumption ==
    /\ Modulus \in Nat \ {0}
    /\ Epoch \subseteq 0..Modulus - 1
    /\ Event \subseteq [epoch : Epoch, participant : Participant, kind : Message \cup OtherKind,
                         text : Content]
    /\ None \notin Epoch /\ None \notin Clock
    /\ Rules \subseteq [mention : BOOLEAN, command : BOOLEAN, minInterval : Nat, maxTurns : Nat]
    /\ Clock \subseteq Nat
    /\ MaxEvents \in Nat /\ MaxFaults \in Nat

Action == {"speak", "react", "stay_silent", "continue_pending"}

SignalKind ==
    {"response_latency", "typing_without_send", "reaction_removal", "conversation_velocity"}

(* Ingestion keys: of a turn, of a signal, of a card.                      *)
TurnKey(e) == <<"turn", e>>
SignalKey(kind, p, e) == <<"signal", kind, p, e>>
CardKey(c) == <<"card", c>>

Key == {TurnKey(e) : e \in Epoch}
       \cup {SignalKey(kind, p, e) : kind \in SignalKind, p \in Participant, e \in Epoch}
       \cup {CardKey(c) : c \in Card}

VARIABLES
    stored,        \* stored[k]: the source under ingestion key k, for the keys in use
    clock,         \* now_seconds
    rules,         \* rules[r]: the RouterRules of r
    recent,        \* recent[r]: recent_events
    consecutive,   \* consecutive[r]: consecutive_agent_turns
    lastReply,     \* lastReply[r]: last_agent_reply_epoch
    pending,       \* pending[r]: pending_signals, the records they were stored as
    call,          \* call[r]: the records the call in progress writes
    next,          \* next[r]: the record it writes next, 0 outside a call
    found,         \* found[r]: recorded_at it will write that one with, None before
    routed,        \* routed[r]: every decision of r so far, in order
    told,          \* the records behind the results that calls returned
    events,        \* calls so far, of those that change an object or the store
    faults         \* failed calls, restarts and deletions so far

memory == <<rules, recent, consecutive, lastReply, pending, routed>>
vars == <<stored, clock, rules, recent, consecutive, lastReply, pending, call, next, found,
          routed, told, events, faults>>

--------------------------------------------------------------------------------
(* epoch - last on u64: of a late event, close to 2^64.                    *)
Elapsed(epoch, last) == IF epoch >= last THEN epoch - last ELSE epoch + Modulus - last

(* evaluate_hard_rules, first rule: too soon after the last reply.         *)
RateLimited(r, e) ==
    /\ rules[r].minInterval > 0
    /\ lastReply[r] # None
    /\ Elapsed(e.epoch, lastReply[r]) < rules[r].minInterval

(* Seeded fault: one reply too many.                                       *)
LimitOffByOne(r) == consecutive[r] > rules[r].maxTurns

(* evaluate_hard_rules, second rule.                                       *)
ConsecutiveLimit(r) == consecutive[r] >= rules[r].maxTurns

(* What a turn record says; the rationale of a veto names numbers.         *)
Turn(action, strategy) == [action |-> action, strategy |-> strategy, numbers |-> <<>>]
Veto(strategy, numbers) ==
    [action |-> "stay_silent", strategy |-> strategy, numbers |-> numbers]

(* evaluate_learned_policy; a mention and a command address the agent only *)
(* by the words the rules look for, or by a question mark or a name.       *)
LearnedPolicy(e) ==
    CASE e.kind = "question" -> Turn("speak", "answer_question")
      [] e.kind \in {"addressed", "mention"} -> Turn("speak", "addressed_reply")
      [] e.kind = "reaction" -> Turn("react", "mirror_reaction")
      [] e.kind \in {"chat", "command"} -> Turn("stay_silent", "listen")
      [] OTHER -> Turn("continue_pending", "await_context")

(* The hard rules in their order, then the learned policy.                 *)
Decide(r, e) ==
    CASE RateLimited(r, e) ->
            Veto("rate_limited", <<Elapsed(e.epoch, lastReply[r]), rules[r].minInterval>>)
      [] ~RateLimited(r, e) /\ ConsecutiveLimit(r) ->
            Veto("consecutive_limit", <<rules[r].maxTurns>>)
      [] ~RateLimited(r, e) /\ ~ConsecutiveLimit(r) /\ rules[r].mention /\ e.kind = "mention" ->
            Turn("speak", "direct_reply")
      [] ~RateLimited(r, e) /\ ~ConsecutiveLimit(r) /\ rules[r].command /\ e.kind = "command" ->
            Turn("speak", "command_response")
      [] OTHER -> LearnedPolicy(e)

IsReply(turn) == turn.action \in {"speak", "react"}

--------------------------------------------------------------------------------
(* The signals of the last event of log, recent_events with it pushed.     *)
Last(log) == log[Len(log)]
IsMessage(e) == e.kind \in Message
Messages(log) == {i \in DOMAIN log : IsMessage(log[i])}

Signal(kind, e, value) ==
    [key |-> SignalKey(kind, e.participant, e.epoch), payload |-> value]

(* epoch.saturating_sub(prev.epoch).                                       *)
Latency(e, prev) == IF e.epoch >= prev.epoch THEN e.epoch - prev.epoch ELSE 0

LatencySignal(log) ==
    LET e == Last(log)
        prev == log[Len(log) - 1]
    IN  IF Len(log) > 1 /\ IsMessage(e) /\ IsMessage(prev) /\ prev.participant # e.participant
        THEN <<Signal("response_latency", e, Latency(e, prev))>>
        ELSE <<>>

(* Typing with no message of the same participant among the last five      *)
(* events: those before it.                                                *)
TypingSignal(log) ==
    LET e == Last(log)
    IN  IF e.kind = "typing"
           /\ ~\E i \in Messages(log) : i + 5 > Len(log) /\ log[i].participant = e.participant
        THEN <<Signal("typing_without_send", e, "true")>>
        ELSE <<>>

RemovalSignal(log) ==
    IF Last(log).kind = "reaction_removed"
    THEN <<Signal("reaction_removal", Last(log), Last(log).text)>>
    ELSE <<>>

(* Messages so far per epoch, in hundredths.                               *)
VelocitySignal(log) ==
    LET span == IF Last(log).epoch = 0 THEN 1 ELSE Last(log).epoch
    IN  <<Signal("conversation_velocity", Last(log),
                 (200 * Cardinality(Messages(log)) + span) \div (2 * span))>>

(* derive_signals.                                                         *)
Signals(log) == LatencySignal(log) \o TypingSignal(log) \o RemovalSignal(log)
                \o VelocitySignal(log)

--------------------------------------------------------------------------------
Init ==
    /\ stored = [k \in {} |-> None]
    /\ clock \in Clock
    /\ rules \in [Runtime -> Rules]
    /\ recent = [r \in Runtime |-> <<>>]
    /\ consecutive = [r \in Runtime |-> 0]
    /\ lastReply = [r \in Runtime |-> None]
    /\ pending = [r \in Runtime |-> {}]
    /\ call = [r \in Runtime |-> <<>>]
    /\ next = [r \in Runtime |-> 0]
    /\ found = [r \in Runtime |-> None]
    /\ routed = [r \in Runtime |-> <<>>]
    /\ told = {}
    /\ events = 0
    /\ faults = 0

Idle(r) == next[r] = 0

(* A call of r sets out to write records.                                  *)
Begin(r, records) ==
    /\ call' = [call EXCEPT ![r] = records]
    /\ next' = [next EXCEPT ![r] = 1]
    /\ found' = [found EXCEPT ![r] = None]

(* The host calls an object.                                               *)
Count ==
    /\ events < MaxEvents
    /\ events' = events + 1

(* The event is pushed before anything can fail.                           *)
Push(r, e) ==
    /\ Idle(r)
    /\ Count
    /\ recent' = [recent EXCEPT ![r] = Append(@, e)]

(* consecutive_agent_turns after a decision.                               *)
Counted(r, turn) == IF IsReply(turn) THEN consecutive[r] + 1 ELSE 0

(* route_event up to its first write: the turn counters move with the      *)
(* decision, whether or not it can be recorded.                            *)
RouteEvent(r, e) ==
    LET turn == Decide(r, e)
    IN  /\ Push(r, e)
        /\ consecutive' = [consecutive EXCEPT ![r] = Counted(r, turn)]
        /\ lastReply' = [lastReply EXCEPT ![r] = IF IsReply(turn) THEN e.epoch ELSE @]
        /\ routed' = [routed EXCEPT ![r] =
                         Append(@, [epoch |-> e.epoch, reply |-> IsReply(turn),
                                    rules |-> rules[r]])]
        /\ Begin(r, <<[key |-> TurnKey(e.epoch), payload |-> turn]>> \o Signals(recent'[r]))
        /\ UNCHANGED <<stored, clock, rules, pending, told, faults>>

(* record_event: the raw event, under a key of its own, then its signals.  *)
RecordEvent(r, e) ==
    /\ Push(r, e)
    /\ Begin(r, Signals(recent'[r]))
    /\ UNCHANGED <<stored, clock, rules, consecutive, lastReply, pending, routed, told, faults>>

(* store_voice_card, store_persona and record_calibration.                 *)
StoreCard(r, c, content) ==
    /\ Idle(r)
    /\ Count
    /\ Begin(r, <<[key |-> CardKey(c), payload |-> content]>>)
    /\ UNCHANGED <<stored, clock, memory, told, faults>>

SetRules(r, new) ==
    /\ Idle(r)
    /\ rules[r] # new
    /\ Count
    /\ rules' = [rules EXCEPT ![r] = new]
    /\ UNCHANGED <<stored, clock, recent, consecutive, lastReply, pending, call, next, found,
                   routed, told, faults>>

--------------------------------------------------------------------------------
(* The record the call of r writes next, and what is under its key.        *)
Due(r) == call[r][next[r]]
Taken(r) == Due(r).key \in DOMAIN stored
Row(r) == stored[Due(r).key]

(* Seeded fault: every call writes with its own clock.                     *)
ReadClock(r) == clock

(* The time of the row under the key, or the time now.                     *)
TimeToUse(r) == IF Taken(r) THEN Row(r).at ELSE clock

(* ingestion_timestamps, a read of its own.                                *)
LookUp(r) ==
    /\ ~Idle(r)
    /\ found[r] = None
    /\ found' = [found EXCEPT ![r] = TimeToUse(r)]
    /\ UNCHANGED <<stored, clock, memory, call, next, told, events, faults>>

(* Seeded fault: a key that is taken is taken for a replay.                *)
AnyReplay(r) == Taken(r)

(* remember takes a row under the key for a replay of the record when all  *)
(* of it is the same, times included, and it was not deleted.              *)
Replays(r) ==
    /\ Taken(r)
    /\ Row(r).payload = Due(r).payload
    /\ Row(r).at = found[r]
    /\ ~Row(r).deleted

(* The last record is written: derive_signals keeps the signals in memory, *)
(* and the call returns.                                                   *)
Return(r) ==
    /\ next' = [next EXCEPT ![r] = 0]
    /\ call' = [call EXCEPT ![r] = <<>>]
    /\ told' = told \cup {call[r][i] : i \in DOMAIN call[r]}
    /\ pending' = [pending EXCEPT ![r] =
                      @ \cup {call[r][i] : i \in {j \in DOMAIN call[r] :
                                                     call[r][j].key[1] = "signal"}}]

(* Seeded fault: the call goes on past its last record.                    *)
AdvancePast(r) ==
    IF next[r] > Len(call[r])
    THEN Return(r)
    ELSE /\ next' = [next EXCEPT ![r] = @ + 1]
         /\ UNCHANGED <<call, told, pending>>

(* On to the next record of the call, or back to the caller.               *)
Advance(r) ==
    IF next[r] = Len(call[r])
    THEN Return(r)
    ELSE /\ next' = [next EXCEPT ![r] = @ + 1]
         /\ UNCHANGED <<call, told, pending>>

(* The rows with that of a record whose key is free.                       *)
WithRow(r) ==
    [k \in DOMAIN stored \cup {Due(r).key} |->
        IF k = Due(r).key
        THEN [payload |-> Due(r).payload, at |-> found[r], by |-> r, deleted |-> FALSE]
        ELSE stored[k]]

(* remember of a record whose key is free, or held by the same record.     *)
Remember(r) ==
    /\ ~Idle(r)
    /\ found[r] # None
    /\ Taken(r) => Replays(r)
    /\ stored' = IF Taken(r) THEN stored ELSE WithRow(r)
    /\ found' = [found EXCEPT ![r] = None]
    /\ Advance(r)
    /\ UNCHANGED <<clock, rules, recent, consecutive, lastReply, routed, events, faults>>

(* The call ends with an error.  What it wrote and counted stays.          *)
Abandon(r) ==
    /\ next' = [next EXCEPT ![r] = 0]
    /\ call' = [call EXCEPT ![r] = <<>>]
    /\ found' = [found EXCEPT ![r] = None]
    /\ UNCHANGED <<stored, clock, memory, told, events>>

(* remember answers Conflict, or NotFound for a deleted source.            *)
Refuse(r) ==
    /\ ~Idle(r)
    /\ found[r] # None
    /\ Taken(r) /\ ~Replays(r)
    /\ Abandon(r)
    /\ UNCHANGED faults

(* A search, a look-up or a remember of the call fails.                    *)
Fail(r) ==
    /\ ~Idle(r)
    /\ faults < MaxFaults
    /\ faults' = faults + 1
    /\ Abandon(r)

(* The object is dropped, in the middle of a call or not, and a new one    *)
(* opened on the same store with rules of its own.                         *)
Restart(r, new) ==
    /\ faults < MaxFaults
    /\ faults' = faults + 1
    /\ rules' = [rules EXCEPT ![r] = new]
    /\ recent' = [recent EXCEPT ![r] = <<>>]
    /\ consecutive' = [consecutive EXCEPT ![r] = 0]
    /\ lastReply' = [lastReply EXCEPT ![r] = None]
    /\ pending' = [pending EXCEPT ![r] = {}]
    /\ next' = [next EXCEPT ![r] = 0]
    /\ call' = [call EXCEPT ![r] = <<>>]
    /\ found' = [found EXCEPT ![r] = None]
    /\ routed' = [routed EXCEPT ![r] = <<>>]
    /\ UNCHANGED <<stored, clock, told, events>>

(* The user deletes the source under a key.                                *)
DeleteSource(k) ==
    /\ k \in DOMAIN stored
    /\ ~stored[k].deleted
    /\ faults < MaxFaults
    /\ faults' = faults + 1
    /\ stored' = [stored EXCEPT ![k].deleted = TRUE]
    /\ UNCHANGED <<clock, memory, call, next, found, told, events>>

Tick(t) ==
    /\ t > clock
    /\ clock' = t
    /\ UNCHANGED <<stored, memory, call, next, found, told, events, faults>>

Next ==
    \/ \E r \in Runtime :
          \/ \E e \in Event : RouteEvent(r, e) \/ RecordEvent(r, e)
          \/ \E c \in Card, content \in Content : StoreCard(r, c, content)
          \/ \E new \in Rules : SetRules(r, new) \/ Restart(r, new)
          \/ LookUp(r) \/ Remember(r) \/ Refuse(r) \/ Fail(r)
    \/ \E k \in Key : DeleteSource(k)
    \/ \E t \in Clock : Tick(t)

Spec == Init /\ [][Next]_vars

--------------------------------------------------------------------------------
TypeOK ==
    /\ DOMAIN stored \subseteq Key
    /\ \A k \in DOMAIN stored :
          stored[k].at \in Clock /\ stored[k].by \in Runtime /\ stored[k].deleted \in BOOLEAN
    /\ clock \in Clock
    /\ rules \in [Runtime -> Rules]
    /\ recent \in [Runtime -> Seq(Event)]
    /\ consecutive \in [Runtime -> Nat]
    /\ lastReply \in [Runtime -> Epoch \cup {None}]
    /\ found \in [Runtime -> Clock \cup {None}]
    /\ \A r \in Runtime : next[r] \in 0..Len(call[r])
    /\ events \in 0..MaxEvents
    /\ faults \in 0..MaxFaults

(* The store has the record, as it was written.                            *)
OnRecord(record) == record.key \in DOMAIN stored /\ stored[record.key].payload = record.payload

(* What a call returned is what the store says, for good: no two decisions *)
(* or signals under one key were ever returned that differ, by one object  *)
(* or by two, before a restart or after it.                                *)
ReturnedIsOnRecord == \A record \in told : OnRecord(record)

(* The routed events from i to j of r were all replied to.                 *)
AllReplies(r, i, j) == \A k \in i..j : routed[r][k].reply

(* However calls fail and rules change, an object replies to no more       *)
(* events in a row than the limit in force, and to none that comes after   *)
(* the previous reply by less than the interval in force.  (One that comes *)
(* before it, out of order, is not held back.)                             *)
RepliesAreLimited ==
    \A r \in Runtime : \A i, j \in DOMAIN routed[r] :
        i <= j /\ AllReplies(r, i, j) => j - i < routed[r][j].rules.maxTurns
RepliesAreSpaced ==
    \A r \in Runtime : \A i, j \in DOMAIN routed[r] :
        /\ i < j /\ routed[r][i].reply /\ routed[r][j].reply
        /\ \A k \in i + 1..j - 1 : ~routed[r][k].reply
        /\ routed[r][i].epoch <= routed[r][j].epoch
        => routed[r][j].epoch - routed[r][i].epoch >= routed[r][j].rules.minInterval

RouterKeepsItsLimits == RepliesAreLimited /\ RepliesAreSpaced

(* An object never refuses a record for the clock it was written by: when  *)
(* it finds what it wrote itself, in this life or before a restart, it has *)
(* the time it wrote it with.                                              *)
OwnReplaysIgnoreTheClock ==
    \A r \in Runtime :
        ~Idle(r) /\ found[r] # None /\ Taken(r) /\ Row(r).by = r => Row(r).at = found[r]
================================================================================
