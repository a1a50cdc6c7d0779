--------------------------- MODULE PersonalityProofs ---------------------------
(***************************************************************************)
(* Proofs about Personality.  The invariant adds to the properties what    *)
(* they rest on: the shape of the rows and of the calls in progress, that  *)
(* the part of a call before its next record is on record, and what the    *)
(* two counters of an object say of the events it routed.                  *)
(***************************************************************************)
EXTENDS Personality, FiniteSetTheorems, SequenceTheorems, TLAPS

(* What a record may say.                                                  *)
Strategy ==
    {"rate_limited", "consecutive_limit", "direct_reply", "command_response", "answer_question",
     "addressed_reply", "mirror_reaction", "listen", "await_context"}

TurnType == [action : Action, strategy : Strategy, numbers : Seq(Nat)]

Payload == TurnType \cup Int \cup {"true"} \cup OtherKind \cup Content

Record == [key : Key, payload : Payload]

RowType == [payload : Payload, at : Clock, by : Runtime, deleted : BOOLEAN]

RoutedType == [epoch : Epoch, reply : BOOLEAN, rules : Rules]

(* The shape of the state.                                                 *)
StoredShape ==
    /\ DOMAIN stored \subseteq Key
    /\ stored = [k \in DOMAIN stored |-> stored[k]]
    /\ \A k \in DOMAIN stored : stored[k] \in RowType

ObjectShape ==
    /\ clock \in Clock
    /\ rules \in [Runtime -> Rules]
    /\ recent \in [Runtime -> Seq(Event)]
    /\ consecutive \in [Runtime -> Nat]
    /\ lastReply \in [Runtime -> Epoch \cup {None}]
    /\ routed \in [Runtime -> Seq(RoutedType)]
    /\ pending \in [Runtime -> SUBSET Record]

CallShape ==
    /\ call \in [Runtime -> Seq(Record)]
    /\ next \in [Runtime -> Nat]
    /\ \A r \in Runtime : next[r] <= Len(call[r])
    /\ found \in [Runtime -> Clock \cup {None}]
    /\ told \subseteq Record

Bounds ==
    /\ events \in 0..MaxEvents
    /\ faults \in 0..MaxFaults

Shape == StoredShape /\ ObjectShape /\ CallShape /\ Bounds

(* What a call wrote before its next record is in the store.               *)
WrittenIsOnRecord ==
    \A r \in Runtime : \A i \in 1..Len(call[r]) : i < next[r] => OnRecord(call[r][i])

(* consecutive_agent_turns counts the replies since the last event that    *)
(* was not replied to.                                                     *)
CountsReplies(r) ==
    /\ consecutive[r] <= Len(routed[r])
    /\ consecutive[r] < Len(routed[r]) => ~routed[r][Len(routed[r]) - consecutive[r]].reply

(* last_agent_reply_epoch is the epoch of the last reply.                  *)
DatesReplies(r) ==
    \A k \in DOMAIN routed[r] :
        /\ routed[r][k].reply
        /\ \A m \in k + 1..Len(routed[r]) : ~routed[r][m].reply
        => lastReply[r] = routed[r][k].epoch

RouterInv == \A r \in Runtime : CountsReplies(r) /\ DatesReplies(r)

--------------------------------------------------------------------------------
(* A veto is no reply: evaluate_hard_rules has the last word.              *)
LEMMA VetoIsNoReply ==
    ASSUME NEW r, NEW e, RateLimited(r, e) \/ ConsecutiveLimit(r)
    PROVE  ~IsReply(Decide(r, e))
<1>1. CASE RateLimited(r, e)
  BY <1>1 DEF Decide, IsReply, Veto
<1>2. CASE ~RateLimited(r, e) /\ ConsecutiveLimit(r)
  BY <1>2 DEF Decide, IsReply, Veto
<1>3. QED
  BY <1>1, <1>2

(* epoch - last on u64 is a number.                                        *)
LEMMA ElapsedType ==
    ASSUME NEW x \in Epoch, NEW y \in Epoch
    PROVE  Elapsed(x, y) \in Nat
BY PersonalityAssumption DEF Elapsed

LEMMA EpochType ==
    ASSUME NEW x \in Epoch
    PROVE  x \in Nat
BY PersonalityAssumption

LEMMA EventType ==
    ASSUME NEW e \in Event
    PROVE  /\ e.epoch \in Epoch
           /\ e.participant \in Participant
           /\ e.kind \in Message \cup OtherKind
           /\ e.text \in Content
BY PersonalityAssumption

LEMMA RulesType ==
    ASSUME NEW x \in Rules
    PROVE  x.minInterval \in Nat /\ x.maxTurns \in Nat
BY PersonalityAssumption

(* What a turn record says is something a record may say.                  *)
LEMMA DecideType ==
    ASSUME ObjectShape, NEW r \in Runtime, NEW e \in Event
    PROVE  Decide(r, e) \in Payload
<1>1. CASE RateLimited(r, e)
  <2>1. lastReply[r] \in Epoch
    BY <1>1 DEF RateLimited, ObjectShape
  <2>2. Elapsed(e.epoch, lastReply[r]) \in Nat
    BY <2>1, ElapsedType, EventType
  <2>3. rules[r].minInterval \in Nat
    BY RulesType DEF ObjectShape
  <2>4. <<Elapsed(e.epoch, lastReply[r]), rules[r].minInterval>> \in Seq(Nat)
    BY <2>2, <2>3
  <2>5. Decide(r, e)
            = Veto("rate_limited", <<Elapsed(e.epoch, lastReply[r]), rules[r].minInterval>>)
    BY <1>1 DEF Decide
  <2>6. QED
    BY <2>4, <2>5 DEF Veto, Payload, TurnType, Strategy, Action
<1>2. CASE ~RateLimited(r, e) /\ ConsecutiveLimit(r)
  <2>1. rules[r].maxTurns \in Nat
    BY RulesType DEF ObjectShape
  <2>2. Decide(r, e) = Veto("consecutive_limit", <<rules[r].maxTurns>>)
    BY <1>2 DEF Decide
  <2>3. QED
    BY <2>1, <2>2 DEF Veto, Payload, TurnType, Strategy, Action
<1>3. CASE ~RateLimited(r, e) /\ ~ConsecutiveLimit(r)
  <2>1. LearnedPolicy(e) \in TurnType
    <3>1. CASE e.kind = "question"
      BY <3>1 DEF LearnedPolicy, Turn, TurnType, Strategy, Action
    <3>2. CASE e.kind \in {"addressed", "mention"}
      BY <3>2 DEF LearnedPolicy, Turn, TurnType, Strategy, Action
    <3>3. CASE e.kind = "reaction"
      BY <3>3 DEF LearnedPolicy, Turn, TurnType, Strategy, Action
    <3>4. CASE e.kind \in {"chat", "command"}
      BY <3>4 DEF LearnedPolicy, Turn, TurnType, Strategy, Action
    <3>5. CASE e.kind \notin {"question", "addressed", "mention", "reaction", "chat", "command"}
      BY <3>5 DEF LearnedPolicy, Turn, TurnType, Strategy, Action
    <3>6. QED
      BY <3>1, <3>2, <3>3, <3>4, <3>5
  <2>2. CASE rules[r].mention /\ e.kind = "mention"
    <3>1. Decide(r, e) = Turn("speak", "direct_reply")
      BY <1>3, <2>2 DEF Decide
    <3>2. QED
      BY <3>1 DEF Turn, Payload, TurnType, Strategy, Action
  <2>3. CASE ~(rules[r].mention /\ e.kind = "mention") /\ rules[r].command /\ e.kind = "command"
    <3>1. Decide(r, e) = Turn("speak", "command_response")
      BY <1>3, <2>3 DEF Decide
    <3>2. QED
      BY <3>1 DEF Turn, Payload, TurnType, Strategy, Action
  <2>4. CASE ~(rules[r].mention /\ e.kind = "mention") /\ ~(rules[r].command /\ e.kind = "command")
    <3>1. Decide(r, e) = LearnedPolicy(e)
      BY <1>3, <2>4 DEF Decide
    <3>2. QED
      BY <3>1, <2>1 DEF Payload
  <2>5. QED
    BY <2>2, <2>3, <2>4
<1>4. QED
  BY <1>1, <1>2, <1>3

--------------------------------------------------------------------------------
(* The signals of an event are records, and there is always one.           *)
LEMMA SignalType ==
    ASSUME NEW kind \in SignalKind, NEW e \in Event, NEW value \in Payload
    PROVE  Signal(kind, e, value) \in Record
<1>1. SignalKey(kind, e.participant, e.epoch) \in Key
  BY EventType DEF Key
<1>2. QED
  BY <1>1 DEF Signal, Record

LEMMA OneOrNone ==
    ASSUME NEW x \in Record
    PROVE  <<x>> \in Seq(Record) /\ <<>> \in Seq(Record) /\ Len(<<x>>) = 1
OBVIOUS

LEMMA SignalsType ==
    ASSUME NEW log \in Seq(Event), Len(log) > 0
    PROVE  Signals(log) \in Seq(Record) /\ Len(Signals(log)) > 0
<1> DEFINE e == Last(log)
<1>1. e \in Event /\ Len(log) \in Nat
  BY DEF Last
<1>2. e.epoch \in Nat /\ e.kind \in Message \cup OtherKind
  BY <1>1, EventType, EpochType
<1>3. LatencySignal(log) \in Seq(Record)
  <2> DEFINE prev == log[Len(log) - 1]
  <2>1. CASE Len(log) > 1
    <3>1. prev \in Event
      BY <2>1, <1>1
    <3>2. Latency(e, prev) \in Payload
      BY <3>1, <1>2, EventType, EpochType DEF Latency, Payload
    <3>3. Signal("response_latency", e, Latency(e, prev)) \in Record
      BY <1>1, <3>2, SignalType DEF SignalKind
    <3>4. QED
      BY <3>3, OneOrNone DEF LatencySignal
  <2>2. CASE ~(Len(log) > 1)
    BY <2>2 DEF LatencySignal
  <2>3. QED
    BY <2>1, <2>2
<1>4. TypingSignal(log) \in Seq(Record)
  <2>1. Signal("typing_without_send", e, "true") \in Record
    BY <1>1, SignalType DEF SignalKind, Payload
  <2>2. QED
    BY <2>1, OneOrNone DEF TypingSignal
<1>5. RemovalSignal(log) \in Seq(Record)
  <2>1. CASE e.kind = "reaction_removed"
    <3>1. Signal("reaction_removal", e, e.text) \in Record
      BY <1>1, EventType, SignalType DEF SignalKind, Payload
    <3>2. QED
      BY <2>1, <3>1, OneOrNone DEF RemovalSignal
  <2>2. CASE e.kind # "reaction_removed"
    BY <2>2 DEF RemovalSignal
  <2>3. QED
    BY <2>1, <2>2
<1>6. VelocitySignal(log) \in Seq(Record) /\ Len(VelocitySignal(log)) = 1
  <2> DEFINE span == IF e.epoch = 0 THEN 1 ELSE e.epoch
             n == Cardinality(Messages(log))
  <2>1. n \in Nat
    <3>1. IsFiniteSet(1..Len(log))
      BY <1>1, FS_Interval
    <3>2. Messages(log) \subseteq 1..Len(log)
      BY <1>1 DEF Messages
    <3>3. QED
      BY <3>1, <3>2, FS_Subset, FS_CardinalityType
  <2>2. span \in Nat \ {0}
    BY <1>2
  <2> HIDE DEF n, span
  <2>3. (200 * n + span) \in Int /\ 2 * span \in Nat \ {0}
    BY <2>1, <2>2
  <2>4. (200 * n + span) \div (2 * span) \in Payload
    BY <2>3 DEF Payload
  <2>5. Signal("conversation_velocity", e, (200 * n + span) \div (2 * span)) \in Record
    BY <1>1, <2>4, SignalType DEF SignalKind
  <2>6. VelocitySignal(log)
          = <<Signal("conversation_velocity", e, (200 * n + span) \div (2 * span))>>
    BY DEF VelocitySignal, n, span
  <2>7. QED
    BY <2>5, <2>6, OneOrNone
<1> HIDE DEF e
<1>7. LatencySignal(log) \o TypingSignal(log) \in Seq(Record)
  BY <1>3, <1>4, ConcatProperties
<1>8. LatencySignal(log) \o TypingSignal(log) \o RemovalSignal(log) \in Seq(Record)
  BY <1>5, <1>7, ConcatProperties
<1> DEFINE front == LatencySignal(log) \o TypingSignal(log) \o RemovalSignal(log)
<1>9. Signals(log) = front \o VelocitySignal(log)
  BY DEF Signals
<1> HIDE DEF front
<1>10. front \in Seq(Record)
  BY <1>8 DEF front
<1>11. /\ front \o VelocitySignal(log) \in Seq(Record)
       /\ Len(front \o VelocitySignal(log)) = Len(front) + Len(VelocitySignal(log))
  BY <1>6, <1>10, ConcatProperties
<1>12. Len(front) \in Nat
  BY <1>10
<1>13. QED
  BY <1>6, <1>9, <1>11, <1>12

--------------------------------------------------------------------------------
(* What the parts of an action do to the shape of the state.               *)
LEMMA BeginShape ==
    ASSUME CallShape, NEW r \in Runtime, NEW records \in Seq(Record), Len(records) > 0,
           Begin(r, records), told' = told
    PROVE  CallShape'
BY DEF CallShape, Begin

LEMMA AbandonShape ==
    ASSUME CallShape, NEW r \in Runtime, Abandon(r)
    PROVE  CallShape'
BY DEF CallShape, Abandon

LEMMA CountBounds ==
    ASSUME Bounds, Count, faults' = faults
    PROVE  Bounds'
BY PersonalityAssumption DEF Bounds, Count

LEMMA FaultBounds ==
    ASSUME Bounds, faults < MaxFaults, faults' = faults + 1, events' = events
    PROVE  Bounds'
BY PersonalityAssumption DEF Bounds

(* The record a call writes next is one of its records.                    *)
LEMMA DueType ==
    ASSUME CallShape, NEW r \in Runtime, ~Idle(r)
    PROVE  /\ next[r] \in 1..Len(call[r])
           /\ Due(r) \in Record
           /\ Due(r).key \in Key
<1>1. next[r] \in 1..Len(call[r])
  BY DEF CallShape, Idle
<1>2. Due(r) \in Record
  BY <1>1 DEF CallShape, Due
<1>3. QED
  BY <1>1, <1>2 DEF Record

LEMMA AdvanceShape ==
    ASSUME CallShape, ObjectShape, NEW r \in Runtime, ~Idle(r), Advance(r),
           found' = [found EXCEPT ![r] = None]
    PROVE  CallShape' /\ pending' \in [Runtime -> SUBSET Record]
<1>1. next[r] \in 1..Len(call[r]) /\ \A i \in DOMAIN call[r] : call[r][i] \in Record
  BY DueType DEF CallShape
<1>2. CASE next[r] = Len(call[r])
  <2>1. /\ next' = [next EXCEPT ![r] = 0]
        /\ call' = [call EXCEPT ![r] = <<>>]
        /\ told' = told \cup {call[r][i] : i \in DOMAIN call[r]}
    BY <1>2 DEF Advance, Return
  <2>2. {call[r][i] : i \in DOMAIN call[r]} \subseteq Record
    BY <1>1
  <2>3. CallShape'
    BY <2>1, <2>2 DEF CallShape
  <2> DEFINE new == {call[r][i] : i \in {j \in DOMAIN call[r] : call[r][j].key[1] = "signal"}}
  <2>4. new \subseteq Record /\ pending' = [pending EXCEPT ![r] = @ \cup new]
    BY <1>1, <1>2 DEF Advance, Return
  <2>5. pending' \in [Runtime -> SUBSET Record]
    BY <2>4 DEF ObjectShape
  <2>6. QED
    BY <2>3, <2>5
<1>3. CASE next[r] # Len(call[r])
  <2>1. next' = [next EXCEPT ![r] = @ + 1] /\ UNCHANGED <<call, told, pending>>
    BY <1>3 DEF Advance
  <2>2. next[r] + 1 <= Len(call[r]) /\ next[r] + 1 \in Nat
    BY <1>1, <1>3 DEF CallShape
  <2>3. CallShape'
    BY <2>1, <2>2 DEF CallShape
  <2>4. QED
    BY <2>1, <2>3 DEF ObjectShape
<1>4. QED
  BY <1>2, <1>3

LEMMA TimeToUseType ==
    ASSUME StoredShape, ObjectShape, NEW r \in Runtime
    PROVE  TimeToUse(r) \in Clock
BY DEF StoredShape, ObjectShape, RowType, TimeToUse, Taken, Row

(* A row that is added has the shape of a row.                             *)
LEMMA WithRowShape ==
    ASSUME StoredShape, CallShape, NEW r \in Runtime, ~Idle(r), found[r] # None,
           stored' = IF Taken(r) THEN stored ELSE WithRow(r)
    PROVE  StoredShape'
<1>1. CASE Taken(r)
  BY <1>1 DEF StoredShape
<1>2. CASE ~Taken(r)
  <2> DEFINE row == [payload |-> Due(r).payload, at |-> found[r], by |-> r, deleted |-> FALSE]
  <2>1. Due(r).key \in Key /\ Due(r).payload \in Payload
    BY DueType DEF Record
  <2>2. found[r] \in Clock
    BY DEF CallShape
  <2>3. row \in RowType
    BY <2>1, <2>2 DEF RowType
  <2>4. stored' = [k \in DOMAIN stored \cup {Due(r).key} |->
                      IF k = Due(r).key THEN row ELSE stored[k]]
    BY <1>2 DEF WithRow
  <2>5. QED
    BY <2>1, <2>3, <2>4 DEF StoredShape
<1>3. QED
  BY <1>1, <1>2

LEMMA DeleteShape ==
    ASSUME StoredShape, NEW k \in DOMAIN stored,
           stored' = [stored EXCEPT ![k].deleted = TRUE]
    PROVE  /\ StoredShape'
           /\ DOMAIN stored' = DOMAIN stored
           /\ \A l \in DOMAIN stored : /\ stored'[l].payload = stored[l].payload
                                       /\ stored'[l].at = stored[l].at
                                       /\ stored'[l].by = stored[l].by
BY DEF StoredShape, RowType

--------------------------------------------------------------------------------
LEMMA ShapeInit == Init => Shape
BY PersonalityAssumption
   DEF Init, Shape, StoredShape, ObjectShape, CallShape, Bounds

LEMMA RouteEventShape ==
    ASSUME Shape, NEW r \in Runtime, NEW e \in Event, RouteEvent(r, e)
    PROVE  Shape'
<1> USE DEF Shape
<1> DEFINE turn == Decide(r, e)
           entry == [epoch |-> e.epoch, reply |-> IsReply(turn), rules |-> rules[r]]
           records == <<[key |-> TurnKey(e.epoch), payload |-> turn]>> \o Signals(recent'[r])
<1>1. recent' = [recent EXCEPT ![r] = Append(@, e)]
  BY DEF RouteEvent, Push
<1>2. recent' \in [Runtime -> Seq(Event)] /\ Len(recent'[r]) > 0 /\ recent'[r] \in Seq(Event)
  BY <1>1 DEF ObjectShape
<1>3. Signals(recent'[r]) \in Seq(Record)
  BY <1>2, SignalsType
<1>4. <<[key |-> TurnKey(e.epoch), payload |-> turn]>> \in Seq(Record)
      /\ Len(<<[key |-> TurnKey(e.epoch), payload |-> turn]>>) = 1
  <2>1. [key |-> TurnKey(e.epoch), payload |-> turn] \in Record
    BY EventType, DecideType DEF Record, Key
  <2>2. QED
    BY <2>1, OneOrNone
<1>5. records \in Seq(Record) /\ Len(records) > 0
  BY <1>3, <1>4, ConcatProperties
<1>6. CallShape'
  <2>1. Begin(r, records) /\ told' = told
    BY DEF RouteEvent
  <2>2. QED
    BY <1>5, <2>1, BeginShape
<1>7. ObjectShape'
  <2>1. /\ consecutive' = [consecutive EXCEPT ![r] = Counted(r, turn)]
        /\ lastReply' = [lastReply EXCEPT ![r] = IF IsReply(turn) THEN e.epoch ELSE @]
        /\ routed' = [routed EXCEPT ![r] = Append(@, entry)]
        /\ UNCHANGED <<clock, rules, pending>>
    BY DEF RouteEvent
  <2> HIDE DEF turn
  <2>2. Counted(r, turn) \in Nat
    BY DEF Counted, ObjectShape
  <2>3. entry \in RoutedType
    BY EventType DEF RoutedType, ObjectShape, IsReply
  <2>4. consecutive' \in [Runtime -> Nat]
    BY <2>1, <2>2 DEF ObjectShape
  <2>5. lastReply' \in [Runtime -> Epoch \cup {None}]
    BY <2>1, EventType DEF ObjectShape
  <2>6. routed' \in [Runtime -> Seq(RoutedType)]
    BY <2>1, <2>3 DEF ObjectShape
  <2>7. QED
    BY <1>2, <2>1, <2>4, <2>5, <2>6 DEF ObjectShape
<1>8. StoredShape' /\ Bounds'
  <2>1. stored' = stored /\ Count /\ faults' = faults
    BY DEF RouteEvent, Push
  <2>2. QED
    BY <2>1, CountBounds DEF StoredShape
<1>9. QED
  BY <1>6, <1>7, <1>8

LEMMA RecordEventShape ==
    ASSUME Shape, NEW r \in Runtime, NEW e \in Event, RecordEvent(r, e)
    PROVE  Shape'
<1> USE DEF Shape
<1>1. recent' = [recent EXCEPT ![r] = Append(@, e)]
  BY DEF RecordEvent, Push
<1>2. recent' \in [Runtime -> Seq(Event)] /\ Len(recent'[r]) > 0 /\ recent'[r] \in Seq(Event)
  BY <1>1 DEF ObjectShape
<1>3. Signals(recent'[r]) \in Seq(Record) /\ Len(Signals(recent'[r])) > 0
  BY <1>2, SignalsType
<1>4. Begin(r, Signals(recent'[r])) /\ told' = told
  BY DEF RecordEvent
<1>5. CallShape'
  BY <1>3, <1>4, BeginShape
<1>6. ObjectShape'
  BY <1>2 DEF RecordEvent, ObjectShape
<1>7. StoredShape' /\ Bounds'
  <2>1. stored' = stored /\ Count /\ faults' = faults
    BY DEF RecordEvent, Push
  <2>2. QED
    BY <2>1, CountBounds DEF StoredShape
<1>8. QED
  BY <1>5, <1>6, <1>7

LEMMA StoreCardShape ==
    ASSUME Shape, NEW r \in Runtime, NEW c \in Card, NEW content \in Content,
           StoreCard(r, c, content)
    PROVE  Shape'
<1> USE DEF Shape
<1> DEFINE record == [key |-> CardKey(c), payload |-> content]
<1>1. record \in Record
  BY DEF Record, Key, Payload
<1>2. <<record>> \in Seq(Record) /\ Len(<<record>>) > 0
  BY <1>1, OneOrNone
<1>3. Begin(r, <<record>>) /\ told' = told
  BY DEF StoreCard
<1>4. CallShape'
  BY <1>2, <1>3, BeginShape
<1>5. ObjectShape' /\ StoredShape'
  BY DEF StoreCard, memory, ObjectShape, StoredShape
<1>6. Bounds'
  BY CountBounds DEF StoreCard
<1>7. QED
  BY <1>4, <1>5, <1>6

LEMMA SetRulesShape ==
    ASSUME Shape, NEW r \in Runtime, NEW new \in Rules, SetRules(r, new)
    PROVE  Shape'
<1>1. Bounds'
  BY CountBounds DEF SetRules, Shape
<1>2. QED
  BY <1>1 DEF SetRules, Shape, StoredShape, ObjectShape, CallShape

LEMMA RestartShape ==
    ASSUME Shape, NEW r \in Runtime, NEW new \in Rules, Restart(r, new)
    PROVE  Shape'
<1>1. Bounds'
  BY FaultBounds DEF Restart, Shape
<1>2. CallShape'
  BY DEF Restart, Shape, CallShape
<1>3. ObjectShape' /\ StoredShape'
  BY DEF Restart, Shape, ObjectShape, StoredShape
<1>4. QED
  BY <1>1, <1>2, <1>3 DEF Shape

LEMMA LookUpShape ==
    ASSUME Shape, NEW r \in Runtime, LookUp(r)
    PROVE  Shape'
<1>1. TimeToUse(r) \in Clock
  BY TimeToUseType DEF Shape
<1>2. QED
  BY <1>1 DEF LookUp, memory, Shape, StoredShape, ObjectShape, CallShape, Bounds

LEMMA RememberShape ==
    ASSUME Shape, NEW r \in Runtime, Remember(r)
    PROVE  Shape'
<1> USE DEF Shape
<1>1. StoredShape'
  BY WithRowShape DEF Remember
<1>2. CallShape' /\ pending' \in [Runtime -> SUBSET Record]
  BY AdvanceShape DEF Remember
<1>3. ObjectShape'
  BY <1>2 DEF Remember, ObjectShape
<1>4. Bounds'
  BY DEF Remember, Bounds
<1>5. QED
  BY <1>1, <1>2, <1>3, <1>4

LEMMA RefuseShape ==
    ASSUME Shape, NEW r \in Runtime, Refuse(r)
    PROVE  Shape'
<1>1. CallShape'
  BY AbandonShape DEF Refuse, Shape
<1>2. QED
  BY <1>1 DEF Refuse, Abandon, memory, Shape, StoredShape, ObjectShape, Bounds

LEMMA FailShape ==
    ASSUME Shape, NEW r \in Runtime, Fail(r)
    PROVE  Shape'
<1>1. CallShape'
  BY AbandonShape DEF Fail, Shape
<1>2. Bounds'
  BY FaultBounds DEF Fail, Abandon, Shape
<1>3. QED
  BY <1>1, <1>2 DEF Fail, Abandon, memory, Shape, StoredShape, ObjectShape

LEMMA DeleteSourceShape ==
    ASSUME Shape, NEW k \in Key, DeleteSource(k)
    PROVE  Shape'
<1>1. StoredShape'
  BY DeleteShape DEF DeleteSource, Shape
<1>2. Bounds'
  BY FaultBounds DEF DeleteSource, Shape
<1>3. QED
  BY <1>1, <1>2 DEF DeleteSource, memory, Shape, ObjectShape, CallShape

LEMMA TickShape ==
    ASSUME Shape, NEW t \in Clock, Tick(t)
    PROVE  Shape'
BY DEF Tick, memory, Shape, StoredShape, ObjectShape, CallShape, Bounds

LEMMA ShapeStep == Shape /\ [Next]_vars => Shape'
<1> SUFFICES ASSUME Shape, [Next]_vars PROVE Shape'
  OBVIOUS
<1>1. CASE UNCHANGED vars
  BY <1>1 DEF vars, Shape, StoredShape, ObjectShape, CallShape, Bounds
<1>2. CASE Next
  BY <1>2, RouteEventShape, RecordEventShape, StoreCardShape, SetRulesShape, RestartShape,
     LookUpShape, RememberShape, RefuseShape, FailShape, DeleteSourceShape, TickShape
     DEF Next
<1>3. QED
  BY <1>1, <1>2

--------------------------------------------------------------------------------
(* A row is never replaced; only its deletion changes it.                  *)
RowsStay ==
    \A k \in DOMAIN stored :
        /\ k \in DOMAIN stored'
        /\ stored'[k].payload = stored[k].payload
        /\ stored'[k].at = stored[k].at
        /\ stored'[k].by = stored[k].by

LEMMA RememberRows ==
    ASSUME Shape, NEW r \in Runtime, Remember(r)
    PROVE  RowsStay
<1>1. CASE Taken(r)
  BY <1>1 DEF Remember, RowsStay
<1>2. CASE ~Taken(r)
  BY <1>2 DEF Remember, RowsStay, WithRow, Taken
<1>3. QED
  BY <1>1, <1>2

LEMMA RowsStayStep == Shape /\ [Next]_vars => RowsStay
<1> SUFFICES ASSUME Shape, [Next]_vars PROVE RowsStay
  OBVIOUS
<1>1. ASSUME stored' = stored PROVE RowsStay
  BY <1>1 DEF RowsStay
<1>2. ASSUME NEW k \in Key, DeleteSource(k) PROVE RowsStay
  BY <1>2, DeleteShape DEF DeleteSource, RowsStay, Shape
<1>3. ASSUME NEW r \in Runtime, LookUp(r) \/ Refuse(r) \/ Fail(r) PROVE RowsStay
  BY <1>1, <1>3 DEF LookUp, Refuse, Fail, Abandon
<1>4. CASE UNCHANGED vars
  BY <1>1, <1>4 DEF vars
<1>5. CASE Next
  BY <1>1, <1>2, <1>3, <1>5, RememberRows
     DEF Next, RouteEvent, RecordEvent, StoreCard, SetRules, Restart, Tick
<1>6. QED
  BY <1>4, <1>5

RecordInv == WrittenIsOnRecord /\ ReturnedIsOnRecord

(* Steps that write nothing and return nothing.                            *)
LEMMA QuietRecord ==
    ASSUME Shape, Shape', RecordInv, RowsStay, told' = told,
           \A q \in Runtime : \/ next'[q] <= 1
                              \/ call'[q] = call[q] /\ next'[q] = next[q]
    PROVE  RecordInv'
<1>1. ASSUME NEW record, OnRecord(record) PROVE OnRecord(record)'
  BY <1>1 DEF OnRecord, RowsStay
<1>2. ReturnedIsOnRecord'
  BY <1>1 DEF RecordInv, ReturnedIsOnRecord
<1>3. WrittenIsOnRecord'
  <2> SUFFICES ASSUME NEW q \in Runtime, NEW i \in 1..Len(call[q])', (i < next[q])'
               PROVE  OnRecord(call[q][i])'
    BY DEF WrittenIsOnRecord
  <2>1. next'[q] \in Nat /\ Len(call'[q]) \in Nat
    BY DEF Shape, CallShape
  <2>2. call'[q] = call[q] /\ next'[q] = next[q]
    BY <2>1
  <2>3. OnRecord(call[q][i])
    BY <2>2 DEF RecordInv, WrittenIsOnRecord
  <2>4. QED
    BY <1>1, <2>2, <2>3
<1>4. QED
  BY <1>2, <1>3 DEF RecordInv

(* A record that is remembered is on record.                               *)
LEMMA RememberedIsOnRecord ==
    ASSUME Shape, NEW r \in Runtime, Remember(r), NEW record, record = Due(r)
    PROVE  OnRecord(record)'
<1>1. CASE Taken(r)
  <2>1. stored' = stored /\ Replays(r)
    BY <1>1 DEF Remember
  <2>2. QED
    BY <1>1, <2>1 DEF Replays, OnRecord, Taken, Row
<1>2. CASE ~Taken(r)
  <2>1. stored' = WithRow(r)
    BY <1>2 DEF Remember
  <2>2. QED
    BY <2>1 DEF WithRow, OnRecord
<1>3. QED
  BY <1>1, <1>2

LEMMA RememberRecord ==
    ASSUME Shape, Shape', RecordInv, NEW r \in Runtime, Remember(r)
    PROVE  RecordInv'
<1>1. next[r] \in 1..Len(call[r]) /\ next[r] \in Nat /\ Len(call[r]) \in Nat
  BY DueType DEF Shape, CallShape, Remember
<1>2. ASSUME NEW record, OnRecord(record) PROVE OnRecord(record)'
  BY <1>2, RememberRows DEF OnRecord, RowsStay
<1>3. ASSUME NEW i \in 1..next[r], NEW record, record = call[r][i] PROVE OnRecord(record)'
  <2>1. CASE i < next[r]
    <3>1. OnRecord(call[r][i])
      BY <1>1, <2>1 DEF RecordInv, WrittenIsOnRecord
    <3>2. QED
      BY <1>2, <1>3, <3>1
  <2>2. CASE i = next[r]
    BY <1>3, <2>2, RememberedIsOnRecord DEF Due
  <2>3. QED
    BY <1>1, <2>1, <2>2
<1>4. ASSUME NEW q \in Runtime, call'[q] = call[q], next'[q] = next[q], q # r,
             NEW i \in 1..Len(call'[q]), i < next'[q], NEW record, record = call'[q][i]
      PROVE  OnRecord(record)'
  BY <1>2, <1>4 DEF RecordInv, WrittenIsOnRecord
<1>5. CASE next[r] = Len(call[r])
  <2>1. /\ next' = [next EXCEPT ![r] = 0]
        /\ call' = [call EXCEPT ![r] = <<>>]
        /\ told' = told \cup {call[r][i] : i \in DOMAIN call[r]}
    BY <1>5 DEF Remember, Advance, Return
  <2>2. ASSUME NEW record \in told' PROVE OnRecord(record)'
    <3>1. CASE record \in told
      BY <1>2, <3>1 DEF RecordInv, ReturnedIsOnRecord
    <3>2. CASE record \notin told
      <4>1. PICK i \in DOMAIN call[r] : record = call[r][i]
        BY <2>1, <2>2, <3>2
      <4>2. i \in 1..next[r]
        BY <1>5 DEF Shape, CallShape
      <4>3. QED
        BY <1>3, <4>1, <4>2
    <3>3. QED
      BY <3>1, <3>2
  <2>3. ReturnedIsOnRecord'
    BY <2>2 DEF ReturnedIsOnRecord
  <2>4. WrittenIsOnRecord'
    <3> SUFFICES ASSUME NEW q \in Runtime, NEW i \in 1..Len(call[q])', (i < next[q])'
                 PROVE  OnRecord(call[q][i])'
      BY DEF WrittenIsOnRecord
    <3>1. q # r
      BY <2>1 DEF Shape, CallShape
    <3>2. call'[q] = call[q] /\ next'[q] = next[q]
      BY <2>1, <3>1 DEF Shape, CallShape
    <3>3. QED
      BY <1>4, <3>1, <3>2
  <2>5. QED
    BY <2>3, <2>4 DEF RecordInv
<1>6. CASE next[r] # Len(call[r])
  <2>1. next' = [next EXCEPT ![r] = @ + 1] /\ UNCHANGED <<call, told, pending>>
    BY <1>6 DEF Remember, Advance
  <2>2. ReturnedIsOnRecord'
    BY <1>2, <2>1 DEF RecordInv, ReturnedIsOnRecord
  <2>3. WrittenIsOnRecord'
    <3> SUFFICES ASSUME NEW q \in Runtime, NEW i \in 1..Len(call[q])', (i < next[q])'
                 PROVE  OnRecord(call[q][i])'
      BY DEF WrittenIsOnRecord
    <3>1. CASE q = r
      <4>1. i \in 1..next[r]
        BY <1>1, <2>1, <3>1 DEF Shape, CallShape
      <4>2. QED
        BY <1>3, <2>1, <3>1, <4>1
    <3>2. CASE q # r
      <4>1. call'[q] = call[q] /\ next'[q] = next[q]
        BY <2>1, <3>2 DEF Shape, CallShape
      <4>2. QED
        BY <1>4, <3>2, <4>1
    <3>3. QED
      BY <3>1, <3>2
  <2>4. QED
    BY <2>2, <2>3 DEF RecordInv
<1>7. QED
  BY <1>5, <1>6

(* The other actions write nothing and return nothing.                     *)
LEMMA RecordStep == Shape /\ Shape' /\ RecordInv /\ [Next]_vars => RecordInv'
<1> SUFFICES ASSUME Shape, Shape', RecordInv, [Next]_vars PROVE RecordInv'
  OBVIOUS
<1> USE DEF Shape, ObjectShape, CallShape
<1>1. RowsStay
  BY RowsStayStep
<1>2. ASSUME UNCHANGED <<call, next, told>> PROVE RecordInv'
  BY <1>1, <1>2, QuietRecord
<1>3. ASSUME NEW r \in Runtime, NEW records, Begin(r, records), told' = told
      PROVE  RecordInv'
  <2>1. \A q \in Runtime : next'[q] <= 1 \/ (call'[q] = call[q] /\ next'[q] = next[q])
    BY <1>3 DEF Begin
  <2>2. QED
    BY <1>1, <1>3, <2>1, QuietRecord
<1>4. ASSUME NEW r \in Runtime, Abandon(r) PROVE RecordInv'
  <2>1. \A q \in Runtime : next'[q] <= 1 \/ (call'[q] = call[q] /\ next'[q] = next[q])
    BY <1>4 DEF Abandon
  <2>2. QED
    BY <1>1, <1>4, <2>1, QuietRecord DEF Abandon
<1>5. ASSUME NEW r \in Runtime, NEW new \in Rules, Restart(r, new) PROVE RecordInv'
  <2>1. \A q \in Runtime : next'[q] <= 1 \/ (call'[q] = call[q] /\ next'[q] = next[q])
    BY <1>5 DEF Restart
  <2>2. QED
    BY <1>1, <1>5, <2>1, QuietRecord DEF Restart
<1>6. CASE UNCHANGED vars
  BY <1>2, <1>6 DEF vars
<1>7. CASE Next
  BY <1>2, <1>3, <1>4, <1>5, <1>7, RememberRecord
     DEF Next, RouteEvent, RecordEvent, StoreCard, SetRules, LookUp, Refuse, Fail,
         DeleteSource, Tick, memory
<1>8. QED
  BY <1>6, <1>7

--------------------------------------------------------------------------------
(* Rows that appear are the work of whoever is not looking.                *)
LEMMA QuietReplay ==
    ASSUME OwnReplaysIgnoreTheClock, RowsStay,
           \A q \in Runtime :
              \/ found'[q] = None
              \/ next'[q] = 0
              \/ /\ call'[q] = call[q] /\ next'[q] = next[q] /\ found'[q] = found[q]
                 /\ \A k \in DOMAIN stored' \ DOMAIN stored : stored'[k].by # q
    PROVE  OwnReplaysIgnoreTheClock'
BY DEF OwnReplaysIgnoreTheClock, RowsStay, Idle, Taken, Row, Due

LEMMA ReplayStep ==
    Shape /\ Shape' /\ OwnReplaysIgnoreTheClock /\ [Next]_vars => OwnReplaysIgnoreTheClock'
<1> SUFFICES ASSUME Shape, Shape', OwnReplaysIgnoreTheClock, [Next]_vars
             PROVE  OwnReplaysIgnoreTheClock'
  OBVIOUS
<1> USE DEF Shape, CallShape
<1>1. RowsStay
  BY RowsStayStep
<1>2. ASSUME UNCHANGED <<call, next, found>>, DOMAIN stored' = DOMAIN stored
      PROVE  OwnReplaysIgnoreTheClock'
  BY <1>1, <1>2, QuietReplay
<1>3. ASSUME NEW r \in Runtime, NEW records, Begin(r, records), stored' = stored
      PROVE  OwnReplaysIgnoreTheClock'
  <2>1. \A q \in Runtime :
           \/ found'[q] = None
           \/ call'[q] = call[q] /\ next'[q] = next[q] /\ found'[q] = found[q]
    BY <1>3 DEF Begin
  <2>2. QED
    BY <1>1, <1>3, <2>1, QuietReplay
<1>4. ASSUME NEW r \in Runtime, Abandon(r) PROVE OwnReplaysIgnoreTheClock'
  <2>1. \A q \in Runtime :
           \/ found'[q] = None
           \/ call'[q] = call[q] /\ next'[q] = next[q] /\ found'[q] = found[q]
    BY <1>4 DEF Abandon
  <2>2. QED
    BY <1>1, <1>4, <2>1, QuietReplay DEF Abandon
<1>5. ASSUME NEW r \in Runtime, NEW new \in Rules, Restart(r, new)
      PROVE  OwnReplaysIgnoreTheClock'
  <2>1. \A q \in Runtime :
           \/ found'[q] = None
           \/ call'[q] = call[q] /\ next'[q] = next[q] /\ found'[q] = found[q]
    BY <1>5 DEF Restart
  <2>2. QED
    BY <1>1, <1>5, <2>1, QuietReplay DEF Restart
<1>6. ASSUME NEW r \in Runtime, Remember(r) PROVE OwnReplaysIgnoreTheClock'
  <2>1. \A k \in DOMAIN stored' \ DOMAIN stored : stored'[k].by = r
    BY <1>6 DEF Remember, WithRow
  <2>2. \A q \in Runtime \ {r} : call'[q] = call[q] /\ next'[q] = next[q] /\ found'[q] = found[q]
    <3>1. CASE next[r] = Len(call[r])
      BY <1>6, <3>1 DEF Remember, Advance, Return
    <3>2. CASE next[r] # Len(call[r])
      BY <1>6, <3>2 DEF Remember, Advance
    <3>3. QED
      BY <3>1, <3>2
  <2>3. found'[r] = None
    BY <1>6 DEF Remember
  <2>4. QED
    BY <1>1, <2>1, <2>2, <2>3, QuietReplay
<1>7. ASSUME NEW r \in Runtime, LookUp(r) PROVE OwnReplaysIgnoreTheClock'
  BY <1>7 DEF LookUp, OwnReplaysIgnoreTheClock, TimeToUse, Idle, Taken, Row, Due
<1>8. ASSUME NEW k \in Key, DeleteSource(k) PROVE OwnReplaysIgnoreTheClock'
  BY <1>2, <1>8, DeleteShape DEF DeleteSource
<1>9. CASE UNCHANGED vars
  BY <1>2, <1>9 DEF vars
<1>10. CASE Next
  BY <1>2, <1>3, <1>4, <1>5, <1>6, <1>7, <1>8, <1>10
     DEF Next, RouteEvent, RecordEvent, StoreCard, SetRules, Refuse, Fail, Tick
<1>11. QED
  BY <1>9, <1>10

--------------------------------------------------------------------------------
(* What a decision does to the counters and to the events routed.          *)
LEMMA RouteEventRouter ==
    ASSUME Shape, RouterInv, RouterKeepsItsLimits, NEW r \in Runtime, NEW e \in Event,
           RouteEvent(r, e)
    PROVE  CountsReplies(r)' /\ DatesReplies(r)'
           /\ \A i, j \in DOMAIN routed'[r] :
                 /\ i <= j /\ (\A k \in i..j : routed'[r][k].reply)
                    => j - i < routed'[r][j].rules.maxTurns
                 /\ /\ i < j /\ routed'[r][i].reply /\ routed'[r][j].reply
                    /\ \A k \in i + 1..j - 1 : ~routed'[r][k].reply
                    /\ routed'[r][i].epoch <= routed'[r][j].epoch
                    => routed'[r][j].epoch - routed'[r][i].epoch
                          >= routed'[r][j].rules.minInterval
<1> USE DEF Shape, ObjectShape
<1> DEFINE turn == Decide(r, e)
           entry == [epoch |-> e.epoch, reply |-> IsReply(turn), rules |-> rules[r]]
           n == Len(routed[r])
           log == routed[r]
           log1 == routed'[r]
<1>1. /\ consecutive'[r] = Counted(r, turn)
      /\ lastReply'[r] = IF IsReply(turn) THEN e.epoch ELSE lastReply[r]
      /\ log1 = Append(log, entry)
  BY DEF RouteEvent
<1>2. log \in Seq(RoutedType) /\ n \in Nat /\ consecutive[r] \in Nat /\ DOMAIN log = 1..n
  OBVIOUS
<1>3. /\ Len(log1) = n + 1
      /\ DOMAIN log1 = 1..n + 1
      /\ log1[n + 1] = entry
      /\ \A k \in 1..n : log1[k] = log[k] /\ log[k] \in RoutedType
  BY <1>1, <1>2
<1>4. IsReply(turn) => /\ consecutive[r] < rules[r].maxTurns
                       /\ ~RateLimited(r, e)
  <2>1. IsReply(turn) => ~RateLimited(r, e) /\ ~ConsecutiveLimit(r)
    BY VetoIsNoReply
  <2>2. rules[r].maxTurns \in Nat
    BY RulesType
  <2>3. QED
    BY <1>2, <2>1, <2>2 DEF ConsecutiveLimit
<1>5. entry.reply = IsReply(turn) /\ entry.epoch = e.epoch /\ entry.rules = rules[r]
  OBVIOUS
<1> HIDE DEF turn, entry, n, log, log1
<1>6. CountsReplies(r) /\ DatesReplies(r)
  BY DEF RouterInv
<1>7. CountsReplies(r)'
  <2>1. CASE IsReply(turn)
    <3>1. consecutive'[r] = consecutive[r] + 1
      BY <1>1, <2>1 DEF Counted
    <3>2. consecutive[r] < n => ~log[n - consecutive[r]].reply
      BY <1>6 DEF CountsReplies, n, log
    <3>3. consecutive[r] <= n
      BY <1>6 DEF CountsReplies, n
    <3>4. consecutive[r] < n => log1[n - consecutive[r]] = log[n - consecutive[r]]
      <4>1. consecutive[r] < n => n - consecutive[r] \in 1..n
        BY <1>2
      <4>2. QED
        BY <1>3, <4>1
    <3>5. consecutive'[r] <= Len(log1)
      BY <1>2, <1>3, <3>1, <3>3
    <3>6. consecutive'[r] < Len(log1) => ~log1[Len(log1) - consecutive'[r]].reply
      BY <1>2, <1>3, <3>1, <3>2, <3>4
    <3>7. QED
      BY <3>5, <3>6 DEF CountsReplies, log1
  <2>2. CASE ~IsReply(turn)
    <3>1. consecutive'[r] = 0
      BY <1>1, <2>2 DEF Counted
    <3>2. consecutive'[r] <= Len(log1) /\ ~log1[Len(log1) - consecutive'[r]].reply
      BY <1>2, <1>3, <1>5, <2>2, <3>1
    <3>3. QED
      BY <3>2 DEF CountsReplies, log1
  <2>3. QED
    BY <2>1, <2>2
<1>8. ASSUME NEW k \in 1..n + 1, log1[k].reply, \A m \in k + 1..n + 1 : ~log1[m].reply
      PROVE  lastReply'[r] = log1[k].epoch
  <2>1. CASE k = n + 1
    BY <1>1, <1>3, <1>5, <1>8, <2>1
  <2>2. CASE k # n + 1
    <3>1. k \in 1..n /\ n + 1 \in k + 1..n + 1
      BY <1>2, <2>2
    <3>2. ~IsReply(turn)
      BY <1>3, <1>5, <1>8, <3>1
    <3>3. log[k].reply
      BY <1>3, <1>8, <3>1
    <3>4. \A m \in k + 1..n : ~log[m].reply
      <4>1. \A m \in k + 1..n : m \in 1..n /\ m \in k + 1..n + 1
        BY <1>2, <3>1
      <4>2. QED
        BY <1>3, <1>8, <4>1
    <3>5. lastReply[r] = log[k].epoch
      BY <1>2, <1>6, <3>1, <3>3, <3>4 DEF DatesReplies, log, n
    <3>6. QED
      BY <1>1, <1>3, <3>1, <3>2, <3>5
  <2>3. QED
    BY <2>1, <2>2
<1>9. DatesReplies(r)'
  <2>1. DOMAIN log1 = 1..n + 1 /\ Len(log1) = n + 1
    BY <1>3
  <2>2. QED
    BY <1>8, <2>1 DEF DatesReplies, log1
<1>10. ASSUME NEW i \in 1..n + 1, NEW j \in 1..n + 1, i <= j, \A k \in i..j : log1[k].reply
       PROVE  j - i < log1[j].rules.maxTurns
  <2>1. CASE j = n + 1
    <3>1. IsReply(turn)
      BY <1>2, <1>3, <1>5, <1>10, <2>1
    <3>2. j - i <= consecutive[r]
      <4>1. SUFFICES ASSUME ~(j - i <= consecutive[r]) PROVE FALSE
        OBVIOUS
      <4>2. /\ consecutive[r] < n
            /\ n - consecutive[r] \in i..j
            /\ n - consecutive[r] \in 1..n
        BY <1>2, <2>1, <4>1
      <4>3. ~log[n - consecutive[r]].reply
        BY <1>6, <4>2 DEF CountsReplies, n, log
      <4>4. QED
        BY <1>3, <1>10, <4>2, <4>3
    <3>3. log1[j].rules.maxTurns = rules[r].maxTurns /\ rules[r].maxTurns \in Nat
      BY <1>3, <1>5, <2>1, RulesType
    <3>4. QED
      BY <1>2, <1>4, <2>1, <3>1, <3>2, <3>3
  <2>2. CASE j # n + 1
    <3>1. i \in 1..n /\ j \in 1..n /\ \A k \in i..j : k \in 1..n
      BY <1>2, <1>10, <2>2
    <3>2. \A k \in i..j : log[k].reply
      BY <1>3, <1>10, <3>1
    <3>3. j - i < log[j].rules.maxTurns
      <4>1. i \in DOMAIN routed[r] /\ j \in DOMAIN routed[r]
        BY <1>2, <3>1 DEF log
      <4>2. AllReplies(r, i, j)
        BY <3>2 DEF AllReplies, log
      <4>3. QED
        BY <1>10, <4>1, <4>2 DEF RouterKeepsItsLimits, RepliesAreLimited, log
    <3>4. QED
      BY <1>3, <3>1, <3>3
  <2>3. QED
    BY <2>1, <2>2
<1>11. ASSUME NEW i \in 1..n + 1, NEW j \in 1..n + 1, i < j, log1[i].reply, log1[j].reply,
              \A k \in i + 1..j - 1 : ~log1[k].reply, log1[i].epoch <= log1[j].epoch
       PROVE  log1[j].epoch - log1[i].epoch >= log1[j].rules.minInterval
  <2>1. i \in 1..n /\ \A k \in i + 1..j - 1 : k \in 1..n
    BY <1>2, <1>11
  <2>2. CASE j = n + 1
    <3>1. IsReply(turn)
      BY <1>3, <1>5, <1>11, <2>2
    <3>2. log[i].reply /\ \A m \in i + 1..n : ~log[m].reply
      <4>1. \A m \in i + 1..n : m \in i + 1..j - 1
        BY <1>2, <2>2
      <4>2. QED
        BY <1>3, <1>11, <2>1, <4>1
    <3>3. lastReply[r] = log[i].epoch
      BY <1>2, <1>6, <2>1, <3>2 DEF DatesReplies, log, n
    <3>4. log[i].epoch \in Epoch /\ log[i].epoch \in Nat /\ e.epoch \in Nat
      BY <1>3, <2>1, EventType, EpochType DEF RoutedType
    <3>5. rules[r].minInterval \in Nat
      BY RulesType
    <3>6. lastReply[r] # None
      BY <3>3, <3>4, PersonalityAssumption
    <3>7. log1[j].epoch = e.epoch /\ log1[i].epoch = log[i].epoch /\ log1[j].rules = rules[r]
      BY <1>3, <1>5, <2>1, <2>2
    <3>8. Elapsed(e.epoch, lastReply[r]) = e.epoch - log[i].epoch
      BY <1>11, <3>3, <3>7 DEF Elapsed
    <3>9. ~(rules[r].minInterval > 0) \/ ~(e.epoch - log[i].epoch < rules[r].minInterval)
      BY <1>4, <3>1, <3>6, <3>8 DEF RateLimited
    <3>10. e.epoch - log[i].epoch >= rules[r].minInterval
      BY <1>11, <3>4, <3>5, <3>7, <3>9
    <3>11. QED
      BY <3>7, <3>10
  <2>3. CASE j # n + 1
    <3>1. j \in 1..n
      BY <1>2, <2>3
    <3>2. log[i].reply /\ log[j].reply /\ log[i].epoch <= log[j].epoch
      BY <1>3, <1>11, <2>1, <3>1
    <3>3. \A k \in i + 1..j - 1 : ~log[k].reply
      BY <1>3, <1>11, <2>1
    <3>4. log[j].epoch - log[i].epoch >= log[j].rules.minInterval
      <4>1. i \in DOMAIN routed[r] /\ j \in DOMAIN routed[r]
        BY <1>2, <2>1, <3>1 DEF log
      <4>2. QED
        BY <1>11, <3>2, <3>3, <4>1 DEF RouterKeepsItsLimits, RepliesAreSpaced, log
    <3>5. QED
      BY <1>3, <2>1, <3>1, <3>4
  <2>4. QED
    BY <2>2, <2>3
<1>12. DOMAIN log1 = 1..n + 1
  BY <1>3
<1>13. QED
  BY <1>7, <1>9, <1>10, <1>11, <1>12 DEF log1

(* Objects that route nothing keep their counters, or lose them with all   *)
(* they routed.                                                            *)
LEMMA QuietRouter ==
    ASSUME RouterInv, RouterKeepsItsLimits,
           \A q \in Runtime :
              \/ /\ consecutive'[q] = consecutive[q]
                 /\ lastReply'[q] = lastReply[q]
                 /\ routed'[q] = routed[q]
              \/ consecutive'[q] = 0 /\ routed'[q] = <<>>
    PROVE  (RouterInv /\ RouterKeepsItsLimits)'
<1>1. RouterInv'
  BY DEF RouterInv, CountsReplies, DatesReplies
<1>2. RepliesAreLimited'
  BY DEF RouterKeepsItsLimits, RepliesAreLimited, AllReplies
<1>3. RepliesAreSpaced'
  BY DEF RouterKeepsItsLimits, RepliesAreSpaced
<1>4. QED
  BY <1>1, <1>2, <1>3 DEF RouterKeepsItsLimits

LEMMA RouterStep ==
    Shape /\ RouterInv /\ RouterKeepsItsLimits /\ [Next]_vars
        => (RouterInv /\ RouterKeepsItsLimits)'
<1> SUFFICES ASSUME Shape, RouterInv, RouterKeepsItsLimits, [Next]_vars
             PROVE  (RouterInv /\ RouterKeepsItsLimits)'
  OBVIOUS
<1> USE DEF Shape, ObjectShape
<1>1. ASSUME UNCHANGED <<consecutive, lastReply, routed>>
      PROVE  (RouterInv /\ RouterKeepsItsLimits)'
  BY <1>1, QuietRouter
<1>2. ASSUME NEW r \in Runtime, NEW new \in Rules, Restart(r, new)
      PROVE  (RouterInv /\ RouterKeepsItsLimits)'
  BY <1>2, QuietRouter DEF Restart
<1>3. ASSUME NEW r \in Runtime, NEW e \in Event, RouteEvent(r, e)
      PROVE  (RouterInv /\ RouterKeepsItsLimits)'
  <2>1. \A q \in Runtime \ {r} : /\ consecutive'[q] = consecutive[q]
                                 /\ lastReply'[q] = lastReply[q]
                                 /\ routed'[q] = routed[q]
    BY <1>3 DEF RouteEvent
  <2>2. RouterInv'
    <3>1. CountsReplies(r)' /\ DatesReplies(r)'
      BY <1>3, RouteEventRouter
    <3>2. ASSUME NEW q \in Runtime \ {r} PROVE CountsReplies(q)' /\ DatesReplies(q)'
      <4>1. CountsReplies(q) /\ DatesReplies(q)
        BY DEF RouterInv
      <4>2. CountsReplies(q)'
        BY <2>1, <4>1 DEF CountsReplies
      <4>3. DatesReplies(q)'
        BY <2>1, <4>1 DEF DatesReplies
      <4>4. QED
        BY <4>2, <4>3
    <3>3. QED
      BY <3>1, <3>2 DEF RouterInv
  <2>3. RepliesAreLimited'
    <3>1. \A i, j \in DOMAIN routed'[r] :
             i <= j /\ (\A k \in i..j : routed'[r][k].reply)
                => j - i < routed'[r][j].rules.maxTurns
      BY <1>3, RouteEventRouter
    <3>2. ASSUME NEW q \in Runtime \ {r}, NEW i \in DOMAIN routed'[q], NEW j \in DOMAIN routed'[q],
                 i <= j, \A k \in i..j : routed'[q][k].reply
          PROVE  j - i < routed'[q][j].rules.maxTurns
      <4>1. routed'[q] = routed[q]
        BY <2>1
      <4>2. AllReplies(q, i, j)
        BY <3>2, <4>1 DEF AllReplies
      <4>3. QED
        BY <3>2, <4>1, <4>2 DEF RouterKeepsItsLimits, RepliesAreLimited
    <3>3. QED
      BY <3>1, <3>2 DEF RepliesAreLimited, AllReplies
  <2>4. RepliesAreSpaced'
    <3>1. \A i, j \in DOMAIN routed'[r] :
             /\ i < j /\ routed'[r][i].reply /\ routed'[r][j].reply
             /\ \A k \in i + 1..j - 1 : ~routed'[r][k].reply
             /\ routed'[r][i].epoch <= routed'[r][j].epoch
             => routed'[r][j].epoch - routed'[r][i].epoch >= routed'[r][j].rules.minInterval
      BY <1>3, RouteEventRouter
    <3>2. \A q \in Runtime \ {r} : \A i, j \in DOMAIN routed'[q] :
             /\ i < j /\ routed'[q][i].reply /\ routed'[q][j].reply
             /\ \A k \in i + 1..j - 1 : ~routed'[q][k].reply
             /\ routed'[q][i].epoch <= routed'[q][j].epoch
             => routed'[q][j].epoch - routed'[q][i].epoch >= routed'[q][j].rules.minInterval
      BY <2>1 DEF RouterKeepsItsLimits, RepliesAreSpaced
    <3>3. QED
      BY <3>1, <3>2 DEF RepliesAreSpaced
  <2>5. QED
    BY <2>2, <2>3, <2>4 DEF RouterKeepsItsLimits
<1>4. ASSUME NEW r \in Runtime, Remember(r)
      PROVE  (RouterInv /\ RouterKeepsItsLimits)'
  BY <1>1, <1>4 DEF Remember
<1>5. CASE UNCHANGED vars
  BY <1>1, <1>5 DEF vars
<1>6. CASE Next
  BY <1>1, <1>2, <1>3, <1>4, <1>6
     DEF Next, RecordEvent, StoreCard, SetRules, LookUp, Refuse, Fail, Abandon, DeleteSource,
         Tick, memory
<1>7. QED
  BY <1>5, <1>6

--------------------------------------------------------------------------------
PersonalityInv ==
    Shape /\ RecordInv /\ OwnReplaysIgnoreTheClock /\ RouterInv /\ RouterKeepsItsLimits

LEMMA PersonalityInvInit == Init => PersonalityInv
<1> SUFFICES ASSUME Init PROVE PersonalityInv
  OBVIOUS
<1>1. Shape
  BY ShapeInit
<1>2. RecordInv
  BY DEF Init, RecordInv, WrittenIsOnRecord, ReturnedIsOnRecord
<1>3. OwnReplaysIgnoreTheClock
  BY DEF Init, OwnReplaysIgnoreTheClock, Idle
<1>4. \A r \in Runtime : routed[r] = <<>> /\ consecutive[r] = 0
  BY DEF Init
<1>5. RouterInv
  BY <1>4 DEF RouterInv, CountsReplies, DatesReplies
<1>6. RouterKeepsItsLimits
  BY <1>4 DEF RouterKeepsItsLimits, RepliesAreLimited, RepliesAreSpaced
<1>7. QED
  BY <1>1, <1>2, <1>3, <1>5, <1>6 DEF PersonalityInv

LEMMA PersonalityInvStep == PersonalityInv /\ [Next]_vars => PersonalityInv'
BY ShapeStep, RecordStep, ReplayStep, RouterStep DEF PersonalityInv

(* The invariant, as a theorem: records are written as announced, and the  *)
(* counters say what was decided.                                          *)
THEOREM PersonalityInvariant == Spec => []PersonalityInv
BY PersonalityInvInit, PersonalityInvStep, PTL DEF Spec

(* The state of the store, of the objects and of the calls in progress     *)
(* keeps its shape; next never runs past the records of a call.            *)
THEOREM PersonalityTypes == Spec => []TypeOK
<1>1. PersonalityInv => TypeOK
  BY DEF PersonalityInv, Shape, StoredShape, RowType, ObjectShape, CallShape, Bounds, TypeOK
<1>2. QED
  BY <1>1, PersonalityInvariant, PTL

(* What route_event, record_event and the store_ calls returned stays in   *)
(* the store as it was returned, for any number of objects, calls, faults  *)
(* and restarts.                                                           *)
THEOREM ReturnedStaysOnRecord == Spec => []ReturnedIsOnRecord
<1>1. PersonalityInv => ReturnedIsOnRecord
  BY DEF PersonalityInv, RecordInv
<1>2. QED
  BY <1>1, PersonalityInvariant, PTL

(* evaluate_hard_rules holds an object to max_consecutive_turns and to     *)
(* min_response_interval, with rules that change and calls that fail.      *)
THEOREM RepliesKeepTheLimits == Spec => []RouterKeepsItsLimits
<1>1. PersonalityInv => RouterKeepsItsLimits
  BY DEF PersonalityInv
<1>2. QED
  BY <1>1, PersonalityInvariant, PTL

(* ingestion_timestamps gives an object back the time of what it wrote     *)
(* itself, however long ago.                                               *)
THEOREM OwnReplaysKeepTheirTime == Spec => []OwnReplaysIgnoreTheClock
<1>1. PersonalityInv => OwnReplaysIgnoreTheClock
  BY DEF PersonalityInv
<1>2. QED
  BY <1>1, PersonalityInvariant, PTL
================================================================================
