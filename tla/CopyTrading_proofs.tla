------------------------ MODULE CopyTrading_proofs --------------------------
(***************************************************************************)
(* Proofs about CopyTrading, for any followers, strategies, ids, handlers, *)
(* limits and numbers of periods.                                          *)
(***************************************************************************)
EXTENDS CopyTrading, FiniteSetTheorems, TLAPS

(***************************************************************************)
(* The inductive invariant.  A billing job works from documents read some  *)
(* time ago.  What no other request undoes is that the period it read as   *)
(* due has passed: the total it read leaves room for one more fee.         *)
(***************************************************************************)

\* What a billing job holds of a subscription it has yet to bill.
RoomForFee(d, x) ==
    /\ d # None
    /\ x \in Stored
    /\ d.totalFeesPaid + 1 <= subscriptions[x].periods

\* What a handler in progress holds.
Held(h) ==
    /\ handlers[h].at = "checkExisting" => /\ handlers[h].follower # None
                                           /\ handlers[h].strategy # None
    /\ handlers[h].at = "saveNew" => /\ handlers[h].follower # None
                                     /\ handlers[h].strategy # None
    /\ handlers[h].at \in {"readCount", "increment", "decrement", "edit",
                         "delete"} =>
          handlers[h].strategy # None
    /\ handlers[h].at \in {"decrement", "saveStatus"} =>
          /\ handlers[h].subscription \in Stored
          /\ handlers[h].status # None
    /\ handlers[h].at \in {"readFee", "saveFee"} =>
          \A x \in handlers[h].todo : RoomForFee(handlers[h].read[x], x)
    /\ handlers[h].at = "saveFee" =>
          /\ handlers[h].subscription # None
          /\ RoomForFee(handlers[h].read[handlers[h].subscription],
                        handlers[h].subscription)

IInv == /\ TypeOK
        /\ NeverOverbilled
        /\ \A h \in Handler : Held(h)

LEMMA IdleType == Idle \in HandlerState
  BY CopyTradingAssumption DEF Idle, HandlerState, Stage, NothingRead

LEMMA DocNotNone == \A d \in SubscriptionDoc : d # None
  BY CopyTradingAssumption

LEMMA InitIInv == Init => IInv
<1> SUFFICES ASSUME Init PROVE IInv
  OBVIOUS
<1>1. TypeOK
  <2>1. [exists |-> "not yet", currentSubscribers |-> 0, maxSubscribers |-> 0,
         highest |-> 0, lowest |-> 0] \in StrategyDoc
    BY DEF StrategyDoc
  <2>2. strategies \in [Strategy -> StrategyDoc]
    BY <2>1 DEF Init
  <2>3. QED
    BY <2>2, IdleType DEF Init, TypeOK, NothingRead
<1>2. Stored = {}
  BY DEF Init, Stored, NothingRead
<1>3. \A h \in Handler : handlers[h].at = "idle"
  BY DEF Init, Idle
<1>4. QED
  BY <1>1, <1>2, <1>3 DEF IInv, NeverOverbilled, Held

-----------------------------------------------------------------------------
(* What no step of the system undoes: a subscription stays, and the        *)
(* periods that have passed have passed.                                   *)

Grows ==
    /\ subscriptions' \in [SubscriptionId -> SubscriptionDoc \cup {None}]
    /\ \A x \in Stored : /\ x \in Stored'
                         /\ subscriptions'[x].periods >= subscriptions[x].periods

LEMMA HeldKept ==
    ASSUME IInv, Grows, NEW h \in Handler, handlers'[h] = handlers[h]
    PROVE  Held(h)'
<1>1. Held(h) /\ handlers[h] \in HandlerState
  BY DEF IInv, TypeOK
<1>2. Stored \subseteq Stored'
  BY DEF Grows
<1>3. ASSUME NEW x \in SubscriptionId, RoomForFee(handlers[h].read[x], x)
      PROVE  RoomForFee(handlers[h].read[x], x)'
  <2>1. /\ handlers[h].read[x] \in SubscriptionDoc
        /\ subscriptions[x] \in SubscriptionDoc
        /\ subscriptions'[x] \in SubscriptionDoc
    BY <1>1, <1>3 DEF RoomForFee, Stored, IInv, TypeOK, HandlerState, Grows
  <2>2. QED
    BY <1>3, <2>1 DEF RoomForFee, Grows, SubscriptionDoc
<1>4. QED
  BY <1>1, <1>2, <1>3 DEF Held, HandlerState

\* A handler moves: the others hold what they held.
LEMMA StepIInv ==
    ASSUME IInv, NEW h \in Handler, NEW state \in HandlerState, Goto(h, state),
           strategies' \in [Strategy -> StrategyDoc],
           Grows, NeverOverbilled', Held(h)'
    PROVE  IInv'
<1>1. handlers'[h] = state /\ \A g \in Handler \ {h} : handlers'[g] = handlers[g]
  BY DEF Goto, IInv, TypeOK
<1>2. TypeOK'
  BY DEF Goto, IInv, TypeOK, Grows
<1>3. \A g \in Handler : Held(g)'
  BY <1>1, HeldKept
<1>4. QED
  BY <1>2, <1>3 DEF IInv

LEMMA SameSubscriptions ==
    ASSUME IInv, UNCHANGED subscriptions PROVE Grows /\ NeverOverbilled'
<1>1. NeverOverbilled'
  BY DEF IInv, NeverOverbilled, Stored
<1>2. \A x \in Stored : subscriptions[x].periods >= subscriptions[x].periods
  BY DEF IInv, TypeOK, Stored, SubscriptionDoc
<1>3. QED
  BY <1>1, <1>2 DEF IInv, TypeOK, Grows, Stored

\* A handler that goes idle holds nothing.
LEMMA GoIdle ==
    ASSUME IInv, NEW h \in Handler, Goto(h, Idle) PROVE Held(h)'
  BY IdleType DEF Goto, IInv, TypeOK, Held, Idle

LEMMA AddType ==
    ASSUME IInv, NEW s \in Strategy, NEW n \in Int, Add(s, n)
    PROVE  strategies' \in [Strategy -> StrategyDoc]
<1>1. strategies \in [Strategy -> StrategyDoc]
  BY DEF IInv, TypeOK
<1>2. ASSUME NEW d \in StrategyDoc
      PROVE  [d EXCEPT !.currentSubscribers = @ + n] \in StrategyDoc
  <2>1. d.currentSubscribers \in Int
    BY DEF StrategyDoc
  <2>2. d.currentSubscribers + n \in Int
    BY <2>1
  <2>3. QED
    BY <2>2 DEF StrategyDoc
<1>3. QED
  BY <1>1, <1>2 DEF Add

-----------------------------------------------------------------------------
(* StrategiesService                                                       *)

LEMMA CreateStrategyIInv ==
    ASSUME IInv, NEW s \in Strategy, CreateStrategy(s) PROVE IInv'
<1>1. Grows /\ NeverOverbilled'
  BY SameSubscriptions DEF CreateStrategy
<1>2. TypeOK'
  <2>1. PICK limit \in Limits : strategies' = [strategies EXCEPT ![s] =
            [exists |-> "yes", currentSubscribers |-> 0, maxSubscribers |-> limit,
             highest |-> limit, lowest |-> limit]]
    BY DEF CreateStrategy
  <2>2. [exists |-> "yes", currentSubscribers |-> 0, maxSubscribers |-> limit,
         highest |-> limit, lowest |-> limit] \in StrategyDoc
    BY CopyTradingAssumption DEF StrategyDoc
  <2>3. QED
    BY <2>1, <2>2 DEF CreateStrategy, IInv, TypeOK
<1>3. QED
  BY <1>1, <1>2, HeldKept DEF CreateStrategy, IInv

LEMMA ReadToEditIInv ==
    ASSUME IInv, NEW h \in Handler, NEW s \in Strategy, ReadToEdit(h, s)
    PROVE  IInv'
<1> DEFINE state == [Idle EXCEPT !.at = "edit", !.strategy = s]
<1>1. state \in HandlerState /\ state.at = "edit" /\ state.strategy # None
  BY IdleType, CopyTradingAssumption DEF Idle, HandlerState, Stage
<1>2. Held(h)'
  BY <1>1 DEF ReadToEdit, Goto, IInv, TypeOK, Held
<1>3. QED
  BY <1>1, <1>2, SameSubscriptions, StepIInv DEF ReadToEdit, IInv, TypeOK

LEMMA HigherBounds ==
    ASSUME NEW k \in Int, NEW m \in Int, NEW n \in Int
    PROVE  LET high == Higher(Higher(k, m), n)
           IN  high \in Int /\ high >= k /\ high >= m /\ high >= n
  BY DEF Higher

\* What an edit writes: the limit and the count of its body, of which the
\* highest so far and the lowest limit are kept.
LEMMA EditedDoc ==
    ASSUME NEW d \in StrategyDoc, NEW limit \in Nat, NEW count \in Int
    PROVE  /\ Edited(d, limit, count) \in StrategyDoc
           /\ Edited(d, limit, count).maxSubscribers = limit
           /\ Edited(d, limit, count).currentSubscribers = count
           /\ Edited(d, limit, count).lowest
                = IF d.lowest <= limit THEN d.lowest ELSE limit
           /\ Edited(d, limit, count).highest >= d.highest
           /\ Edited(d, limit, count).highest >= limit
           /\ count # d.currentSubscribers =>
                  Edited(d, limit, count).highest >= count
<1> DEFINE n == IF count = d.currentSubscribers THEN d.highest ELSE count
           high == Higher(Higher(d.highest, limit), n)
           low == IF d.lowest <= limit THEN d.lowest ELSE limit
<1>1. d.highest \in Int /\ d.lowest \in Nat
  BY DEF StrategyDoc
<1>2. n \in Int /\ (count # d.currentSubscribers => n = count)
  BY <1>1
<1>3. low \in Nat
  BY <1>1
<1>4. Edited(d, limit, count) =
          [d EXCEPT !.maxSubscribers = limit, !.currentSubscribers = count,
                    !.highest = high, !.lowest = low]
  BY Zenon DEF Edited
<1> HIDE DEF n
<1>5. limit \in Int
  OBVIOUS
<1>6. high \in Int /\ high >= d.highest /\ high >= limit /\ high >= n
  BY <1>1, <1>2, <1>5, HigherBounds
<1> HIDE DEF high
<1>7. low = IF d.lowest <= limit THEN d.lowest ELSE limit
  OBVIOUS
<1> HIDE DEF low
<1> DEFINE e == [d EXCEPT !.maxSubscribers = limit, !.currentSubscribers = count,
                          !.highest = high, !.lowest = low]
<1>8. /\ e \in StrategyDoc /\ e.maxSubscribers = limit
      /\ e.currentSubscribers = count /\ e.lowest = low /\ e.highest = high
  BY <1>3, <1>6 DEF StrategyDoc
<1> HIDE DEF e
<1>9. Edited(d, limit, count) = e
  BY <1>4 DEF e
<1>10. count # d.currentSubscribers => high >= count
  BY <1>2, <1>6
<1>11. QED
  BY <1>6, <1>7, <1>8, <1>9, <1>10, Zenon

\* An edit changes at most its strategy, to what its body asks for.
LEMMA EditStep ==
    ASSUME IInv, NEW h \in Handler, Edit(h)
    PROVE  /\ handlers[h].strategy \in Strategy
           /\ \/ UNCHANGED strategies
              \/ \E limit \in Nat, count \in Int :
                    strategies' = [strategies EXCEPT ![handlers[h].strategy] =
                        Edited(strategies[handlers[h].strategy], limit, count)]
<1> DEFINE s == handlers[h].strategy
<1>1. s \in Strategy
  BY DEF Edit, IInv, TypeOK, Held, HandlerState
<1>2. strategies[s].maxSubscribers \in Nat /\ strategies[s].currentSubscribers \in Int
  BY <1>1 DEF IInv, TypeOK, StrategyDoc
<1>3. /\ Limits \cup {strategies[s].maxSubscribers} \subseteq Nat
      /\ GivenCounts \cup {strategies[s].currentSubscribers} \subseteq Int
  BY <1>2, CopyTradingAssumption
<1>4. QED
  BY <1>1, <1>3 DEF Edit

LEMMA EditIInv ==
    ASSUME IInv, NEW h \in Handler, Edit(h) PROVE IInv'
<1>1. strategies' \in [Strategy -> StrategyDoc]
  BY EditStep, EditedDoc DEF IInv, TypeOK
<1>2. QED
  BY <1>1, IdleType, GoIdle, SameSubscriptions, StepIInv DEF Edit

LEMMA ReadToDeleteIInv ==
    ASSUME IInv, NEW h \in Handler, NEW s \in Strategy, ReadToDelete(h, s)
    PROVE  IInv'
<1> DEFINE state == [Idle EXCEPT !.at = "delete", !.strategy = s]
<1>1. state \in HandlerState /\ state.at = "delete" /\ state.strategy # None
  BY IdleType, CopyTradingAssumption DEF Idle, HandlerState, Stage
<1>2. Held(h)'
  BY <1>1 DEF ReadToDelete, Goto, IInv, TypeOK, Held
<1>3. QED
  BY <1>1, <1>2, SameSubscriptions, StepIInv DEF ReadToDelete, IInv, TypeOK

LEMMA DeleteStrategyIInv ==
    ASSUME IInv, NEW h \in Handler, DeleteStrategy(h) PROVE IInv'
<1>1. strategies' \in [Strategy -> StrategyDoc]
  BY DEF DeleteStrategy, IInv, TypeOK, StrategyDoc
<1>2. QED
  BY <1>1, IdleType, GoIdle, SameSubscriptions, StepIInv DEF DeleteStrategy

-----------------------------------------------------------------------------
(* Subscribing                                                             *)

LEMMA ReadStrategyIInv ==
    ASSUME IInv, NEW h \in Handler, NEW f \in Follower, NEW s \in Strategy,
           ReadStrategy(h, f, s)
    PROVE  IInv'
<1> DEFINE state == [Idle EXCEPT !.at = "checkExisting", !.follower = f, !.strategy = s]
<1>1. /\ state \in HandlerState /\ state.at = "checkExisting"
      /\ state.strategy # None /\ state.follower # None
  BY IdleType, CopyTradingAssumption DEF Idle, HandlerState, Stage
<1>2. Held(h)'
  BY <1>1 DEF ReadStrategy, Goto, IInv, TypeOK, Held
<1>3. QED
  BY <1>1, <1>2, SameSubscriptions, StepIInv DEF ReadStrategy, IInv, TypeOK

LEMMA CheckExistingIInv ==
    ASSUME IInv, NEW h \in Handler, CheckExisting(h) PROVE IInv'
<1> DEFINE next == [handlers[h] EXCEPT !.at = "saveNew"]
<1>1. /\ UNCHANGED <<strategies, subscriptions>>
      /\ Goto(h, next) \/ Goto(h, Idle)
  BY DEF CheckExisting
<1>2. CASE Goto(h, next)
  <2>1. /\ next \in HandlerState /\ next.at = "saveNew"
        /\ next.strategy # None /\ next.follower # None
    BY DEF IInv, TypeOK, HandlerState, Stage, CheckExisting, Held
  <2>2. Held(h)'
    BY <1>2, <2>1 DEF Goto, IInv, TypeOK, Held
  <2>3. QED
    BY <1>1, <1>2, <2>1, <2>2, SameSubscriptions, StepIInv DEF IInv, TypeOK
<1>3. CASE Goto(h, Idle)
  BY <1>1, <1>3, IdleType, GoIdle, SameSubscriptions, StepIInv DEF IInv, TypeOK
<1>4. QED
  BY <1>1, <1>2, <1>3

LEMMA SaveNewIInv ==
    ASSUME IInv, NEW h \in Handler, SaveNew(h) PROVE IInv'
<1> DEFINE doc == [followerId |-> handlers[h].follower,
                   strategyId |-> handlers[h].strategy, status |-> "Active",
                   due |-> FALSE, totalFeesPaid |-> 0, periods |-> 0]
           next == [handlers[h] EXCEPT !.at = "readCount"]
<1>1. PICK x \in SubscriptionId \ Stored :
          subscriptions' = [subscriptions EXCEPT ![x] = doc]
  BY DEF SaveNew
<1>2. handlers[h] \in HandlerState /\ Held(h) /\ handlers[h].at = "saveNew"
  BY DEF SaveNew, IInv, TypeOK
<1>3. doc \in SubscriptionDoc /\ doc # None
  <2>1. handlers[h].follower \in Follower /\ handlers[h].strategy \in Strategy
    BY <1>2 DEF HandlerState, Held
  <2>2. doc \in SubscriptionDoc
    BY <2>1 DEF SubscriptionDoc, Status
  <2>3. QED
    BY <2>2, DocNotNone
<1>4. /\ doc.due = FALSE /\ doc.totalFeesPaid = 0 /\ doc.periods = 0
      /\ subscriptions'[x] = doc
      /\ \A y \in Stored : subscriptions'[y] = subscriptions[y]
  BY <1>1 DEF IInv, TypeOK, Stored
<1> HIDE DEF doc
<1>5. Stored' = Stored \cup {x}
  BY <1>1, <1>3 DEF IInv, TypeOK, Stored
<1>6. Grows
  <2>1. \A y \in Stored : subscriptions[y].periods \in Nat
    BY DEF IInv, TypeOK, Stored, SubscriptionDoc
  <2>2. \A y \in Stored : subscriptions'[y].periods >= subscriptions[y].periods
    BY <1>4, <2>1
  <2>3. subscriptions' \in [SubscriptionId -> SubscriptionDoc \cup {None}]
    BY <1>1, <1>3 DEF IInv, TypeOK
  <2>4. QED
    BY <1>5, <2>2, <2>3 DEF Grows
<1>7. NeverOverbilled'
  BY <1>4, <1>5 DEF IInv, NeverOverbilled
<1>8. next \in HandlerState /\ next.at = "readCount" /\ next.strategy # None
  BY <1>2 DEF HandlerState, Stage, Held
<1>9. Goto(h, next) /\ UNCHANGED strategies
  BY DEF SaveNew
<1>10. Held(h)'
  BY <1>8, <1>9 DEF Goto, IInv, TypeOK, Held
<1>11. QED
  BY <1>6, <1>7, <1>8, <1>9, <1>10, StepIInv DEF IInv, TypeOK

LEMMA ReadCountIInv ==
    ASSUME IInv, NEW h \in Handler, ReadCount(h) PROVE IInv'
<1> DEFINE next == [handlers[h] EXCEPT !.at = "increment"]
<1>1. /\ UNCHANGED <<strategies, subscriptions>>
      /\ Goto(h, next) \/ Goto(h, Idle)
  BY DEF ReadCount
<1>2. CASE Goto(h, next)
  <2>1. next \in HandlerState /\ next.at = "increment" /\ next.strategy # None
    BY DEF IInv, TypeOK, HandlerState, Stage, ReadCount, Held
  <2>2. Held(h)'
    BY <1>2, <2>1 DEF Goto, IInv, TypeOK, Held
  <2>3. QED
    BY <1>1, <1>2, <2>1, <2>2, SameSubscriptions, StepIInv DEF IInv, TypeOK
<1>3. CASE Goto(h, Idle)
  BY <1>1, <1>3, IdleType, GoIdle, SameSubscriptions, StepIInv DEF IInv, TypeOK
<1>4. QED
  BY <1>1, <1>2, <1>3

LEMMA IncrementIInv ==
    ASSUME IInv, NEW h \in Handler, Increment(h) PROVE IInv'
<1>1. handlers[h].strategy \in Strategy
  BY DEF Increment, IInv, TypeOK, Held, HandlerState
<1>2. strategies' \in [Strategy -> StrategyDoc]
  BY <1>1, AddType DEF Increment
<1>3. QED
  BY <1>2, IdleType, GoIdle, SameSubscriptions, StepIInv DEF Increment

-----------------------------------------------------------------------------
(* Changing the status                                                     *)

LEMMA ReadToUpdateIInv ==
    ASSUME IInv, NEW h \in Handler, NEW x \in SubscriptionId, NEW status \in Status,
           ReadToUpdate(h, x, status)
    PROVE  IInv'
<1> DEFINE state == [Idle EXCEPT
                  !.at = IF status = "Cancelled" THEN "decrement" ELSE "saveStatus",
                  !.strategy = subscriptions[x].strategyId,
                  !.subscription = x, !.status = status,
                  !.read = [NothingRead EXCEPT ![x] = subscriptions[x]]]
<1>1. x \in Stored /\ Goto(h, state) /\ UNCHANGED <<strategies, subscriptions>>
  BY DEF ReadToUpdate
<1>2. subscriptions[x] \in SubscriptionDoc
  BY <1>1 DEF IInv, TypeOK, Stored
<1>3. [NothingRead EXCEPT ![x] = subscriptions[x]]
          \in [SubscriptionId -> SubscriptionDoc \cup {None}]
  BY <1>2 DEF NothingRead
<1>4. subscriptions[x].strategyId \in Strategy /\ subscriptions[x].strategyId # None
  BY <1>2, CopyTradingAssumption DEF SubscriptionDoc
<1>5. /\ state \in HandlerState /\ state.at \in {"decrement", "saveStatus"}
      /\ state.strategy # None /\ state.subscription = x /\ state.status # None
  BY <1>3, <1>4, IdleType, CopyTradingAssumption DEF Idle, HandlerState, Stage
<1>6. Stored' = Stored
  BY <1>1 DEF Stored
<1> HIDE DEF state
<1>7. Held(h)'
  BY <1>1, <1>5, <1>6 DEF Goto, IInv, TypeOK, Held
<1>8. QED
  BY <1>1, <1>5, <1>7, SameSubscriptions, StepIInv DEF IInv, TypeOK

LEMMA DecrementIInv ==
    ASSUME IInv, NEW h \in Handler, Decrement(h) PROVE IInv'
<1> DEFINE next == [handlers[h] EXCEPT !.at = "saveStatus"]
<1>1. handlers[h] \in HandlerState /\ Held(h) /\ handlers[h].at = "decrement"
  BY DEF Decrement, IInv, TypeOK
<1>2. strategies' \in [Strategy -> StrategyDoc]
  BY <1>1, AddType DEF Decrement, HandlerState, Held
<1>3. /\ next \in HandlerState /\ next.at = "saveStatus"
      /\ next.subscription \in Stored /\ next.status # None
  BY <1>1 DEF HandlerState, Stage, Held
<1>4. Stored' = Stored
  BY DEF Decrement, Stored
<1>5. Held(h)'
  BY <1>3, <1>4 DEF Decrement, Goto, IInv, TypeOK, Held
<1>6. QED
  BY <1>2, <1>3, <1>5, SameSubscriptions, StepIInv DEF Decrement

LEMMA SaveStatusIInv ==
    ASSUME IInv, NEW h \in Handler, SaveStatus(h) PROVE IInv'
<1> DEFINE x == handlers[h].subscription
           doc == [subscriptions[x] EXCEPT !.status =
                      IF handlers[h].status # handlers[h].read[x].status
                      THEN handlers[h].status ELSE @]
<1>1. /\ handlers[h] \in HandlerState /\ Held(h) /\ handlers[h].at = "saveStatus"
      /\ subscriptions \in [SubscriptionId -> SubscriptionDoc \cup {None}]
      /\ UNCHANGED strategies /\ Goto(h, Idle)
  BY DEF SaveStatus, IInv, TypeOK
<1>2. /\ x \in Stored /\ x \in SubscriptionId /\ handlers[h].status \in Status
      /\ subscriptions[x] \in SubscriptionDoc
  BY <1>1 DEF Held, HandlerState, Stored
<1>3. subscriptions' = [subscriptions EXCEPT ![x] = doc]
  BY <1>1, <1>2 DEF SaveStatus, SubscriptionDoc
<1>4. /\ doc \in SubscriptionDoc /\ doc.periods = subscriptions[x].periods
      /\ doc.due = subscriptions[x].due
      /\ doc.totalFeesPaid = subscriptions[x].totalFeesPaid
  <2>1. ASSUME NEW d \in SubscriptionDoc, NEW status \in Status
        PROVE  LET e == [d EXCEPT !.status = status]
               IN  /\ e \in SubscriptionDoc /\ e.periods = d.periods
                   /\ e.due = d.due /\ e.totalFeesPaid = d.totalFeesPaid
    BY DEF SubscriptionDoc
  <2>2. subscriptions[x].status \in Status
    BY <1>2 DEF SubscriptionDoc
  <2>3. QED
    BY <1>2, <2>1, <2>2
<1>5. doc # None
  BY <1>4, DocNotNone
<1> HIDE DEF doc
<1>6. Stored' = Stored
  BY <1>1, <1>2, <1>3, <1>5 DEF Stored
<1>7. Grows
  <2>1. \A y \in Stored : subscriptions[y].periods \in Nat
    BY <1>1 DEF Stored, SubscriptionDoc
  <2>2. \A y \in Stored : subscriptions'[y].periods >= subscriptions[y].periods
    BY <1>1, <1>3, <1>4, <2>1 DEF Stored
  <2>3. subscriptions' \in [SubscriptionId -> SubscriptionDoc \cup {None}]
    BY <1>1, <1>3, <1>4
  <2>4. QED
    BY <1>6, <2>2, <2>3 DEF Grows
<1>8. NeverOverbilled'
  BY <1>1, <1>2, <1>3, <1>4, <1>6 DEF NeverOverbilled, IInv, Stored
<1>9. QED
  BY <1>1, <1>7, <1>8, IdleType, GoIdle, StepIInv DEF IInv, TypeOK

-----------------------------------------------------------------------------
(* Billing                                                                 *)

LEMMA PeriodEndsIInv ==
    ASSUME IInv, NEW x \in SubscriptionId, PeriodEnds(x) PROVE IInv'
<1> DEFINE doc == [subscriptions[x] EXCEPT !.due = TRUE, !.periods = @ + 1]
<1>1. /\ x \in Stored /\ ~subscriptions[x].due /\ subscriptions[x] \in SubscriptionDoc
      /\ subscriptions \in [SubscriptionId -> SubscriptionDoc \cup {None}]
      /\ UNCHANGED <<strategies, handlers>>
  BY DEF PeriodEnds, IInv, TypeOK, Stored
<1>2. subscriptions' = [subscriptions EXCEPT ![x] = doc]
  BY <1>1 DEF PeriodEnds, SubscriptionDoc
<1>3. /\ doc \in SubscriptionDoc /\ doc.periods = subscriptions[x].periods + 1
      /\ doc.due = TRUE /\ doc.totalFeesPaid = subscriptions[x].totalFeesPaid
  <2>1. subscriptions[x].periods + 1 \in Nat
    BY <1>1 DEF SubscriptionDoc
  <2>2. ASSUME NEW d \in SubscriptionDoc, NEW k \in Nat
        PROVE  LET e == [d EXCEPT !.due = TRUE, !.periods = k]
               IN  /\ e \in SubscriptionDoc /\ e.periods = k
                   /\ e.due = TRUE /\ e.totalFeesPaid = d.totalFeesPaid
    BY DEF SubscriptionDoc
  <2>3. QED
    BY <1>1, <2>1, <2>2
<1>4. doc # None
  BY <1>3, DocNotNone
<1> HIDE DEF doc
<1>5. Stored' = Stored
  BY <1>1, <1>2, <1>4 DEF Stored
<1>6. Grows
  BY <1>1, <1>2, <1>3, <1>5 DEF Grows, Stored, SubscriptionDoc
<1>7. NeverOverbilled'
  BY <1>1, <1>2, <1>3, <1>5 DEF NeverOverbilled, IInv, Stored, SubscriptionDoc
<1>8. QED
  BY <1>1, <1>6, <1>7, HeldKept DEF IInv, TypeOK, Grows

LEMMA ReadDueIInv ==
    ASSUME IInv, NEW h \in Handler, ReadDue(h) PROVE IInv'
<1> DEFINE due == {x \in Active : subscriptions[x].due}
           docs == [x \in SubscriptionId |->
                      IF x \in due THEN subscriptions[x] ELSE None]
           state == [Idle EXCEPT !.at = "readFee", !.todo = due, !.read = docs]
<1>1. Goto(h, state) /\ UNCHANGED <<strategies, subscriptions>>
  BY DEF ReadDue
<1>2. \A x \in due : /\ x \in Stored /\ x \in SubscriptionId
                     /\ subscriptions[x] \in SubscriptionDoc
                     /\ subscriptions[x] # None /\ subscriptions[x].due
  BY DEF Active, Stored, IInv, TypeOK
<1>3. docs \in [SubscriptionId -> SubscriptionDoc \cup {None}]
  BY <1>2
<1>4. /\ state \in HandlerState /\ state.at = "readFee"
      /\ state.todo = due /\ state.read = docs
  BY <1>2, <1>3, IdleType DEF Idle, HandlerState, Stage
<1>5. \A x \in due : RoomForFee(docs[x], x)
  BY <1>2 DEF RoomForFee, IInv, NeverOverbilled, SubscriptionDoc
<1>6. \A x, d : RoomForFee(d, x)' <=> RoomForFee(d, x)
  BY <1>1 DEF RoomForFee, Stored
<1>7. handlers'[h] = state
  BY <1>1 DEF Goto, IInv, TypeOK
<1> HIDE DEF due, docs, state
<1>8. Held(h)'
  BY <1>4, <1>5, <1>6, <1>7 DEF Held
<1>9. QED
  BY <1>1, <1>4, <1>8, SameSubscriptions, StepIInv DEF IInv, TypeOK

LEMMA ReadFeeIInv ==
    ASSUME IInv, NEW h \in Handler, ReadFee(h) PROVE IInv'
<1>1. /\ handlers[h] \in HandlerState /\ Held(h) /\ handlers[h].at = "readFee"
      /\ UNCHANGED <<strategies, subscriptions>>
  BY DEF ReadFee, IInv, TypeOK
<1>2. PICK x \in handlers[h].todo :
          \/ Goto(h, [handlers[h] EXCEPT !.at = "saveFee", !.subscription = x,
                                         !.todo = @ \ {x}])
          \/ Goto(h, Idle)
  BY DEF ReadFee
<1> DEFINE next == [handlers[h] EXCEPT !.at = "saveFee", !.subscription = x,
                                       !.todo = @ \ {x}]
<1>3. CASE Goto(h, next)
  <2>1. /\ next \in HandlerState /\ next.at = "saveFee" /\ next.subscription = x
        /\ next.todo = handlers[h].todo \ {x} /\ next.read = handlers[h].read
        /\ x # None
    BY <1>1, CopyTradingAssumption DEF HandlerState, Stage
  <2>2. \A y, d : RoomForFee(d, y)' <=> RoomForFee(d, y)
    BY <1>1 DEF RoomForFee, Stored
  <2>3. \A y \in handlers[h].todo : RoomForFee(handlers[h].read[y], y)
    BY <1>1 DEF Held
  <2>4. handlers'[h] = next
    BY <1>3 DEF Goto, IInv, TypeOK
  <2> HIDE DEF next
  <2>5. Held(h)'
    BY <2>1, <2>2, <2>3, <2>4 DEF Held
  <2>6. QED
    BY <1>1, <1>3, <2>1, <2>5, SameSubscriptions, StepIInv DEF IInv, TypeOK
<1>4. CASE Goto(h, Idle)
  BY <1>1, <1>4, IdleType, GoIdle, SameSubscriptions, StepIInv DEF IInv, TypeOK
<1>5. QED
  BY <1>2, <1>3, <1>4

LEMMA SaveFeeIInv ==
    ASSUME IInv, NEW h \in Handler, SaveFee(h) PROVE IInv'
<1> DEFINE x == handlers[h].subscription
           total == handlers[h].read[x].totalFeesPaid
           doc == [subscriptions[x] EXCEPT !.due = FALSE, !.totalFeesPaid = total + 1]
           next == IF handlers[h].todo = {} THEN Idle
                   ELSE [handlers[h] EXCEPT !.at = "readFee", !.subscription = None]
<1>1. /\ handlers[h] \in HandlerState /\ Held(h) /\ handlers[h].at = "saveFee"
      /\ subscriptions \in [SubscriptionId -> SubscriptionDoc \cup {None}]
      /\ UNCHANGED strategies /\ Goto(h, next)
  BY DEF SaveFee, IInv, TypeOK
<1>2. /\ x \in Stored /\ x \in SubscriptionId /\ subscriptions[x] \in SubscriptionDoc
      /\ handlers[h].read[x] \in SubscriptionDoc
      /\ total + 1 <= subscriptions[x].periods
  BY <1>1 DEF Held, RoomForFee, HandlerState, Stored
<1>3. subscriptions' = [subscriptions EXCEPT ![x] = doc]
  BY <1>1, <1>2 DEF SaveFee, SubscriptionDoc
<1>4. total \in Nat
  BY <1>2 DEF SubscriptionDoc
<1>5. /\ doc \in SubscriptionDoc /\ doc.periods = subscriptions[x].periods
      /\ doc.due = FALSE /\ doc.totalFeesPaid = total + 1
  <2>1. total + 1 \in Nat
    BY <1>4
  <2>2. ASSUME NEW d \in SubscriptionDoc, NEW k \in Nat
        PROVE  LET e == [d EXCEPT !.due = FALSE, !.totalFeesPaid = k]
               IN  /\ e \in SubscriptionDoc /\ e.periods = d.periods
                   /\ e.due = FALSE /\ e.totalFeesPaid = k
    BY DEF SubscriptionDoc
  <2>3. QED
    BY <1>2, <2>1, <2>2
<1>6. doc # None
  BY <1>5, DocNotNone
<1> HIDE DEF doc
<1>7. Stored' = Stored
  BY <1>1, <1>2, <1>3, <1>6 DEF Stored
<1>8. Grows
  <2>1. \A y \in Stored : subscriptions[y].periods \in Nat
    BY <1>1 DEF Stored, SubscriptionDoc
  <2>2. \A y \in Stored : subscriptions'[y].periods >= subscriptions[y].periods
    BY <1>1, <1>3, <1>5, <2>1 DEF Stored
  <2>3. subscriptions' \in [SubscriptionId -> SubscriptionDoc \cup {None}]
    BY <1>1, <1>3, <1>5
  <2>4. QED
    BY <1>7, <2>2, <2>3 DEF Grows
<1>9. NeverOverbilled'
  BY <1>1, <1>2, <1>3, <1>4, <1>5, <1>7
     DEF NeverOverbilled, IInv, Stored, SubscriptionDoc
<1>10. next \in HandlerState
  BY <1>1, IdleType DEF HandlerState, Stage
<1>11. Held(h)'
  <2>1. handlers'[h] = next
    BY <1>1 DEF Goto, IInv, TypeOK
  <2>2. CASE handlers[h].todo = {}
    BY <1>1, <2>2, GoIdle
  <2>3. CASE handlers[h].todo # {}
    <3>1. /\ handlers'[h].at = "readFee" /\ handlers'[h].todo = handlers[h].todo
          /\ handlers'[h].read = handlers[h].read
      BY <1>1, <2>1, <2>3 DEF HandlerState
    <3>2. \A y \in handlers[h].todo : RoomForFee(handlers[h].read[y], y)
      BY <1>1 DEF Held
    <3>3. \A y \in Stored : subscriptions'[y].periods = subscriptions[y].periods
      BY <1>1, <1>2, <1>3, <1>5 DEF Stored
    <3>4. \A y \in handlers[h].todo : RoomForFee(handlers[h].read[y], y)'
      BY <3>1, <3>2, <3>3, <1>7 DEF RoomForFee
    <3>5. QED
      BY <3>1, <3>4 DEF Held
  <2>4. QED
    BY <2>2, <2>3
<1>12. QED
  BY <1>1, <1>8, <1>9, <1>10, <1>11, StepIInv DEF IInv, TypeOK

LEMMA AbortIInv ==
    ASSUME IInv, NEW h \in Handler, Abort(h) PROVE IInv'
  BY IdleType, GoIdle, SameSubscriptions, StepIInv DEF Abort, IInv, TypeOK

-----------------------------------------------------------------------------
LEMMA NextIInv == IInv /\ [Next]_vars => IInv'
<1> SUFFICES ASSUME IInv, [Next]_vars PROVE IInv'
  OBVIOUS
<1>1. ASSUME NEW s \in Strategy, CreateStrategy(s) PROVE IInv'
  BY <1>1, CreateStrategyIInv
<1>2. ASSUME NEW x \in SubscriptionId, PeriodEnds(x) PROVE IInv'
  BY <1>2, PeriodEndsIInv
<1>3. ASSUME NEW h \in Handler, Request(h) PROVE IInv'
  BY <1>3, ReadToEditIInv, ReadToDeleteIInv, ReadStrategyIInv, ReadToUpdateIInv,
     ReadDueIInv DEF Request
<1>4. ASSUME NEW h \in Handler, Continue(h) PROVE IInv'
  BY <1>4, EditIInv, DeleteStrategyIInv, CheckExistingIInv, SaveNewIInv, ReadCountIInv,
     IncrementIInv, DecrementIInv, SaveStatusIInv, ReadFeeIInv, SaveFeeIInv
     DEF Continue
<1>5. ASSUME NEW h \in Handler, Abort(h) PROVE IInv'
  BY <1>5, AbortIInv
<1>6. CASE UNCHANGED vars
  BY <1>6, SameSubscriptions, HeldKept DEF vars, IInv, TypeOK
<1>7. QED
  BY <1>1, <1>2, <1>3, <1>4, <1>5, <1>6 DEF Next, FaultFreeNext

LEMMA Invariance == Spec => []IInv
  BY InitIInv, NextIInv, PTL DEF Spec

\* Documents and handlers keep their types whatever overlaps and whatever
\* fails: no status but the three of updateStatus is ever written.
THEOREM TypeCorrect == Spec => []TypeOK
  BY Invariance, PTL DEF IInv

\* Overlapping billing jobs (processSubscriptionFees) never charge a
\* subscription more fees than periods have passed.
THEOREM NotOverbilled == Spec => []NeverOverbilled
  BY Invariance, PTL DEF IInv

-----------------------------------------------------------------------------
(* The status of a subscription                                            *)

Requested(x) ==
    \E h \in Handler : /\ handlers[h].at = "saveStatus"
                       /\ handlers[h].subscription = x
                       /\ handlers[h].status = subscriptions'[x].status

StatusKept == \A x \in Stored :
    subscriptions'[x].status # subscriptions[x].status => Requested(x)

LEMMA NextStatus == IInv /\ [Next]_vars => StatusKept
<1> SUFFICES ASSUME IInv, [Next]_vars, UNCHANGED subscriptions => FALSE
             PROVE  StatusKept
  BY DEF StatusKept
<1>1. /\ subscriptions \in [SubscriptionId -> SubscriptionDoc \cup {None}]
      /\ \A x \in Stored : subscriptions[x] \in SubscriptionDoc
  BY DEF IInv, TypeOK, Stored
<1>2. ASSUME NEW x \in SubscriptionId, PeriodEnds(x) PROVE StatusKept
  BY <1>1, <1>2 DEF PeriodEnds, StatusKept, Stored, SubscriptionDoc
<1>3. ASSUME NEW h \in Handler, SaveNew(h) PROVE StatusKept
  BY <1>1, <1>3 DEF SaveNew, StatusKept, Stored
<1>4. ASSUME NEW h \in Handler, SaveStatus(h) PROVE StatusKept
  BY <1>1, <1>4 DEF SaveStatus, StatusKept, Requested, Stored, SubscriptionDoc
<1>5. ASSUME NEW h \in Handler, SaveFee(h) PROVE StatusKept
  BY <1>1, <1>5 DEF SaveFee, StatusKept, Stored, SubscriptionDoc
<1>6. QED
  BY <1>2, <1>3, <1>4, <1>5
     DEF Next, FaultFreeNext, Request, Continue, vars, CreateStrategy, ReadToEdit,
         Edit, ReadToDelete, DeleteStrategy, ReadStrategy, CheckExisting, ReadCount, Increment,
         ReadToUpdate, Decrement, ReadDue, ReadFee, Abort

\* Whatever overlaps, the status of a subscription changes only to what a
\* request in progress asked for (updateStatus); the billing job, which saves
\* documents it read long ago, never brings an old status back.
THEOREM StatusRequested == Spec => StatusAsRequested
<1>1. IInv /\ [Next]_vars => [StatusKept]_vars
  BY NextStatus
<1>2. QED
  BY <1>1, Invariance, PTL DEF Spec, StatusAsRequested, StatusKept, Requested

-----------------------------------------------------------------------------
(* The count of subscribers.  A request that has read the count and is to  *)
(* increment it holds a place.  Counting these places, the highest limit a *)
(* strategy had, or count it was given, is exceeded by at most the other   *)
(* requests that may have read the same count; an edit holds no place.     *)

Incrementing(s) ==
    {h \in Handler : handlers[h].at = "increment" /\ handlers[h].strategy = s}

\* d, with n requests that are to increment its count.
Counted(d, n) ==
    d.lowest > 0 =>
        /\ d.maxSubscribers > 0
        /\ d.maxSubscribers <= d.highest
        /\ d.currentSubscribers + n <= d.highest + Cardinality(Handler) - 1

CountInv ==
    \A s \in Strategy : Counted(strategies[s], Cardinality(Incrementing(s)))

\* A step that leaves the limits of a strategy alone and does not raise its count.
NoMore(s) ==
    /\ strategies'[s].currentSubscribers \in Int
    /\ strategies'[s].currentSubscribers <= strategies[s].currentSubscribers
    /\ strategies'[s].maxSubscribers = strategies[s].maxSubscribers
    /\ strategies'[s].highest = strategies[s].highest
    /\ strategies'[s].lowest = strategies[s].lowest

\* Handlers, and those of them in some stage, are finitely many.
LEMMA HandlersFinite ==
    /\ IsFiniteSet(Handler) /\ Cardinality(Handler) \in Nat
    /\ \A S \in SUBSET Handler : /\ IsFiniteSet(S) /\ Cardinality(S) \in Nat
                                 /\ Cardinality(S) <= Cardinality(Handler)
<1>1. IsFiniteSet(Handler)
  BY CopyTradingAssumption
<1>2. \A S \in SUBSET Handler : /\ IsFiniteSet(S)
                                /\ Cardinality(S) <= Cardinality(Handler)
  BY <1>1, FS_Subset
<1>3. \A S : IsFiniteSet(S) => Cardinality(S) \in Nat
  BY FS_CardinalityType
<1>4. QED
  BY <1>1, <1>2, <1>3

\* Limits and counts are numbers.
LEMMA CountsInt ==
    ASSUME IInv
    PROVE  \A s \in Strategy : /\ strategies[s] \in StrategyDoc
                               /\ strategies[s].currentSubscribers \in Int
                               /\ strategies[s].maxSubscribers \in Nat
                               /\ strategies[s].highest \in Int
                               /\ strategies[s].lowest \in Nat
  BY DEF IInv, TypeOK, StrategyDoc

LEMMA SameStrategies ==
    ASSUME IInv, UNCHANGED strategies PROVE \A s \in Strategy : NoMore(s)
<1>1. \A n \in Int : n <= n
  OBVIOUS
<1>2. QED
  BY <1>1, CountsInt DEF NoMore

\* Add changes the count it names, if at all.
LEMMA AddCounts ==
    ASSUME IInv, NEW s0 \in Strategy, NEW n \in Int, Add(s0, n), NEW s \in Strategy
    PROVE  /\ strategies'[s].maxSubscribers = strategies[s].maxSubscribers
           /\ strategies'[s].highest = strategies[s].highest
           /\ strategies'[s].lowest = strategies[s].lowest
           /\ \/ strategies'[s].currentSubscribers
                    = strategies[s].currentSubscribers
              \/ /\ s = s0
                 /\ strategies'[s].currentSubscribers
                        = strategies[s].currentSubscribers + n
<1>1. strategies \in [Strategy -> StrategyDoc]
  BY DEF IInv, TypeOK
<1>2. ASSUME NEW d \in StrategyDoc, NEW k
      PROVE  LET e == [d EXCEPT !.currentSubscribers = k]
             IN  /\ e.currentSubscribers = k /\ e.lowest = d.lowest
                 /\ e.maxSubscribers = d.maxSubscribers /\ e.highest = d.highest
  BY DEF StrategyDoc
<1>3. CASE Exists(s0)
  <2>1. strategies' = [strategies EXCEPT ![s0] =
            [strategies[s0] EXCEPT !.currentSubscribers =
                strategies[s0].currentSubscribers + n]]
    BY <1>1, <1>3 DEF Add
  <2>2. QED
    BY <1>1, <1>2, <2>1
<1>4. CASE ~Exists(s0)
  BY <1>4 DEF Add
<1>5. QED
  BY <1>3, <1>4

LEMMA InitCount == Init => CountInv
<1> SUFFICES ASSUME Init, NEW s \in Strategy
             PROVE  Counted(strategies[s], Cardinality(Incrementing(s)))
  BY DEF CountInv
<1>1. strategies[s].lowest = 0
  BY DEF Init
<1>2. QED
  BY <1>1 DEF Counted

\* A request that does not come to increment, and no count that grows.
LEMMA QuietCount ==
    ASSUME IInv, CountInv, NEW h \in Handler, NEW state, Goto(h, state),
           state.at # "increment", \A s \in Strategy : NoMore(s)
    PROVE  CountInv'
<1> SUFFICES ASSUME NEW s \in Strategy
             PROVE  Counted(strategies'[s], Cardinality(Incrementing(s)'))
  BY DEF CountInv
<1>1. Incrementing(s)' \in SUBSET Incrementing(s) /\ Incrementing(s) \in SUBSET Handler
  BY DEF Goto, IInv, TypeOK, Incrementing
<1>2. /\ Cardinality(Incrementing(s)') <= Cardinality(Incrementing(s))
      /\ Cardinality(Incrementing(s)') \in Nat /\ Cardinality(Incrementing(s)) \in Nat
  BY <1>1, FS_Subset, HandlersFinite
<1>3. Counted(strategies[s], Cardinality(Incrementing(s))) /\ NoMore(s)
  BY DEF CountInv
<1>4. QED
  BY <1>2, <1>3, CountsInt, HandlersFinite DEF Counted, NoMore

\* A new strategy has no subscribers.
LEMMA CreateStrategyCount ==
    ASSUME IInv, CountInv, NEW s0 \in Strategy, CreateStrategy(s0) PROVE CountInv'
<1> SUFFICES ASSUME NEW s \in Strategy
             PROVE  Counted(strategies'[s], Cardinality(Incrementing(s)'))
  BY DEF CountInv
<1>1. Incrementing(s)' = Incrementing(s) /\ Incrementing(s) \in SUBSET Handler
  BY DEF CreateStrategy, Incrementing
<1>2. PICK limit \in Limits : strategies' = [strategies EXCEPT ![s0] =
          [exists |-> "yes", currentSubscribers |-> 0, maxSubscribers |-> limit,
           highest |-> limit, lowest |-> limit]]
  BY DEF CreateStrategy
<1>3. limit \in Nat
  BY CopyTradingAssumption
<1>4. CASE s = s0
  BY <1>1, <1>2, <1>3, <1>4, HandlersFinite DEF IInv, TypeOK, Counted
<1>5. CASE s # s0
  BY <1>1, <1>2, <1>5 DEF IInv, TypeOK, CountInv
<1>6. QED
  BY <1>4, <1>5

\* An edit may give any limit and any count: the highest follows, and the
\* request that edits is not among those that increment.
LEMMA EditCount ==
    ASSUME IInv, CountInv, NEW h \in Handler, Edit(h) PROVE CountInv'
<1> DEFINE s0 == handlers[h].strategy
<1>1. Goto(h, Idle) /\ Idle.at # "increment" /\ handlers[h].at = "edit"
  BY DEF Edit, Idle
<1>2. CASE UNCHANGED strategies
  BY <1>1, <1>2, SameStrategies, QuietCount
<1>3. ASSUME NEW limit \in Nat, NEW count \in Int,
             strategies' = [strategies EXCEPT ![s0] =
                               Edited(strategies[s0], limit, count)]
      PROVE  CountInv'
  <2> SUFFICES ASSUME NEW s \in Strategy
               PROVE  Counted(strategies'[s], Cardinality(Incrementing(s)'))
    BY DEF CountInv
  <2>1. /\ Incrementing(s)' = Incrementing(s)
        /\ Incrementing(s) \in SUBSET (Handler \ {h})
    BY <1>1 DEF Goto, IInv, TypeOK, Incrementing
  <2>2. /\ Cardinality(Incrementing(s)) \in Nat
        /\ Cardinality(Incrementing(s)) <= Cardinality(Handler) - 1
    <3>1. /\ IsFiniteSet(Handler \ {h})
          /\ Cardinality(Handler \ {h}) = Cardinality(Handler) - 1
      BY HandlersFinite, FS_RemoveElement
    <3>2. QED
      BY <2>1, <3>1, FS_Subset, HandlersFinite
  <2>3. Counted(strategies[s], Cardinality(Incrementing(s))) /\ strategies[s] \in StrategyDoc
    BY CountsInt DEF CountInv
  <2>4. CASE s = s0
    <3> DEFINE d == strategies[s]
               e == Edited(d, limit, count)
    <3>1. strategies'[s] = e
      BY <1>3, <2>4, EditStep DEF IInv, TypeOK
    <3>2. /\ e.maxSubscribers = limit /\ e.currentSubscribers = count
          /\ e.lowest = IF d.lowest <= limit THEN d.lowest ELSE limit
          /\ e \in StrategyDoc
          /\ e.highest >= d.highest /\ e.highest >= limit
          /\ count # d.currentSubscribers => e.highest >= count
      BY <2>3, EditedDoc
    <3> HIDE DEF e
    <3>3. /\ d.highest \in Int /\ d.currentSubscribers \in Int /\ d.lowest \in Nat
          /\ e.highest \in Int
      BY <2>3, <3>2 DEF StrategyDoc
    <3>4. QED
      BY <2>1, <2>2, <2>3, <3>1, <3>2, <3>3, HandlersFinite DEF Counted
  <2>5. CASE s # s0
    BY <1>3, <2>1, <2>3, <2>5 DEF IInv, TypeOK
  <2>6. QED
    BY <2>4, <2>5
<1>4. QED
  BY <1>2, <1>3, EditStep

LEMMA ReadCountCount ==
    ASSUME IInv, CountInv, NEW h \in Handler, ReadCount(h) PROVE CountInv'
<1> DEFINE s0 == handlers[h].strategy
           max == strategies[s0].maxSubscribers
<1>1. handlers[h] \in HandlerState /\ handlers[h].at = "readCount" /\ UNCHANGED strategies
  BY DEF ReadCount, IInv, TypeOK
<1>2. CASE Goto(h, Idle)
  BY <1>1, <1>2, SameStrategies, QuietCount DEF Idle
<1>3. CASE /\ Goto(h, [handlers[h] EXCEPT !.at = "increment"])
           /\ ~(max > 0 /\ strategies[s0].currentSubscribers >= max)
  <2> SUFFICES ASSUME NEW s \in Strategy
               PROVE  Counted(strategies'[s], Cardinality(Incrementing(s)'))
    BY DEF CountInv
  <2>1. Counted(strategies[s], Cardinality(Incrementing(s)))
    BY DEF CountInv
  <2>2. CASE s = s0
    <3>1. Incrementing(s)' \in SUBSET Handler
      BY DEF Incrementing
    <3>2. strategies[s].lowest > 0 => strategies[s].currentSubscribers < max
      BY <1>3, <2>1, <2>2, CountsInt DEF Counted
    <3>3. QED
      BY <1>1, <2>1, <2>2, <3>1, <3>2, CountsInt, HandlersFinite DEF Counted
  <2>3. CASE s # s0
    <3>1. Incrementing(s)' = Incrementing(s)
      BY <1>1, <1>3, <2>3 DEF Goto, IInv, TypeOK, HandlerState, Incrementing
    <3>2. QED
      BY <1>1, <2>1, <3>1
  <2>4. QED
    BY <2>2, <2>3
<1>4. QED
  BY <1>2, <1>3 DEF ReadCount

LEMMA IncrementCount ==
    ASSUME IInv, CountInv, NEW h \in Handler, Increment(h) PROVE CountInv'
<1> SUFFICES ASSUME NEW s \in Strategy
             PROVE  Counted(strategies'[s], Cardinality(Incrementing(s)'))
  BY DEF CountInv
<1> DEFINE s0 == handlers[h].strategy
<1>1. /\ handlers[h] \in HandlerState /\ handlers[h].at = "increment"
      /\ handlers' = [handlers EXCEPT ![h] = Idle]
      /\ handlers \in [Handler -> HandlerState]
  BY DEF Increment, Goto, IInv, TypeOK
<1>2. /\ Incrementing(s) \in SUBSET Handler
      /\ Incrementing(s)' = Incrementing(s) \ {h}
      /\ s = s0 <=> h \in Incrementing(s)
  BY <1>1 DEF Incrementing, Idle
<1>3. /\ IsFiniteSet(Incrementing(s)) /\ Cardinality(Incrementing(s)) \in Nat
      /\ Cardinality(Incrementing(s)') =
            IF s = s0 THEN Cardinality(Incrementing(s)) - 1
            ELSE Cardinality(Incrementing(s))
  BY <1>2, FS_RemoveElement, HandlersFinite
<1>4. /\ strategies'[s].maxSubscribers = strategies[s].maxSubscribers
      /\ strategies'[s].highest = strategies[s].highest
      /\ strategies'[s].lowest = strategies[s].lowest
      /\ \/ strategies'[s].currentSubscribers = strategies[s].currentSubscribers
         \/ /\ s = s0
            /\ strategies'[s].currentSubscribers
                  = strategies[s].currentSubscribers + 1
  <2>1. Add(s0, 1) /\ s0 \in Strategy /\ 1 \in Int
    BY <1>1 DEF Increment, IInv, Held, HandlerState
  <2>2. QED
    BY <2>1, AddCounts
<1>5. Counted(strategies[s], Cardinality(Incrementing(s)))
  BY DEF CountInv
<1>6. QED
  BY <1>3, <1>4, <1>5, CountsInt, HandlersFinite DEF Counted

LEMMA DecrementCount ==
    ASSUME IInv, CountInv, NEW h \in Handler, Decrement(h) PROVE CountInv'
<1>1. /\ handlers[h] \in HandlerState /\ Add(handlers[h].strategy, -1)
      /\ Goto(h, [handlers[h] EXCEPT !.at = "saveStatus"])
      /\ strategies \in [Strategy -> StrategyDoc]
  BY DEF Decrement, IInv, TypeOK
<1>2. ASSUME NEW s \in Strategy PROVE NoMore(s)
  <2>1. handlers[h].strategy \in Strategy /\ -1 \in Int
    BY <1>1 DEF Decrement, IInv, Held, HandlerState
  <2>2. \A n \in Int : n <= n /\ n + (-1) <= n /\ n + (-1) \in Int
    OBVIOUS
  <2>3. QED
    BY <1>1, <2>1, <2>2, AddCounts, CountsInt DEF NoMore
<1>3. [handlers[h] EXCEPT !.at = "saveStatus"].at # "increment"
  BY <1>1 DEF HandlerState
<1>4. QED
  BY <1>1, <1>2, <1>3, QuietCount

\* No other step changes a count or brings a request to the increment.
LEMMA NextCount == IInv /\ CountInv /\ [Next]_vars => CountInv'
<1> SUFFICES ASSUME IInv, CountInv, [Next]_vars PROVE CountInv'
  OBVIOUS
<1>1. /\ strategies \in [Strategy -> StrategyDoc]
      /\ handlers \in [Handler -> HandlerState]
  BY DEF IInv, TypeOK
<1>2. ASSUME UNCHANGED <<strategies, handlers>> PROVE CountInv'
  BY <1>2 DEF CountInv, Incrementing
<1>3. ASSUME NEW x \in SubscriptionId, PeriodEnds(x) PROVE CountInv'
  BY <1>2, <1>3 DEF PeriodEnds
<1>4. ASSUME NEW h \in Handler, NEW state, Goto(h, state), state.at # "increment",
             UNCHANGED strategies
      PROVE  CountInv'
  BY <1>4, SameStrategies, QuietCount
<1>5. ASSUME NEW h \in Handler, Request(h) PROVE CountInv'
  <2>1. ASSUME NEW s \in Strategy, ReadToDelete(h, s) PROVE CountInv'
    <3>1. [Idle EXCEPT !.at = "delete", !.strategy = s].at # "increment"
      BY DEF Idle
    <3>2. QED
      BY <1>4, <2>1, <3>1 DEF ReadToDelete
  <2>2. ASSUME NEW s \in Strategy, ReadToEdit(h, s) PROVE CountInv'
    <3>1. [Idle EXCEPT !.at = "edit", !.strategy = s].at # "increment"
      BY DEF Idle
    <3>2. QED
      BY <1>4, <2>2, <3>1 DEF ReadToEdit
  <2>3. ASSUME NEW f \in Follower, NEW s \in Strategy, ReadStrategy(h, f, s)
        PROVE  CountInv'
    <3>1. [Idle EXCEPT !.at = "checkExisting", !.follower = f,
                       !.strategy = s].at # "increment"
      BY DEF Idle
    <3>2. QED
      BY <1>4, <2>3, <3>1 DEF ReadStrategy
  <2>4. ASSUME NEW x \in SubscriptionId, NEW status \in Status,
               ReadToUpdate(h, x, status)
        PROVE  CountInv'
    <3> DEFINE state == [Idle EXCEPT
                !.at = IF status = "Cancelled" THEN "decrement" ELSE "saveStatus",
                !.strategy = subscriptions[x].strategyId,
                !.subscription = x, !.status = status,
                !.read = [NothingRead EXCEPT ![x] = subscriptions[x]]]
    <3>1. Goto(h, state) /\ UNCHANGED strategies
      BY <2>4 DEF ReadToUpdate
    <3>2. state.at # "increment"
      BY DEF Idle
    <3>3. QED
      BY <1>4, <3>1, <3>2
  <2>5. CASE ReadDue(h)
    <3> DEFINE due == {x \in Active : subscriptions[x].due}
               state == [Idle EXCEPT
                      !.at = "readFee", !.todo = due,
                      !.read = [x \in SubscriptionId |->
                                  IF x \in due THEN subscriptions[x] ELSE None]]
    <3>1. Goto(h, state) /\ UNCHANGED strategies
      BY <2>5 DEF ReadDue
    <3>2. state.at # "increment"
      BY DEF Idle
    <3>3. QED
      BY <1>4, <3>1, <3>2
  <2>6. QED
    BY <1>5, <2>1, <2>2, <2>3, <2>4, <2>5 DEF Request
<1>6. ASSUME NEW h \in Handler, DeleteStrategy(h) PROVE CountInv'
  <2>1. \A d \in StrategyDoc :
            LET e == [d EXCEPT !.exists = "deleted"]
            IN  /\ e.currentSubscribers = d.currentSubscribers
                /\ e.maxSubscribers = d.maxSubscribers /\ e.highest = d.highest
                /\ e.lowest = d.lowest
    BY DEF StrategyDoc
  <2>2. \A n \in Int : n <= n
    OBVIOUS
  <2>3. \A s \in Strategy : NoMore(s)
    BY <1>1, <1>6, <2>1, <2>2, CountsInt DEF DeleteStrategy, NoMore
  <2>4. QED
    BY <1>6, <2>3, QuietCount DEF DeleteStrategy, Idle
<1>7. ASSUME NEW h \in Handler,
             CheckExisting(h) \/ SaveNew(h) \/ SaveStatus(h) \/ ReadFee(h)
                \/ SaveFee(h) \/ Abort(h)
      PROVE  CountInv'
  <2>1. UNCHANGED strategies
    BY <1>7 DEF CheckExisting, SaveNew, SaveStatus, ReadFee, SaveFee, Abort
  <2>2. \E state : Goto(h, state) /\ state.at # "increment"
    <3>1. \A d \in HandlerState : /\ [d EXCEPT !.at = "saveNew"].at = "saveNew"
                                  /\ [d EXCEPT !.at = "readCount"].at = "readCount"
      BY DEF HandlerState
    <3>2. \A d \in HandlerState : \A x :
              [d EXCEPT !.at = "saveFee", !.subscription = x,
                        !.todo = @ \ {x}].at = "saveFee"
      BY DEF HandlerState
    <3>3. \A d \in HandlerState : \A x :
              [d EXCEPT !.at = "readFee", !.subscription = x].at = "readFee"
      BY DEF HandlerState
    <3>4. Idle.at = "idle" /\ handlers[h] \in HandlerState
      BY <1>1 DEF Idle
    <3>5. CASE CheckExisting(h)
      BY <3>1, <3>4, <3>5 DEF CheckExisting
    <3>6. CASE SaveNew(h)
      BY <3>1, <3>4, <3>6 DEF SaveNew
    <3>7. CASE ReadFee(h)
      BY <3>2, <3>4, <3>7 DEF ReadFee
    <3>8. CASE SaveFee(h)
      BY <3>3, <3>4, <3>8 DEF SaveFee
    <3>9. QED
      BY <1>7, <3>4, <3>5, <3>6, <3>7, <3>8 DEF SaveStatus, Abort
  <2>3. QED
    BY <1>4, <2>1, <2>2
<1>8. CASE UNCHANGED vars
  BY <1>2, <1>8 DEF vars
<1>9. QED
  BY <1>3, <1>5, <1>6, <1>7, <1>8, CreateStrategyCount, EditCount, ReadCountCount,
     IncrementCount, DecrementCount DEF Next, FaultFreeNext, Continue

LEMMA CountInvariance == Spec => []CountInv
  BY InitIInv, NextIInv, InitCount, NextCount, PTL DEF Spec

\* However many requests read the count at once, whatever fails between the
\* steps of one (incrementSubscribers), and whatever limits and counts its
\* trader writes meanwhile (update), the count of a strategy that always had a
\* limit exceeds the highest of these by less than the number of requests in
\* progress.
THEOREM CountStaysNearMax == Spec => []CountNearMax
<1>1. IInv /\ CountInv => CountNearMax
  <2> SUFFICES ASSUME IInv, CountInv, NEW s \in Strategy, strategies[s].lowest > 0
               PROVE  strategies[s].currentSubscribers
                        <= strategies[s].highest + Cardinality(Handler) - 1
    BY DEF CountNearMax
  <2>1. Incrementing(s) \in SUBSET Handler
    BY DEF Incrementing
  <2>2. Counted(strategies[s], Cardinality(Incrementing(s)))
    BY DEF CountInv
  <2>3. QED
    BY <2>1, <2>2, CountsInt, HandlersFinite DEF Counted
<1>2. QED
  BY <1>1, Invariance, CountInvariance, PTL
=============================================================================
