---------------------------- MODULE CopyTrading -----------------------------
(***************************************************************************)
(* The copy trading service: followers subscribe to strategies, change the *)
(* status of their subscriptions and are billed, traders create and delete *)
(* strategies (SubscriptionsService, StrategiesService).  A strategy keeps *)
(* a counter of its subscribers in its own document, which no transaction  *)
(* keeps in step with the subscriptions.                                   *)
(*                                                                         *)
(* As in Positions, a Handler is one request or job in progress, an action *)
(* is the code up to and including its next database call, save() writes   *)
(* only the fields changed in memory and findByIdAndUpdate of a deleted    *)
(* document does nothing.                                                  *)
(*                                                                         *)
(* A trader edits a strategy with a body nobody validates, so an edit may  *)
(* move the limit on subscribers either way and write the counter itself.  *)
(*                                                                         *)
(* Abstractions: the fee of a period is 1; investment limits, settings,    *)
(* copy ratio and performance, which nothing reads back, are left out.     *)
(***************************************************************************)
EXTENDS Integers, FiniteSets

CONSTANTS
    Follower,         \* users who subscribe
    Strategy,         \* the ids of the strategies collection
    SubscriptionId,   \* the ids of the subscriptions collection (a bound)
    Handler,          \* requests and jobs that may be in progress together
    Limits,           \* the limits a trader may give, 0 for none
    GivenCounts,      \* the subscriber counts a trader may write
    MaxPeriods,       \* the billing periods of a subscription (a bound)
    MaxDrift,         \* none is cancelled when the count is as far below 0 (a bound)
    None              \* no document, no id

Status == {"Active", "Paused", "Cancelled"}

\* due: nextBillingDate has passed.  periods is history: how often it has.
SubscriptionDoc ==
    [followerId : Follower, strategyId : Strategy, status : Status,
     due : BOOLEAN, totalFeesPaid : Nat, periods : Nat]

\* highest and lowest are history: the highest of the limits it had and of the
\* counts a trader wrote, and the lowest of the limits (0 if it once had none).
StrategyDoc ==
    [exists : {"not yet", "yes", "deleted"}, currentSubscribers : Int,
     maxSubscribers : Nat, highest : Int, lowest : Nat]

ASSUME CopyTradingAssumption ==
    /\ Limits \subseteq Nat /\ GivenCounts \subseteq Int
    /\ MaxPeriods \in Nat /\ MaxDrift \in Nat
    /\ IsFiniteSet(Handler)
    /\ None \notin SubscriptionDoc \cup SubscriptionId \cup Strategy
                    \cup Follower \cup Status

VARIABLES
    strategies,      \* the strategies collection
    subscriptions,   \* the subscriptions collection
    handlers         \* where each request in progress is and what it has read

vars == <<strategies, subscriptions, handlers>>

Stage == {"idle", "checkExisting", "saveNew", "readCount", "increment",
          "decrement", "saveStatus", "readFee", "saveFee", "edit", "delete"}

HandlerState ==
    [at : Stage,                              \* the database call it makes next
     follower : Follower \cup {None},
     strategy : Strategy \cup {None},
     subscription : SubscriptionId \cup {None},
     status : Status \cup {None},             \* the status it is to write
     read : [SubscriptionId -> SubscriptionDoc \cup {None}],
                                              \* the documents it has read
     todo : SUBSET SubscriptionId]            \* those it has yet to bill

NothingRead == [x \in SubscriptionId |-> None]

Idle == [at |-> "idle", follower |-> None, strategy |-> None,
         subscription |-> None, status |-> None, read |-> NothingRead,
         todo |-> {}]

TypeOK ==
    /\ strategies \in [Strategy -> StrategyDoc]
    /\ subscriptions \in [SubscriptionId -> SubscriptionDoc \cup {None}]
    /\ handlers \in [Handler -> HandlerState]

Init ==
    /\ strategies = [s \in Strategy |->
                        [exists |-> "not yet", currentSubscribers |-> 0,
                         maxSubscribers |-> 0, highest |-> 0, lowest |-> 0]]
    /\ subscriptions = NothingRead
    /\ handlers = [h \in Handler |-> Idle]

Stored == {x \in SubscriptionId : subscriptions[x] # None}

Active == {x \in Stored : subscriptions[x].status = "Active"}

Exists(s) == strategies[s].exists = "yes"

Goto(h, state) == handlers' = [handlers EXCEPT ![h] = state]

\* findByIdAndUpdate(strategyId, {$inc: {currentSubscribers: n}})
Add(s, n) ==
    strategies' = IF Exists(s)
                  THEN [strategies EXCEPT ![s].currentSubscribers = @ + n]
                  ELSE strategies

-----------------------------------------------------------------------------
(* StrategiesService                                                       *)

CreateStrategy(s) ==
    /\ strategies[s].exists = "not yet"
    /\ \E limit \in Limits :
          strategies' = [strategies EXCEPT ![s] =
              [exists |-> "yes", currentSubscribers |-> 0, maxSubscribers |-> limit,
               highest |-> limit, lowest |-> limit]]
    /\ UNCHANGED <<subscriptions, handlers>>

\* update finds the strategy ...
ReadToEdit(h, s) ==
    /\ handlers[h].at = "idle"
    /\ Exists(s)
    /\ Goto(h, [Idle EXCEPT !.at = "edit", !.strategy = s])
    /\ UNCHANGED <<strategies, subscriptions>>

Higher(m, n) == IF m >= n THEN m ELSE n

\* A strategy after a body with this limit and this count; what the body does
\* not name keeps its value.
Edited(d, limit, count) ==
    [d EXCEPT !.maxSubscribers = limit, !.currentSubscribers = count,
              !.highest = Higher(Higher(@, limit),
                                 IF count = d.currentSubscribers THEN @ ELSE count),
              !.lowest = IF @ <= limit THEN @ ELSE limit]

\* ... and writes the body by id, whatever fields it has.
Edit(h) ==
    LET s == handlers[h].strategy
    IN  /\ handlers[h].at = "edit"
        /\ \E limit \in Limits \cup {strategies[s].maxSubscribers},
              count \in GivenCounts \cup {strategies[s].currentSubscribers} :
              strategies' = IF Exists(s)
                            THEN [strategies EXCEPT ![s] = Edited(@, limit, count)]
                            ELSE strategies
        /\ Goto(h, Idle)
        /\ UNCHANGED subscriptions

\* delete reads the strategy; 'Cannot delete strategy with active subscribers'
ReadToDelete(h, s) ==
    /\ handlers[h].at = "idle"
    /\ Exists(s)
    /\ strategies[s].currentSubscribers <= 0
    /\ Goto(h, [Idle EXCEPT !.at = "delete", !.strategy = s])
    /\ UNCHANGED <<strategies, subscriptions>>

DeleteStrategy(h) ==
    /\ handlers[h].at = "delete"
    /\ strategies' = [strategies EXCEPT ![handlers[h].strategy].exists = "deleted"]
    /\ Goto(h, Idle)
    /\ UNCHANGED subscriptions

-----------------------------------------------------------------------------
(* SubscriptionsService: subscribing                                       *)

\* create finds the strategy ...
ReadStrategy(h, f, s) ==
    /\ handlers[h].at = "idle"
    /\ Exists(s)
    /\ Goto(h, [Idle EXCEPT !.at = "checkExisting", !.follower = f, !.strategy = s])
    /\ UNCHANGED <<strategies, subscriptions>>

\* ... looks for an active subscription of the follower to it ...
CheckExisting(h) ==
    LET existing == {x \in Active :
                        /\ subscriptions[x].followerId = handlers[h].follower
                        /\ subscriptions[x].strategyId = handlers[h].strategy}
    IN  /\ handlers[h].at = "checkExisting"
        /\ Goto(h, IF existing = {} THEN [handlers[h] EXCEPT !.at = "saveNew"]
                                    ELSE Idle)
        /\ UNCHANGED <<strategies, subscriptions>>

\* ... saves the subscription ...
SaveNew(h) ==
    /\ handlers[h].at = "saveNew"
    /\ \E x \in SubscriptionId \ Stored :
          subscriptions' = [subscriptions EXCEPT ![x] =
              [followerId |-> handlers[h].follower,
               strategyId |-> handlers[h].strategy, status |-> "Active",
               due |-> FALSE, totalFeesPaid |-> 0, periods |-> 0]]
    /\ Goto(h, [handlers[h] EXCEPT !.at = "readCount"])
    /\ UNCHANGED strategies

\* A slip: > where the code has >=.
ReadCountOneMore(h) ==
    LET s == handlers[h].strategy
        max == strategies[s].maxSubscribers
        full == max > 0 /\ strategies[s].currentSubscribers > max
    IN  /\ handlers[h].at = "readCount"
        /\ Goto(h, IF Exists(s) /\ ~full
                   THEN [handlers[h] EXCEPT !.at = "increment"]
                   ELSE Idle)
        /\ UNCHANGED <<strategies, subscriptions>>

\* ... and counts it: incrementSubscribers reads the counter, and throws if
\* the strategy is gone or full ('Strategy has reached maximum subscribers') ...
ReadCount(h) ==
    LET s == handlers[h].strategy
        max == strategies[s].maxSubscribers
        full == max > 0 /\ strategies[s].currentSubscribers >= max
    IN  /\ handlers[h].at = "readCount"
        /\ Goto(h, IF Exists(s) /\ ~full
                   THEN [handlers[h] EXCEPT !.at = "increment"]
                   ELSE Idle)
        /\ UNCHANGED <<strategies, subscriptions>>

\* ... and increments it.
Increment(h) ==
    /\ handlers[h].at = "increment"
    /\ Add(handlers[h].strategy, 1)
    /\ Goto(h, Idle)
    /\ UNCHANGED subscriptions

-----------------------------------------------------------------------------
(* SubscriptionsService: changing the status                               *)

\* updateStatus reads the subscription; any status may follow any other.
ReadToUpdate(h, x, status) ==
    /\ handlers[h].at = "idle"
    /\ x \in Stored
    /\ status = "Cancelled" =>
          strategies[subscriptions[x].strategyId].currentSubscribers > -MaxDrift
    /\ Goto(h, [Idle EXCEPT
                  !.at = IF status = "Cancelled" THEN "decrement" ELSE "saveStatus",
                  !.strategy = subscriptions[x].strategyId,
                  !.subscription = x, !.status = status,
                  !.read = [NothingRead EXCEPT ![x] = subscriptions[x]]])
    /\ UNCHANGED <<strategies, subscriptions>>

Decrement(h) ==
    /\ handlers[h].at = "decrement"
    /\ Add(handlers[h].strategy, -1)
    /\ Goto(h, [handlers[h] EXCEPT !.at = "saveStatus"])
    /\ UNCHANGED subscriptions

\* A slip: the status is saved before it is set (undefined, not validated).
SaveStatusUnset(h) ==
    /\ handlers[h].at = "saveStatus"
    /\ subscriptions' = [subscriptions EXCEPT
            ![handlers[h].subscription].status = None]
    /\ Goto(h, Idle)
    /\ UNCHANGED strategies

SaveStatus(h) ==
    LET x == handlers[h].subscription
        changed == handlers[h].status # handlers[h].read[x].status
    IN  /\ handlers[h].at = "saveStatus"
        /\ subscriptions' = [subscriptions EXCEPT
                ![x].status = IF changed THEN handlers[h].status ELSE @]
        /\ Goto(h, Idle)
        /\ UNCHANGED strategies

-----------------------------------------------------------------------------
(* SubscriptionsService: billing, a periodic job                           *)

\* The next billing date of a subscription passes.
PeriodEnds(x) ==
    /\ x \in Stored
    /\ ~subscriptions[x].due
    /\ subscriptions[x].periods < MaxPeriods
    /\ subscriptions' = [subscriptions EXCEPT ![x].due = TRUE, ![x].periods = @ + 1]
    /\ UNCHANGED <<strategies, handlers>>

\* processSubscriptionFees reads the active subscriptions that are due.
ReadDue(h) ==
    LET due == {x \in Active : subscriptions[x].due}
    IN  /\ handlers[h].at = "idle"
        /\ due # {}
        /\ Goto(h, [Idle EXCEPT
                      !.at = "readFee", !.todo = due,
                      !.read = [x \in SubscriptionId |->
                                  IF x \in due THEN subscriptions[x] ELSE None]])
        /\ UNCHANGED <<strategies, subscriptions>>

\* It reads the strategy of the next one; without it the job throws ...
ReadFee(h) ==
    /\ handlers[h].at = "readFee"
    /\ \E x \in handlers[h].todo :
          Goto(h, IF Exists(handlers[h].read[x].strategyId)
                  THEN [handlers[h] EXCEPT !.at = "saveFee", !.subscription = x,
                                           !.todo = @ \ {x}]
                  ELSE Idle)
    /\ UNCHANGED <<strategies, subscriptions>>

\* A slip: the whole document is written as it was read.
SaveFeeWhole(h) ==
    LET x == handlers[h].subscription
    IN  /\ handlers[h].at = "saveFee"
        /\ subscriptions' = [subscriptions EXCEPT
                ![x] = [handlers[h].read[x] EXCEPT
                           !.due = FALSE, !.totalFeesPaid = @ + 1,
                           !.periods = subscriptions[x].periods]]
        /\ Goto(h, IF handlers[h].todo = {} THEN Idle
                   ELSE [handlers[h] EXCEPT !.at = "readFee", !.subscription = None])
        /\ UNCHANGED strategies

\* A slip: the total is incremented in the database ($inc).
SaveFeeInc(h) ==
    LET x == handlers[h].subscription
    IN  /\ handlers[h].at = "saveFee"
        /\ subscriptions' = [subscriptions EXCEPT
                ![x].due = FALSE, ![x].totalFeesPaid = @ + 1]
        /\ Goto(h, IF handlers[h].todo = {} THEN Idle
                   ELSE [handlers[h] EXCEPT !.at = "readFee", !.subscription = None])
        /\ UNCHANGED strategies

\* ... and saves the next billing date and the new total of fees.
SaveFee(h) ==
    LET x == handlers[h].subscription
    IN  /\ handlers[h].at = "saveFee"
        /\ subscriptions' = [subscriptions EXCEPT
                ![x].due = FALSE,
                ![x].totalFeesPaid = handlers[h].read[x].totalFeesPaid + 1]
        /\ Goto(h, IF handlers[h].todo = {} THEN Idle
                   ELSE [handlers[h] EXCEPT !.at = "readFee", !.subscription = None])
        /\ UNCHANGED strategies

\* A database call rejects or the process dies: what was saved stays saved.
Abort(h) ==
    /\ handlers[h].at # "idle"
    /\ Goto(h, Idle)
    /\ UNCHANGED <<strategies, subscriptions>>

-----------------------------------------------------------------------------
Request(h) ==
    \/ \E s \in Strategy : ReadToEdit(h, s) \/ ReadToDelete(h, s)
    \/ \E f \in Follower, s \in Strategy : ReadStrategy(h, f, s)
    \/ \E x \in SubscriptionId, status \in Status : ReadToUpdate(h, x, status)
    \/ ReadDue(h)

Continue(h) ==
    \/ Edit(h) \/ DeleteStrategy(h)
    \/ CheckExisting(h) \/ SaveNew(h) \/ ReadCount(h) \/ Increment(h)
    \/ Decrement(h) \/ SaveStatus(h)
    \/ ReadFee(h) \/ SaveFee(h)

FaultFreeNext ==
    \/ \E s \in Strategy : CreateStrategy(s)
    \/ \E x \in SubscriptionId : PeriodEnds(x)
    \/ \E h \in Handler : Request(h) \/ Continue(h)

Next == FaultFreeNext \/ \E h \in Handler : Abort(h)

Spec == Init /\ [][Next]_vars

FaultFreeSpec == Init /\ [][FaultFreeNext]_vars

-----------------------------------------------------------------------------
(* Properties under any interleaving and any failure                       *)

\* No subscription is charged more fees than billing periods have passed,
\* although billing jobs may overlap and each writes a total computed from
\* what it read (processSubscriptionFees).
NeverOverbilled ==
    \A x \in Stored :
        subscriptions[x].totalFeesPaid
            + (IF subscriptions[x].due THEN 1 ELSE 0) <= subscriptions[x].periods

\* A subscription's status changes only to what a request in progress asked
\* for: a billing job that read it earlier does not bring the old status back.
StatusAsRequested ==
    [][\A x \in Stored :
          subscriptions'[x].status # subscriptions[x].status =>
              \E h \in Handler : /\ handlers[h].at = "saveStatus"
                                 /\ handlers[h].subscription = x
                                 /\ handlers[h].status = subscriptions'[x].status]_vars

\* 'Strategy has reached maximum subscribers' (strategies.service.ts:161): a
\* strategy that always had a limit counts more subscribers than the highest
\* limit it had, or count its trader wrote, only by the requests that read the
\* counter together.  A limit lowered under the count evicts nobody, so the
\* limit of the moment bounds nothing; cancellations only lower the count.
CountNearMax ==
    \A s \in Strategy :
        strategies[s].lowest > 0 =>
            strategies[s].currentSubscribers
                <= strategies[s].highest + Cardinality(Handler) - 1

-----------------------------------------------------------------------------
(* A property of requests that do not overlap                              *)

\* 'Cannot delete strategy with active subscribers' (strategies.service.ts:131).
ActiveStrategyExists ==
    \A x \in Active : Exists(subscriptions[x].strategyId)
=============================================================================
