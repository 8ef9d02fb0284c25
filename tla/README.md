# Verification of protrader5

TLA+ models of the protrader5 trading platform, the TLC configurations that check
them on small instances, and theorems about them that TLAPS checks for every value
of the constants. Paths below are relative to the repository.

## 1. The system

protrader5 is a set of NestJS services over one MongoDB (through Mongoose), a
Socket.IO server, a React client with a Redux store, and a Kong gateway in front.
No service calls another. They share user ids and the database server; each owns
its collections. Pushes to the client go through Redis pub/sub to the Socket.IO
server. Every service is single-threaded JavaScript, so code between two `await`s
is atomic; at each `await` (a call of the database, a payment gateway, a mail server
or Redis) any other request runs. No code uses a MongoDB transaction, a version check
or a lock, and hardly any catches the rejection of a call. The repository holds no
test code.

| Component | State it keeps | Operations | What is hard, and what makes it correct |
|---|---|---|---|
| Positions, `trading-service/src/positions`, and market orders, `orders.service.ts` | `trades` and `positions`, related by `relatedTrades`; unique index (userId, symbol, isOpen) | market order, close (whole, part, all), price sweep, stop loss and take profit | positions are read, computed in memory and saved an `await` later; a trade is saved before its position. At most one open position per user and symbol; no trade lost in silence; quantities are the net of the trades; no position holds more than was traded |
| Orders, `orders.service.ts` | orders in `trades`, parents list their legs (`childOrderIds`) | place all supported order types, OCO and bracket with legs, modify, cancel | a parent order takes 4 or 5 saves, cancelling two updates. Legs listed are complete; cancelled and executed are final |
| Copy trading, `copy-trading-service` | `strategies` with a subscriber counter and limit, `subscriptions` with billing dates and totals | create, edit, delete, subscribe, change status, bill | the counter and the subscriptions drift apart, the limit changes; billing jobs overlap. No overbilling, no deleted strategy with active subscribers, the limit holds but for requests that overlap |
| Payments, `payment-service` | `transactions`; the gateway keeps its own side | deposit, verify, webhook, withdraw, refund | webhooks come late and twice; a refund is a gateway call and two saves. Completed only if paid, refunds within what was paid, a payment is recorded although reports of it fail |
| Algorithmic trading, `algo-trading-service` | `algorithms`, `backtests`, backtests running in the process | create, update, change status, delete, backtest | backtests run in the background of the same thread. Backtests end; a live algorithm is left alone, and has been backtested |
| Copied terms and ratings, `copy-trading-service` | the other fields of strategies and subscriptions | change terms and status, rate, update performance and settings, add a trade | the average rating is computed from a document that was read before; it must be over reviews that were given |
| Notifications, `notification-service` | notifications, preferences | create and send per channel, mark read, delete, preferences | sending is awaited between two saves of one document, and the user reads or deletes it there; preferences are created on first use. A read mark stays, an outcome is recorded as it was, a choice is not replaced by defaults |
| Risk, `risk-management-service` | profile with limits and current status, alerts | create and update profile, report the status, acknowledge and resolve alerts | the check reads the profile again and looks for an open alert per limit, each an `await`. A breach that is reported is alerted, a report is not undone |
| Users and authentication, `user-service` | users with devices, refresh token, second factor, API keys | register, log in, refresh, log out, set up and remove the second factor, API keys | a log-in is two updates, the second factor is set by several requests. Who can refresh is on record; who has the factor enabled has a secret |
| Socket.IO server, `websocket-server` | rooms per socket, subscribed users or symbols per server, price cache | connect, (un)subscribe, broadcast every second, Redis messages, start and stop | the sets are per user and server, the rooms per socket; `subscribe` awaits in its loop. Who is connected and asked is subscribed |
| Client store and WebSocket client, `frontend/web/src/store` | prices and chosen symbols, notifications and their count, connection | middleware, push handlers, read and remove | subscribe events are emitted before there is a connection; a notification arrives once per server |
| Database set-up, `backend/database` | collections, indexes, demo documents | migrate up and down, seed, the npm chains | one call after another without a transaction, errors of a drop swallowed, services create the same collections. A command that reports success has set the database up |
| Rest of the client store, client pages, charting, API gateway configuration, infrastructure, documents | view state, chart templates, configuration | – | not modelled, see section 5 |
| Exchange integration | – | – | a guide without code |

How they meet: the client sends requests through the gateway to the services and
gets pushes from the Socket.IO server. Orders and positions meet in the trading
service's two collections, which is why market orders are modelled with positions.
`processSubscriptionFees` and `updatePositionPrices` have no caller in the
repository; their comments call them periodic, so they are modelled as jobs that
may start at any time. `payment-service` has no controller; its operations are
modelled as the requests that `COMPLETE_BACKEND_IMPLEMENTATION.md:314-323` lists.

`PROJECT.json` lists under `hazards` each place where this goes wrong if it does,
with the properties that watch it.

## 2. Modelling

One action is the code from the resumption of a request up to and including its
next call of the database or of a gateway. A request in progress is a *handler*:
its record says which call is next and holds what it has read, which may be out of
date by the time it is used. Bodies that no class
of DTOs validates (inline types and `Partial<...>` at run time are plain objects) give
what a client likes: the quantity of a closing, any field in the update of a strategy
or an algorithm. A request that cannot start (a failed check before the
first write) is a disabled action; one that throws later goes back to idle, with
what it wrote left in place. `Abort` lets any call reject, or the process die,
anywhere. A call that rejects has not written.

What is taken of Mongoose and MongoDB, external to the repository:
- `save()` sends only the fields changed since the document was read (`$set`, and
  `$push` for a pushed element), checks no version, and rejects when the document
  is gone;
- `findByIdAndUpdate` of a deleted document does nothing;
- one document's update is atomic; `updateMany` is taken to be one atomic step;
- an update that breaks a unique index rejects. A unique index on a field of an
  array's elements has one entry for all documents whose array is empty, so only one
  document may be without an element;
- in an array of nested objects, a key named `type` is taken for the array's type, so
  `[{ ..., type: String }]` is an array of strings, and an object in it is refused
  when the document is saved; so is a number that is `NaN`;
- a model that a service registers creates its collection and indexes when the
  service starts, in the database that the set-up scripts use;
- `createCollection` of a collection that is there is refused by MongoDB 6.0, which
  `docker-compose.yml` runs, and may succeed on later servers: `strict` in `Database`
  is chosen at first. `createIndexes` makes all or none of its indexes, `insertMany`
  stops at the first document that is refused.

And of Socket.IO and Redis: events emitted without a connection wait for it, and are
not repeated for the next; a join by a socket that has disconnected does nothing;
rooms reach over all servers when both have the Redis adapter; a message published
in Redis reaches the servers that are subscribed at that time.

Definitions marked *Slip* in the modules stand before the definition they vary: each
is a plausible mistake in that place, used to confirm that a property notices it.

| Module | Models | State and actions |
|---|---|---|
| `PositionBook` | the promise: one holding per user and symbol, every trade whole and once | `book`, `applied`; `Order`, `Close` |
| `Positions` | `placeOrder` of a market order, `executeMarketOrder`, `updatePosition`, all writing operations of `PositionsService` | `trades`, `positions`, `handlers`; `failed` is history. `PlaceMarketOrder`, `FindOpenPosition`, `SaveFoundPosition` or `CreatePosition` are one order; `ReadToClose`, `SaveClosingTrade`, `SaveClosedPosition` are one closing, repeated over `todo` by close-all and sweep; `text` says that its quantity came as a string |
| `Orders` | the rest of `OrdersService` | `orders`, `handlers`; `PlaceParent`, `SaveLeg`, `LinkLegs`; `ReadToCancel`, `CancelLegs`, `CancelOrder`; `ReadToModify`, `ModifyOrder` |
| `CopyTrading` | `SubscriptionsService`, and creation, deletion, limit and counter of `StrategiesService` | `strategies`, `subscriptions`, `handlers`; `periods`, and a strategy's `highest` and `lowest` limit, are history. `Edit` writes limit and counter, `PeriodEnds` is the clock |
| `Payments` | `PaymentsService`, and the gateway as the service uses it (external) | `transactions`, `gateway`, `handlers`. `CustomerPays` and the start of `ReadWebhook` are the outside world |
| `AlgoTrading` | `AlgorithmsService` in one process | `algorithms`, `backtests`, `handlers`, `jobs`. `Update` writes what the body gives. A job `looping` holds the only thread: nothing but `Restart` is enabled; one that does not loop ends in `SaveResults`, which is always refused |
| `Service` | what the modules below share | `Handler`, ids of a collection that are stored, unused or `Deleted` |
| `Strategies` | the rest of `StrategiesService` and `SubscriptionsService` | `records`, `copies`, `editors`; `given` and `written` (the strategies whose trader wrote rating or count) are history |
| `Notifications` | `NotificationsService` and the mail server (external) | `notes`, `preferences`, `senders`; `CreateNotification`, `SendEmail`, `SaveSent` or `SaveFailed` are one channel. `delivered`, `abandoned`, `chosen` are history |
| `Risk` | `RiskProfilesService` | `profiles`, `alerts`, `watchers`; a report, then a check that looks for and raises one alert per limit. `reported`, `closedThen`, `excused` are history |
| `Accounts` | `UsersService`, `AuthService` | `users`, `requests` |
| `MarketData` | `MarketDataService` on one server, `marketSlice` and the market events of the middleware | `subscribedSymbols`, `marketRooms`, `marketDataCache`, `subscribes` (calls that have yielded), `broadcasting`; `pages`, `connections` |
| `Push` | `OrderService`, `PositionService`, `NotificationService`, start and stop of `index.ts`, `authMiddleware`, the middleware's push handlers and `notificationSlice` | `servers`, `sockets`, `subscribed`, `bus` (Redis), `wire`, `tabs`. `lost`, `left` and `silenced` are history. The three services do the same on channels of their own: `stream` says which one is followed |
| `Database` | the migration, the seed, the npm commands | `existing`, `indexed`, `uniqueKeys`, `documents`, `commands`; an action is one call to MongoDB. A command holds the set of calls it has still to make; `Place` is the order of a script's calls and `NextCall` the first of those left |
| `Counting` | sums and filtered lists, stated as cardinalities | no state. `SumOver` adds, `PickFrom` selects from a list by rank |
| `MC*` | instances for TLC | symmetry sets; `alone` (`MCPositions`, `MCOrders`, `MCServices`) records that no two requests have overlapped so far, for what is promised only then. `AloneSpec` is the specification with this history and without TLC's bounds |
| `*_proofs` | theorems | |

Left out of the modelled parts: prices, profit and margin (the service's market
price is a constant); validation that precedes any write; fees; simulated backtest
figures. FOK and IOC orders are listed in the types and rejected by the code. Of what
an update of a strategy or an algorithm may write, those fields are modelled that
other operations read. `publishOrderUpdate` and its like are called by nothing, and
would be refused, as their Redis client is in subscriber mode: `Publish` stands for
another service.

## 3. What the runs show

| Run | Instance | Shows |
|---|---|---|
| `positions` | 2 requests, 2 symbols, 4 trades, orders of 1 or 2, closings of the whole, of 1 and of -1, as a number or a string | whatever overlaps and fails: `OneOpenPosition`, `TradesMatchPosition`, `NoSilentOrphan`, `NoMoreThanTraded`, `SavesKeepOthersWork`; one request at a time: `ImplementsBookAlone` (refinement of `PositionBook`), `QuantityIsNetAlone`, `ClosingsWithinAlone` |
| `positions_second_round_trip` | 1 request, no failure | **violated**: `ExecutedTradeReachesPosition` |
| `orders` | 2 requests, 5 orders, 2 terms | `LinkedLegsComplete`, `FinalStatusKept`; one request at a time: `CancelledWithLegsAlone` |
| `copy_trading_concurrent` | 2 requests or jobs, 3 subscriptions, limits of 1 and 2, a counter written as 2 | `NeverOverbilled`, `CountNearMax`, `StatusAsRequested` |
| `copy_trading_delete` | 1 request, no failure | **violated**: `ActiveStrategyExists` |
| `payments` | 2 requests, webhooks or timers, 3 transactions, 2 gateways | `CompletedIsPaid`, `RefundsAreBacked`, `RefundedHasRefund` |
| `payments_fair` | 2 requests, 2 transactions, 2 gateways, fairness | `PaidIsRecorded` (at some time), `PaidStaysRecorded` (at Stripe) |
| `algo_trading` | 2 requests, 2 background backtests, 1 algorithm, any body | `LiveAlgorithmKept` |
| `algo_live_without_backtest` | 1 request | **violated**: `LiveWasBacktested` |
| `algo_short_backtest` | no failure, fairness | **violated**: `BacktestEnds` |
| `services` | seven parts, each on its own, 2 requests or commands each | see the next table |
| `accounts_second_user` | 1 request, no failure | **violated**: `NewcomerIsRegistered` |

`services` runs the smaller modules in one state space. They share no state, so the
first choice (`service`) says which of them runs, and the others stay as they were
at first; every property is of one of them.

| Part | Instance | Properties |
|---|---|---|
| `Accounts` | 2 requests, 2 users, emails and phones | `SessionIsRecorded`; one request at a time: `EnabledHasSecretAlone` |
| `Notifications` | 2 requests, 2 notifications of one user, a type that is off for SMS | `SentWasDelivered`, `PendingIsInHand`, `ReadMarkKept`, `ChosenPreferencesKept` |
| `Risk` | 2 requests, 1 user, 2 alerts, levels to 2 | `BreachIsAlerted`, `StatusAsReported` |
| `Push` | 2 servers, 2 tabs of one user, 2 connections, 1 update | `LoggedInIsServed`, `NoUnreadHidden` |
| `MarketData` | 2 pages, 2 connections, 2 symbols chosen together, 1 event on its way per page | `ChosenIsServed` |
| `Strategies` | 2 requests, 1 strategy, 2 reviews with ratings to 2, a body with another status, a rating and a count, 1 subscription | `RatingIsOfReviews` |
| `Database` | 2 commands, 2 seeds, 2 collections | `SetUpAsReported` |

The type invariant of each module is checked in its first run.

### Bounds

Ids bound the collections: `TradeId`, `PositionId`, `OrderId`, `SubscriptionId`,
`TransactionId`, `AlgorithmId`, `BacktestId`. `Handler` bounds the overlap,
`MaxQuantity` and `MaxAmount` the inputs, `MaxMixed` the
trades made on several symbols, `MaxOverlapping` those made with overlaps, `CloseInput`,
`Limits`, `GivenCounts`, `GivenStatus`, `GivenResults`, `BodyStatus`, `BodyRating` and
`BodyCount` are what bodies give, `MaxPeriods` bounds billing, `MaxDrift` how far below
zero the counter is driven, `Days` and `Terms` enumerate inputs.

- Two handlers are the least that overlap, and each hazard listed is between two.
- Three trades are two that race and the one that opened the position; quantities 1
  and 2 give a partial close, an exact close and an excess, and -1 one that adds; two
  symbols show an index key mixed up. More than two trades are made on one symbol
  (`MaxMixed` is 2), and a fourth by requests one at a time (`MaxOverlapping` is 3):
  it reaches open, add, reduce and close.
- Five orders hold a bracket (4) or an OCO order (3), and orders beside it. Requests
  overlap only while all orders are on the same terms.
- Three transactions are a deposit and two refunds of it. Amount 1 is enough to
  refund twice what was paid.
- Three subscriptions are two that race for one place and one that had it. With
  `MaxDrift` 0 no cancellation starts when the counter is at or below 0, which
  only keeps the counter's descent finite; it is a bound on the environment.
- Two notifications are one on each of two channels, or two that race for the
  user's preferences; two alerts are one that was closed and a new one, or two limits
  at once; two reviews are two that race.
- Two servers and two connections give a second tab at another server, and a
  connection opened anew; one update is enough to arrive twice.
- `Kept` follows two of the sixteen collections: `users`, which has the unique
  indexes, and one of those that are seeded after it. Two seeds are a first and one
  that is repeated or overlaps.
- `Days` 49 and 50 are the two sides of the rounding in the equity curve. Limits 1 and
  2 give one that is lowered under the count; a written count of 2 is over one of them.

Most runs say `CHECK_DEADLOCK FALSE`: the ids of a bounded collection run out while
a handler is about to insert, or no request is left to make. In `algo_trading`
`Restart` is always possible, and deadlock is checked.

### Fairness

`Payments!FairSpec`: a call that a request made is answered or rejects (weak
fairness of each handler's next step, `Abort` included), and the gateway repeats a
webhook until it is acknowledged, not all repeats failing (strong fairness of
delivery and of its save). Both Razorpay and Stripe repeat unacknowledged events;
`handleWebhook` throws when its save fails, so the event is not acknowledged then.

`AlgoTrading!FaultFreeFairSpec`: each request and job gets its turn while the
thread is not held by a loop (the event loop serves every settled promise).

### What overlapping requests break

The properties named `...Alone` are checked of requests that come one at a time,
because they fail with two, and `LiveAlgorithmKept` excepts a request whose read is out
of date: each rests on a read that is an `await` older than the write. Without that
TLC finds

- a lost update: two orders add to one position and the second save, of a quantity
  computed from the old one, drops the first (`orders.service.ts:301`);
- one position closed twice by two closings that both read it open
  (`positions.service.ts:49`);
- an OCO parent cancelled while its legs are still to be saved, and then listed as
  pending legs of a cancelled order (`orders.service.ts:202`);
- an algorithm written after it went live (`algorithms.service.ts:68`);
- a second factor left enabled without a secret, when it is set up or verified while
  it is being removed (`users.service.ts:160`).

No document of the repository promises otherwise for overlapping requests, so these
are recorded as hazards. The failures that need no overlap are findings.

The code also allows the following, which nothing in the repository forbids and no
property excludes: two subscriptions of one follower made at once; of two reviews
given at once one is lost; a bank transfer refunded twice at once; alerts raised
twice by overlapping reports; a withdrawal that stays Processing after a crash;
a failed verification that overwrites a recorded payment, always at Razorpay, at Stripe
if it asked before the payment (so `PaidIsRecorded` does not say for how long); a
limit lowered under the number of followers; a counter or rating written by the
trader; an algorithm put live by an update; an active subscription that a full strategy
does not count; a closing of a negative quantity, which adds to the position, or of a
string, which leaves it open at 0;
after a lost connection the client does not subscribe again, so it is connected but
not served until the next log-in (`LoggedInIsServed` excludes it by `lost`); an
unsubscribe by one tab silences the user's other tabs at that server (`silenced`); a
`subscribe` that resumes after an unsubscribe joins the symbols it has left; `setup`
after the user service has started never succeeds, because its collection exists or
its unique phone index refuses the second demo user, who like the first has no
phone; `down` reports success whatever its drops did (`met`).

### Findings

1. **Second round trip.** The unique index of `position.schema.ts:69` covers closed
   positions too, so a user can close a symbol once. The second close saves its
   executed trade and then fails on the position, which stays open.
2. **Deleting a followed strategy.** `subscriptions.service.ts:127` decrements the
   counter at every cancellation, repeated ones included, and never increments it on
   resumption; the guard at `strategies.service.ts:130` trusts the counter.
3. **Live without a backtest.** `algorithms.service.ts:93` tests
   `!backtestResults`, whose default is `{}` (`algorithm.schema.ts:85`), which is
   truthy: the message "Must backtest algorithm before going live" is never sent.
4. **Short backtests.** The loop at `algorithms.service.ts:240` steps by
   `Math.floor(days / 50)`: 0 below 50 days. It never ends, and holds the thread of
   the whole service.
5. **Results never saved.** A backtest of 50 days or more leaves the loop, but its trades
   are objects where the schema has, by a nested key named `type`
   (`backtest.schema.ts:95`), strings: `backtest.save()` (`algorithms.service.ts:187`)
   is refused each time, and the update to Failed (`:151`) is never executed. So no
   backtest ends, whatever its length; the run of finding 4 starts either kind.
6. **Second registration.** `apiKeys.key` is unique (`user.schema.ts:96`) and every
   new user has no API keys: their common index entry refuses the second one.

## 4. What is proved

Every safety invariant and every action property that a passing run checks is a
theorem, for all constants that satisfy the named assumptions (`None` and the other
markers are not documents or ids; bounds are naturals; `Handler` and some sets of ids
are finite where something is counted), hence for any number of requests, documents,
servers and tabs, and any failures:

| Module | Theorems |
|---|---|
| `Positions_proofs` | `TypeCorrect`, `OneOpen`, `TradesMatch`, `NoOrphan`, `NeverMoreThanTraded`, `KeepsOthersWork`; of `AloneSpec`: `QuantityIsNet`, `ClosingsWithin`, and the refinement `ImplementsBookInTurn` |
| `Orders_proofs` | `TypeCorrect`, `LinkedLegs`, `FinalStatus`; of `AloneSpec`: `CancelledWithLegs` |
| `CopyTrading_proofs` | `TypeCorrect`, `NotOverbilled`, `StatusRequested`, `CountStaysNearMax` |
| `Payments_proofs` | `TypeCorrect`, `CompletedPaid`, `RefundedRecorded`, `RefundsBacked` |
| `AlgoTrading_proofs` | `TypeCorrect`, `LiveKeptUnlessStale` |
| `Realtime_proofs` (`Notifications`, `Push`, `MarketData`) | `NotificationsTypeCorrect`, `SentDelivered`, `PendingInHand`, `ReadMark`, `ChosenKept`; `PushTypeCorrect`, `Served`, `UnreadShown`; `MarketTypeCorrect`, `ChosenServed` |
| `Services_proofs` (`Accounts`, `Risk`, `Strategies`, `Database`, `MCServices`) | `AccountsTypeCorrect`, `RefreshableIsRecorded`, `EnabledHasSecretInTurn`; `RiskTypeCorrect`, `StatusIsAsReported`, `BreachesAlerted`; `StrategiesTypeCorrect`, `RatingsOfReviews`; `DatabaseTypeCorrect`, `SetUpIsAsReported`; `ServicesTypeCorrect` |
| `Counting_proofs` | lemmas: a sum over a set gains or loses one element, or changes at one; sums compare by their terms; what `PickFrom` returns |

### The inductive invariants

Each component states an inductive invariant. The properties alone are not
inductive: they say nothing of requests half-way. The invariant adds, per handler,
what the request may still rely on although its documents may have changed:

- Positions, `IInv`: a handler's trade is stored, is its own and is attached to
  nothing; its position still has the owner, symbol and side that it read.
  `TradedInv`: what is stored *and* what a handler has read of a position is within the
  trades that add to it, so a save computed from the latter is, too. `IndexUnique` carries `OneOpenPosition` across overlapping creations.
- Orders, `IInv`: `ExecutedIsMarket` (only a market order is ever executed, at once),
  which keeps `cancelOrder`'s unchecked write off executed orders; the legs a
  placement holds are stored and are its own.
- CopyTrading, `IInv`: `RoomForFee`: the total a billing job read leaves room for one
  fee, because the period that was due has passed and periods never decrease.
  `CountInv`: the counter *plus* the requests that have passed the check and are about
  to increment it (`Incrementing`) is within the highest limit or count given and the
  other handlers. A check admits a request only below the limit of the moment, and what
  is at `increment` by then is what it cannot see.
- Payments, `IInv`: a handler that will write Completed, or a refund, has a paid
  deposit (`Backed`); one that will write Refunded has a refund on record;
  `PaidStored`. `RefundsInv`: the refunds recorded *and* those a handler has obtained
  and not yet recorded (`OnTheWay`) are within what the gateway has refunded.
- AlgoTrading, `IInv`: what a request is about to do is what the status it found allows
  (`Held`); if there is one handler only, that status still is the algorithm's
  (`UpToDate`). So a write that reaches a live algorithm otherwise comes from a request
  that found it before, with another beside it.
- Accounts, `AccountsIInv`: a log-in that has yet to store its token has recorded the
  device (`DeviceFirst`); devices are never forgotten, so no other request undoes it.
- Notifications, `NotificationsIInv`: a sender between two notifications has none in
  hand, and a mail is with the mail server before its success is saved (`Relies`).
  `NotificationsTyped`: a sender has channels left as long as it is busy.
- Push, `PushIInv`: a tab's connection is its own; its subscribe event waits for the
  first connection (`AsksFirst`); once handled, the connection is in the room unless
  it left (`HasJoined`); the user of a connection in a room is subscribed or silenced
  at its server (`RoomServed`), which ends only with the process and all its
  connections. `TabsIInv`: a tab's badge counts at least the unread notifications it
  holds (`Shows`), through every reducer of the slice.
- MarketData, `MarketIInv`: a symbol someone is subscribed to is in the cache
  (`CachedIfSubscribed`); a `subscribe` call that has yielded waits for the first
  symbol it has left (`Calls`); each chosen symbol is asked for by an event on its way
  that no later one takes back, is in a call in progress, or is joined (`ChosenOnWay`).
- Risk, `RiskIInv`: the alerts closed at a report stay closed (`ClosedStay`); every
  limit that is breached has an alert of since the report, or a check in progress that
  has yet to come to it (`ChecksCover`).
- Strategies, `StrategiesIInv`: a rating stored or about to be stored is the average
  over some set of reviews that were given (`IsAverage`) unless its trader has written
  it; reviews are never withdrawn.
- Database, `DatabaseIInv`: a command has made its calls in order (`InOrder`), and
  what each has made is there unless another command, or a service, has met it
  (`HasRun`, `HasIndexed`, `HasSeeded`, `HasReset`; `Meets`); the index on email holds
  (`KeysHold`).

### One request at a time

For what is promised only of requests that do not overlap, the invariant is
`alone =>` such a part, and the reads it holds are still true: `InTurn` (Positions:
what the busy handler read is what is stored, and each open position adds up to its
trades), `AloneHeld` and `ParentsOnly` (Orders: the legs a cancellation has read are
all there are, and settled before the parent is cancelled), `SecretSeen` (Accounts).
`AloneSpec` only adds the history variable `alone`; every behaviour of `Spec` is one
of it.

`ImplementsBookInTurn` is a step simulation: under `InTurn` each action either leaves
the book that the open positions and their trades amount to (`Book`, `Applied`) as it
is, or is exactly one `Order` or `Close` of `PositionBook`. A trade takes effect with
the save of its position; the save of the trade before it, every read, and a failure
between the two are stutters.

### How the proofs are built

The proof has a lemma per action. Most use one lemma that says what no step undoes
(`Grows` and its like: documents are not removed, owners do
not change) and so carries the records of the other handlers over. The action
properties follow from the invariant and a case per action.

Sums, averages and filtered lists would need induction over data, which the provers
do not do. `Counting` states them as cardinalities instead: a sum of natural numbers
is the number of its units (pairs of an element and one of its units), a selection
from a list takes the n-th of the positions that qualify. The facts that proofs need
then follow from the library's theorems about finite sets, with no induction of our
own. Two assumptions that TLC evaluates on small data tie these definitions to the
usual ones: `CountingAssumption` (`MCPayments`: `SumOver` is the fold with `+`) and
`PickingAssumption` (`MCServices`: `PickFrom` is `SelectSeq`).

### Model-checked only

- Liveness, `PaidIsRecorded` and `PaidStaysRecorded`: TLAPS does not reach liveness under fairness, nor
  `ENABLED`.
- The five refuted statements, which need a counterexample and have one.
- That `SumOver` and `PickFrom` equal the recursive definitions for *every* input,
  which is induction over data.
- That the runs' bounded specifications (`MCSpec` of `MCPositions`, with `Bounded`) are
  not vacuous: TLC reaches every action.

## 5. Not modelled

- *Client store: orders, positions, session, copy and algorithmic trading.* At this
  commit the slices do not link with the API: they import `{ api }` from
  `services/api.ts`, which has a default export only; the thunks take `.data` of what
  is `.data` already, so a fulfilled thunk has no payload; `api.patch` does not exist;
  the access token is stored under one key and read under another. Pushed orders and
  positions carry `orderId` and `positionId` where the reducers look for `id`, so two
  pushed orders are taken for one. A model of these slices would have to repair them.
- *Client pages.* Components that show the store; many show fixed sample data.
- *Charting.* One database call per operation, nothing shared, chart data made at
  random, and indicators that are arithmetic over real numbers.
- *Reads and calculators*: listings, statistics, portfolio figures, position size,
  margin and the check of an order against the limits, which neither write nor guard a
  write of the services.
- *`WebSocketService`* (`frontend/web/src/services/websocket.ts`): nothing imports it; the
  connection in use is the middleware's.
- *API gateway, infrastructure, documents, exchange integration*: configuration and
  text; the exchange integration is a guide without code.
- Fields that nothing reads back: profiles of users, `lastUsedAt` of an API key,
  socket ids kept for a symbol after their connection ended.

## 6. Plan

Done: the modules of section 2, their runs, and a theorem for every safety invariant
and action property of a passing run. Left:

1. An abstract ledger for `Payments` (a deposit is paid once and refunded in parts)
   and an abstract enrolment for `CopyTrading`, each with the refinement as a property
   of a run and as a theorem.
2. Lemmas that several proofs restate (a handler's record after `Goto`, a document
   stored under a new id) in one module.

## 7. Running

    cd tla
    tlc -workers 2 -config Positions.cfg MCPositions
    tlapm Positions_proofs.tla

The runs take from seconds to about three minutes (`services`, 1.1 million states; `copy_trading_concurrent`, 5.3 million);
`PROJECT.json` maps each run to its module and configuration, each definition to the
lines it models, and each property to a mutant that violates it.
