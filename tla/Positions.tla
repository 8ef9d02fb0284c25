----------------------------- MODULE Positions ------------------------------
(***************************************************************************)
(* Positions of the trading service: market orders, which change the       *)
(* user's position (OrdersService.executeMarketOrder, updatePosition), and *)
(* the operations of PositionsService: close, close all, set stop loss and *)
(* take profit, and the sweep that closes positions whose stop or target   *)
(* the price has reached.                                                  *)
(*                                                                         *)
(* A Handler is one request in progress.  Node runs handlers one at a time *)
(* between awaits, so one action is the code from one database call up to  *)
(* and including the next; any other handler may run in between.  What a   *)
(* handler read stays in its record while the database moves on.           *)
(*                                                                         *)
(* Mongoose's save() sends only the fields changed since the document was  *)
(* read, appends pushed array elements with $push, and checks no version;  *)
(* an update that breaks the unique index (userId, symbol, isOpen) fails.  *)
(*                                                                         *)
(* Abstractions: quantities are small integers; prices and profit are left *)
(* out (the service's market price is a constant), except that the profit  *)
(* of a position of quantity 0 has no percentage; and a position's stop    *)
(* loss and take profit are one Boolean, whether that price triggers them. *)
(***************************************************************************)
EXTENDS Integers, FiniteSets, Counting

CONSTANTS
    User,         \* the platform's users
    Symbol,       \* the instruments
    TradeId,      \* the ids of the trades collection (bounds the trades)
    PositionId,   \* the ids of the positions collection
    Handler,      \* the requests that may be in progress together
    MaxQuantity,  \* the largest quantity in a request (bounds the input)
    CloseInput,   \* the quantities that bodies of close give (bounds the input)
    Triggers,     \* the stop/target states a request may set
    None          \* no document, no id, no entry of the book

Side == {"Buy", "Sell"}

TradeDoc == [userId : User, symbol : Symbol, tradeType : Side,
             quantity : Int, closing : BOOLEAN]

PositionDoc == [userId : User, symbol : Symbol, tradeType : Side,
                quantity : Nat, isOpen : BOOLEAN, triggered : BOOLEAN,
                relatedTrades : SUBSET TradeId]

ASSUME PositionsAssumption ==
    /\ MaxQuantity \in Nat \ {0}
    /\ CloseInput \subseteq (-MaxQuantity)..MaxQuantity
    /\ Triggers \subseteq BOOLEAN
    /\ IsFiniteSet(TradeId)
    /\ None \notin TradeDoc \cup PositionDoc \cup TradeId \cup PositionId
                    \cup [side : Side, quantity : Nat]

VARIABLES
    trades,     \* the trades collection, executed trades only
    positions,  \* the positions collection
    handlers,   \* where each request in progress is and what it has read
    failed      \* history: the trades whose request ended with an error

vars == <<trades, positions, handlers, failed>>

Stage == {"idle", "updatePosition", "save", "create",
          "close", "closingTrade", "closingSave", "slTp"}

HandlerState ==
    [at : Stage,                         \* the database call it makes next
     trade : TradeId \cup {None},        \* the trade it has saved
     position : PositionId \cup {None},  \* the position it works on
     read : PositionDoc \cup {None},     \* that position as it was read
     todo : SUBSET PositionId,           \* positions it has yet to close
     quantity : Int,                     \* the quantity it is to close ...
     text : BOOLEAN,                     \* ... and whether it came as a string
     triggered : BOOLEAN]                \* the stop/target state it carries

Idle == [at |-> "idle", trade |-> None, position |-> None, read |-> None,
         todo |-> {}, quantity |-> 0, text |-> FALSE, triggered |-> FALSE]

TypeOK ==
    /\ trades \in [TradeId -> TradeDoc \cup {None}]
    /\ positions \in [PositionId -> PositionDoc \cup {None}]
    /\ handlers \in [Handler -> HandlerState]
    /\ failed \subseteq TradeId

Init ==
    /\ trades = [t \in TradeId |-> None]
    /\ positions = [p \in PositionId |-> None]
    /\ handlers = [h \in Handler |-> Idle]
    /\ failed = {}

-----------------------------------------------------------------------------
(* Documents                                                               *)

Opposite(side) == IF side = "Buy" THEN "Sell" ELSE "Buy"

Stored == {p \in PositionId : positions[p] # None}

Open == {p \in Stored : positions[p].isOpen}

IndexKey(doc) == <<doc.userId, doc.symbol, doc.isOpen>>

\* Slip: the index is not unique.
DuplicateNever(p, doc) == FALSE

\* The unique index refuses doc as the document of p.
Duplicate(p, doc) ==
    \E q \in Stored \ {p} : IndexKey(positions[q]) = IndexKey(doc)

\* Slip: an order on the other side never closes the position.
AfterTradeNet(doc, trade) ==
    IF doc.tradeType = trade.tradeType
    THEN [doc EXCEPT !.quantity = @ + trade.quantity]
    ELSE [doc EXCEPT !.quantity = @ - trade.quantity]

\* Slip: the order's side is not looked at.
AfterTradeAnySide(doc, trade) == [doc EXCEPT !.quantity = @ + trade.quantity]

\* updatePosition: the document in memory after a trade on an open position.
AfterTrade(doc, trade) ==
    IF doc.tradeType = trade.tradeType
    THEN [doc EXCEPT !.quantity = @ + trade.quantity]
    ELSE IF trade.quantity >= doc.quantity
         THEN [doc EXCEPT !.isOpen = FALSE]
         ELSE [doc EXCEPT !.quantity = @ - trade.quantity]

\* The quantity to close is === the position's.
ClosesWhole(doc, n, text) == n = doc.quantity /\ ~text

\* Slip: a partial close closes the position.
AfterCloseWhole(doc, n, text) == [doc EXCEPT !.isOpen = FALSE]

\* Slip: a partial close leaves the quantity as it is.
AfterCloseKeeps(doc, n, text) ==
    IF ClosesWhole(doc, n, text) THEN [doc EXCEPT !.isOpen = FALSE] ELSE doc

\* closePosition: the document in memory after closing n of it.  A negative n
\* adds to it, and a string that reads like its quantity leaves it open, at 0.
AfterClose(doc, n, text) ==
    IF ClosesWhole(doc, n, text) THEN [doc EXCEPT !.isOpen = FALSE]
                                 ELSE [doc EXCEPT !.quantity = @ - n]

\* save(): the stored document takes the fields that differ between the
\* document as read and as changed, and the pushed trade.
Merge(stored, read, changed, t) ==
    [stored EXCEPT
        !.quantity = IF changed.quantity # read.quantity
                     THEN changed.quantity ELSE @,
        !.isOpen = IF changed.isOpen # read.isOpen THEN changed.isOpen ELSE @,
        !.relatedTrades = @ \cup {t}]

-----------------------------------------------------------------------------
(* Handlers                                                                *)

Goto(h, state) == handlers' = [handlers EXCEPT ![h] = state]

\* The request ends with an error; what it saved stays saved.
Fail(h) ==
    /\ Goto(h, Idle)
    /\ failed' = failed \cup ({handlers[h].trade} \ {None})
    /\ UNCHANGED <<trades, positions>>

\* trade.save() under a fresh id; the handler goes on in the state then.
SaveTrade(h, doc, then) ==
    \E t \in TradeId :
        /\ trades[t] = None
        /\ trades' = [trades EXCEPT ![t] = doc]
        /\ Goto(h, [then EXCEPT !.trade = t])
        /\ UNCHANGED <<positions, failed>>

\* Slip: the document stored is replaced by the one in memory.
SavePositionReplaces(h, changed) ==
    /\ positions' = [positions EXCEPT ![handlers[h].position] =
                        [changed EXCEPT !.relatedTrades = @ \cup {handlers[h].trade}]]
    /\ Goto(h, IF handlers[h].todo = {}
               THEN Idle
               ELSE [Idle EXCEPT !.at = "close", !.todo = handlers[h].todo])
    /\ UNCHANGED <<trades, failed>>

\* position.save() of the document the handler has changed in memory.
SavePosition(h, changed) ==
    LET p == handlers[h].position
        doc == Merge(positions[p], handlers[h].read, changed,
                     handlers[h].trade)
        rest == handlers[h].todo
    IN  IF Duplicate(p, doc)
        THEN Fail(h)
        ELSE /\ positions' = [positions EXCEPT ![p] = doc]
             /\ Goto(h, IF rest = {}
                        THEN Idle
                        ELSE [Idle EXCEPT !.at = "close", !.todo = rest])
             /\ UNCHANGED <<trades, failed>>

-----------------------------------------------------------------------------
(* OrdersService: a market order                                           *)

\* placeOrder and executeMarketOrder up to trade.save().  A stop loss that
\* would trigger at once is refused, a take profit is not.
PlaceMarketOrder(h, u, s, side, n, triggered) ==
    /\ handlers[h].at = "idle"
    /\ n > 0
    /\ SaveTrade(h, [userId |-> u, symbol |-> s, tradeType |-> side,
                     quantity |-> n, closing |-> FALSE],
                 [Idle EXCEPT !.at = "updatePosition",
                              !.triggered = triggered])

\* Slip: updatePosition does not filter by symbol.
FindAnyPosition(h) ==
    /\ handlers[h].at = "updatePosition"
    /\ \/ /\ Open = {}
          /\ Goto(h, [handlers[h] EXCEPT !.at = "create"])
       \/ \E p \in Open :
            Goto(h, [handlers[h] EXCEPT !.at = "save", !.position = p,
                                        !.read = positions[p]])
    /\ UNCHANGED <<trades, positions, failed>>

\* updatePosition looks for the open position of the trade's user and symbol.
FindOpenPosition(h) ==
    LET trade == trades[handlers[h].trade]
        found == {p \in Open : /\ positions[p].userId = trade.userId
                               /\ positions[p].symbol = trade.symbol}
    IN  /\ handlers[h].at = "updatePosition"
        /\ \/ /\ found = {}
              /\ Goto(h, [handlers[h] EXCEPT !.at = "create"])
           \/ \E p \in found :
                Goto(h, [handlers[h] EXCEPT !.at = "save", !.position = p,
                                            !.read = positions[p]])
        /\ UNCHANGED <<trades, positions, failed>>

\* updatePosition saves the position it found.
SaveFoundPosition(h) ==
    /\ handlers[h].at = "save"
    /\ SavePosition(h, AfterTrade(handlers[h].read, trades[handlers[h].trade]))

\* Slip: an error of the insertion is swallowed.
CreatePositionQuietly(h) ==
    LET t == handlers[h].trade
        doc == [userId |-> trades[t].userId, symbol |-> trades[t].symbol,
                tradeType |-> trades[t].tradeType,
                quantity |-> trades[t].quantity, isOpen |-> TRUE,
                triggered |-> handlers[h].triggered, relatedTrades |-> {t}]
    IN  /\ handlers[h].at = "create"
        /\ \E p \in PositionId \ Stored :
              positions' = IF Duplicate(p, doc) THEN positions
                           ELSE [positions EXCEPT ![p] = doc]
        /\ Goto(h, Idle)
        /\ UNCHANGED <<trades, failed>>

\* updatePosition found none and saves a new one.
CreatePosition(h) ==
    LET t == handlers[h].trade
        doc == [userId |-> trades[t].userId, symbol |-> trades[t].symbol,
                tradeType |-> trades[t].tradeType,
                quantity |-> trades[t].quantity, isOpen |-> TRUE,
                triggered |-> handlers[h].triggered, relatedTrades |-> {t}]
    IN  /\ handlers[h].at = "create"
        /\ \E p \in PositionId \ Stored :
              IF Duplicate(p, doc)
              THEN Fail(h)
              ELSE /\ positions' = [positions EXCEPT ![p] = doc]
                   /\ Goto(h, Idle)
                   /\ UNCHANGED <<trades, failed>>

-----------------------------------------------------------------------------
(* PositionsService                                                        *)

StartClosing(h, todo, n, text) ==
    /\ handlers[h].at = "idle"
    /\ todo # {}
    /\ Goto(h, [Idle EXCEPT !.at = "close", !.todo = todo, !.quantity = n,
                            !.text = text])
    /\ UNCHANGED <<trades, positions, failed>>

\* POST positions/:id/close, of a position its user can name.  The body has no
\* DTO, so nothing validates it: a quantity of 0 is as good as none, it may be
\* negative or a string.  One that is no number fails with the trade: Abort.
RequestClose(h, p, n, text) == p \in Stored /\ StartClosing(h, {p}, n, text)

\* closeAllPositions reads the open positions, then closes each in turn.
RequestCloseAll(h, u) ==
    StartClosing(h, {p \in Open : positions[p].userId = u}, 0, FALSE)

\* updatePositionPrices reads the open positions and closes the triggered
\* ones; on the others it saves prices only (of one of quantity 0 that fails,
\* as in SaveClosedPosition, and ends the sweep: Abort).
PriceSweep(h) == StartClosing(h, {p \in Open : positions[p].triggered}, 0, FALSE)

\* quantity || position.quantity: the string '0' is not falsy.
CloseQuantity(h, p) ==
    IF handlers[h].quantity = 0 /\ ~handlers[h].text THEN positions[p].quantity
                                                    ELSE handlers[h].quantity

\* Slip: the requested quantity is not checked.
ReadToCloseUnchecked(h) ==
    /\ handlers[h].at = "close"
    /\ \E p \in handlers[h].todo :
          /\ positions[p].isOpen
          /\ Goto(h, [handlers[h] EXCEPT
                          !.at = "closingTrade", !.position = p,
                          !.read = positions[p], !.todo = @ \ {p},
                          !.quantity = CloseQuantity(h, p)])
    /\ UNCHANGED <<trades, positions, failed>>

\* closePosition reads the position and checks it; an error ends the whole
\* request, the closings still to do included.
ReadToClose(h) ==
    /\ handlers[h].at = "close"
    /\ \E p \in handlers[h].todo :
          IF positions[p].isOpen /\ CloseQuantity(h, p) <= positions[p].quantity
          THEN /\ Goto(h, [handlers[h] EXCEPT
                              !.at = "closingTrade", !.position = p,
                              !.read = positions[p], !.todo = @ \ {p},
                              !.quantity = CloseQuantity(h, p)])
               /\ UNCHANGED <<trades, positions, failed>>
          ELSE Fail(h)

\* closePosition saves the executed closing trade ...
SaveClosingTrade(h) ==
    LET read == handlers[h].read
    IN  /\ handlers[h].at = "closingTrade"
        /\ SaveTrade(h, [userId |-> read.userId, symbol |-> read.symbol,
                         tradeType |-> Opposite(read.tradeType),
                         quantity |-> handlers[h].quantity, closing |-> TRUE],
                     [handlers[h] EXCEPT !.at = "closingSave"])

\* ... and then the position.  The percentage of the profit of a position of
\* quantity 0 that is closed whole is 0 / 0: the schema refuses the NaN.
SaveClosedPosition(h) ==
    LET read == handlers[h].read
        n == handlers[h].quantity
        text == handlers[h].text
    IN  /\ handlers[h].at = "closingSave"
        /\ IF read.quantity = 0 /\ ClosesWhole(read, n, text)
           THEN Fail(h)
           ELSE SavePosition(h, AfterClose(read, n, text))

\* updateStopLossTakeProfit reads the position and checks that it is open ...
ReadToSetSlTp(h, p, triggered) ==
    /\ handlers[h].at = "idle"
    /\ p \in Open
    /\ Goto(h, [Idle EXCEPT !.at = "slTp", !.position = p,
                            !.triggered = triggered])
    /\ UNCHANGED <<trades, positions, failed>>

\* ... and updates it by id.
WriteSlTp(h) ==
    /\ handlers[h].at = "slTp"
    /\ positions' = [positions EXCEPT
                        ![handlers[h].position].triggered = handlers[h].triggered]
    /\ Goto(h, Idle)
    /\ UNCHANGED <<trades, failed>>

\* A database call rejects or the process dies: no handler catches errors,
\* and nothing a handler did is undone or resumed.
Abort(h) == handlers[h].at # "idle" /\ Fail(h)

-----------------------------------------------------------------------------
Request(h) ==
    \/ \E u \in User, s \in Symbol, side \in Side, n \in 1..MaxQuantity,
          triggered \in Triggers :
            PlaceMarketOrder(h, u, s, side, n, triggered)
    \/ \E p \in PositionId, n \in CloseInput, text \in BOOLEAN :
            RequestClose(h, p, n, text)
    \/ \E u \in User : RequestCloseAll(h, u)
    \/ PriceSweep(h)
    \/ \E p \in PositionId, triggered \in Triggers :
            ReadToSetSlTp(h, p, triggered)

Continue(h) ==
    \/ FindOpenPosition(h)
    \/ SaveFoundPosition(h)
    \/ CreatePosition(h)
    \/ ReadToClose(h)
    \/ SaveClosingTrade(h)
    \/ SaveClosedPosition(h)
    \/ WriteSlTp(h)

Next == \E h \in Handler : Request(h) \/ Continue(h) \/ Abort(h)

Spec == Init /\ [][Next]_vars

\* The same with no failing database call and no crash.
FaultFreeNext == \E h \in Handler : Request(h) \/ Continue(h)

FaultFreeSpec == Init /\ [][FaultFreeNext]_vars

-----------------------------------------------------------------------------
(* Properties under any interleaving and any failure                       *)

Attached == UNION {positions[p].relatedTrades : p \in Stored}

InProgress == {handlers[h].trade : h \in Handler} \ {None}

\* The collection holds at most one open position per user and symbol, even
\* when several orders find none and create one (updatePosition,
\* orders.service.ts:289-340): what getAllPositions and the sweep rely on.
OneOpenPosition ==
    \A p, q \in Open :
        /\ positions[p].userId = positions[q].userId
        /\ positions[p].symbol = positions[q].symbol
        => p = q

\* A position belongs to the trades behind it: every related trade is stored,
\* of the position's user and symbol, and behind no other position; and a
\* position is closed only by a trade on the other side.  It relates the two
\* collections, which no transaction keeps in step.
TradesMatchPosition ==
    \A p \in Stored :
        /\ \A t \in positions[p].relatedTrades :
              /\ trades[t] # None
              /\ trades[t].userId = positions[p].userId
              /\ trades[t].symbol = positions[p].symbol
              /\ \A q \in Stored \ {p} : t \notin positions[q].relatedTrades
        /\ \/ positions[p].isOpen
           \/ \E t \in positions[p].relatedTrades :
                 trades[t].tradeType # positions[p].tradeType

\* An executed trade that is behind no position is one whose request is still
\* in progress or has ended with an error: a request that reports success has
\* applied its trade, whatever other requests saved in the meantime.
NoSilentOrphan ==
    \A t \in TradeId :
        trades[t] # None => t \in Attached \cup InProgress \cup failed

\* No save of a stale document reopens a position that another request has
\* closed, or drops a trade that another request has pushed.
SavesKeepOthersWork ==
    [][\A p \in Stored :
          /\ ~positions[p].isOpen => ~positions'[p].isOpen
          /\ positions[p].relatedTrades \subseteq positions'[p].relatedTrades]_vars

Executed == {t \in TradeId : trades[t] # None}

SizeOf ==
    [t \in Executed |->
        IF trades[t].quantity < 0 THEN -trades[t].quantity ELSE trades[t].quantity]

Total(S) == SumOver(SizeOf, S)

\* The trades that add to a position: those on its side, and closings of a
\* negative quantity.
Adding(p) ==
    {t \in positions[p].relatedTrades :
        trades[t].tradeType = positions[p].tradeType \/ trades[t].quantity < 0}

Taking(p) == positions[p].relatedTrades \ Adding(p)

\* A position never holds more than was traded onto it, although a save writes
\* a quantity computed from a document read before others were saved, and may
\* so undo what they took off (updatePosition, closePosition).
NoMoreThanTraded ==
    \A p \in Stored : positions[p].quantity <= Total(Adding(p))

-----------------------------------------------------------------------------
(* Properties of requests that do not overlap                              *)

\* The quantity of an open position is what its trades add up to: those that
\* add to it less those that take from it (orders.service.ts:297-314).
OpenQuantityIsNet ==
    \A p \in Open : positions[p].quantity = Total(Adding(p)) - Total(Taking(p))

\* closePosition never closes more than was traded onto the position: its
\* check 'Close quantity exceeds position quantity' (positions.service.ts:56).
ClosingsWithinPosition ==
    \A p \in Stored :
        Total({t \in Taking(p) : trades[t].closing}) <= Total(Adding(p))

\* The position book: per user and symbol, the open position.
Flat == None

Book ==
    [k \in User \X Symbol |->
        LET open == {p \in Open : <<positions[p].userId,
                                    positions[p].symbol>> = k}
        IN  IF open = {} THEN Flat
            ELSE LET p == CHOOSE p \in open : TRUE
                 IN  [side |-> positions[p].tradeType,
                      quantity |-> positions[p].quantity]]

\* The trades behind positions, with the side and quantity each executed with.
Applied ==
    [t \in TradeId |->
        IF t \in Attached
        THEN [side |-> trades[t].tradeType, quantity |-> trades[t].quantity]
        ELSE Flat]

Account == INSTANCE PositionBook WITH book <- Book, applied <- Applied

\* Requests that do not overlap implement the book: every step is one trade
\* taking effect once and whole, or changes nothing; a request that fails
\* half-way has had its effect or none.
ImplementsBook == Account!Spec

\* An executed order always reaches the position: 'Update position and user
\* balance' follows 'Execute order' (SERVICE_SPEC.md).
ExecutedTradeReachesPosition ==
    \A t \in TradeId : trades[t] # None => t \in Attached \cup InProgress
=============================================================================
