-------------------------- MODULE Positions_proofs --------------------------
(***************************************************************************)
(* Proofs about Positions, for any users, symbols, ids, handlers and       *)
(* quantities: whatever requests overlap and wherever they fail.           *)
(***************************************************************************)
EXTENDS MCPositions, Counting_proofs, TLAPS

(***************************************************************************)
(* The inductive invariant.  What makes it inductive is Handlers: what a   *)
(* request that is in progress may still rely on, although the position it *)
(* read may have changed since.                                            *)
(***************************************************************************)

\* No two stored positions share a value of the unique index.
IndexUnique ==
    \A p, q \in Stored : IndexKey(positions[p]) = IndexKey(positions[q]) => p = q

HoldsTrade == {"updatePosition", "create", "save", "closingSave"}

HoldsPosition == {"save", "closingTrade", "closingSave"}

\* The trade a handler has saved is stored, is its own and is not attached.
TradeHeld(h) ==
    LET t == handlers[h].trade
    IN  IF handlers[h].at \in HoldsTrade
        THEN /\ t \in TradeId
             /\ trades[t] # None
             /\ \A p \in Stored : t \notin positions[p].relatedTrades
             /\ \A g \in Handler \ {h} : handlers[g].trade # t
        ELSE t = None

\* The position a handler has read is stored, and still has the owner, the
\* symbol and the side that were read.
PositionHeld(h) ==
    LET p == handlers[h].position
        read == handlers[h].read
    IN  handlers[h].at \in HoldsPosition =>
            /\ p \in Stored
            /\ read \in PositionDoc
            /\ read.isOpen
            /\ positions[p].userId = read.userId
            /\ positions[p].symbol = read.symbol
            /\ positions[p].tradeType = read.tradeType

\* The trade a handler is about to attach: an order is of at least one, and a
\* closing of at most the quantity that was read.
TradeFits(h) ==
    LET read == handlers[h].read
        trade == trades[handlers[h].trade]
    IN  /\ handlers[h].at \in {"save", "closingSave"} =>
              /\ trade.userId = read.userId
              /\ trade.symbol = read.symbol
        /\ handlers[h].at = "closingSave" =>
              trade.tradeType = Opposite(read.tradeType)
        /\ handlers[h].at \in {"updatePosition", "create", "save"} =>
              trade.quantity \in Nat \ {0} /\ ~trade.closing
        /\ handlers[h].at = "closingSave" =>
              trade.quantity = handlers[h].quantity /\ trade.closing
        /\ handlers[h].at \in {"closingTrade", "closingSave"} =>
              handlers[h].quantity \in Int /\ handlers[h].quantity <= read.quantity

WorkStored(h) ==
    /\ handlers[h].todo \subseteq Stored
    /\ handlers[h].at = "slTp" => handlers[h].position \in Stored

Handlers ==
    \A h \in Handler :
        TradeHeld(h) /\ PositionHeld(h) /\ TradeFits(h) /\ WorkStored(h)

IInv == /\ TypeOK
        /\ IndexUnique
        /\ Handlers
        /\ TradesMatchPosition
        /\ NoSilentOrphan

-----------------------------------------------------------------------------
LEMMA IdleState ==
    Idle \in HandlerState /\ Idle.at = "idle" /\ Idle.trade = None /\ Idle.todo = {}
  BY DEF Idle, HandlerState, Stage

LEMMA InitIInv == Init => IInv
<1>1. Idle \in HandlerState
  BY IdleState
<1>2. SUFFICES ASSUME Init PROVE IInv
  OBVIOUS
<1>3. TypeOK
  BY <1>1, <1>2 DEF Init, TypeOK
<1>4. Stored = {}
  BY <1>2 DEF Init, Stored
<1>5. Handlers
  BY <1>2, <1>4 DEF Init, Handlers, TradeHeld, PositionHeld, TradeFits,
     WorkStored, Idle, HoldsTrade, HoldsPosition
<1>6. NoSilentOrphan
  BY <1>2 DEF Init, NoSilentOrphan
<1>7. QED
  BY <1>3, <1>4, <1>5, <1>6 DEF IInv, IndexUnique, TradesMatchPosition

\* A request that fails leaves the collections alone and its trade on record.
LEMMA FailIInv == ASSUME IInv, NEW h \in Handler, Fail(h) PROVE IInv'
<1>1. Idle \in HandlerState
  BY DEF Idle, HandlerState, Stage
<1>2. TypeOK'
  BY <1>1, PositionsAssumption DEF IInv, TypeOK, Fail, Goto, HandlerState
<1>3. Handlers'
  BY PositionsAssumption DEF IInv, TypeOK, Fail, Goto, Handlers, TradeHeld, PositionHeld, TradeFits,
     WorkStored, Idle, HoldsTrade, HoldsPosition, Stored
<1>4. NoSilentOrphan'
  BY DEF IInv, TypeOK, Fail, Goto, NoSilentOrphan, Attached, InProgress, Stored
<1>5. QED
  BY <1>2, <1>3, <1>4 DEF IInv, IndexUnique, TradesMatchPosition, Fail, Stored

-----------------------------------------------------------------------------
(* Steps that change no collection: a handler starts or reads.             *)

\* Such a step keeps the invariant when what the handler now holds is right
\* and it has neither dropped nor taken a trade.
LEMMA ReadIInv ==
    ASSUME IInv, NEW h \in Handler, NEW state \in HandlerState,
           Goto(h, state), UNCHANGED <<trades, positions, failed>>,
           state.trade = handlers[h].trade,
           TradeHeld(h)', PositionHeld(h)', TradeFits(h)', WorkStored(h)'
    PROVE  IInv'
<1>1. TypeOK'
  BY DEF IInv, TypeOK, Goto
<1>2. \A g \in Handler : handlers'[g].trade = handlers[g].trade
  BY DEF IInv, TypeOK, Goto
<1>3. ASSUME NEW g \in Handler
      PROVE  (TradeHeld(g) /\ PositionHeld(g) /\ TradeFits(g) /\ WorkStored(g))'
  <2>1. CASE g = h
    BY <2>1
  <2>2. CASE g # h
    <3>1. handlers'[g] = handlers[g]
      BY <2>2 DEF IInv, TypeOK, Goto
    <3>2. QED
      BY <1>2, <3>1 DEF IInv, Handlers, TradeHeld, PositionHeld, TradeFits,
         WorkStored, Stored
  <2>3. QED
    BY <2>1, <2>2
<1>4. NoSilentOrphan'
  BY <1>2 DEF IInv, NoSilentOrphan, Attached, InProgress, Stored
<1>5. QED
  BY <1>1, <1>3, <1>4 DEF IInv, Handlers, IndexUnique, TradesMatchPosition, Stored

LEMMA StartClosingIInv ==
    ASSUME IInv, NEW h \in Handler, NEW todo \in SUBSET Stored, NEW n \in Int,
           NEW text \in BOOLEAN, StartClosing(h, todo, n, text)
    PROVE  IInv'
<1>1. [Idle EXCEPT !.at = "close", !.todo = todo, !.quantity = n, !.text = text]
            \in HandlerState
  BY DEF Idle, HandlerState, Stage, Stored
<1>2. handlers[h].trade = None
  BY DEF IInv, Handlers, TradeHeld, HoldsTrade, StartClosing
<1>3. (TradeHeld(h) /\ PositionHeld(h) /\ TradeFits(h) /\ WorkStored(h))'
  BY DEF StartClosing, Goto, Idle, TradeHeld, PositionHeld, TradeFits, WorkStored,
     HoldsTrade, HoldsPosition, IInv, TypeOK, Stored
<1>4. QED
  BY <1>1, <1>2, <1>3, ReadIInv DEF StartClosing, Idle

LEMMA ReadToSetSlTpIInv ==
    ASSUME IInv, NEW h \in Handler, NEW p \in PositionId, NEW b \in Triggers,
           ReadToSetSlTp(h, p, b)
    PROVE  IInv'
<1>1. [Idle EXCEPT !.at = "slTp", !.position = p, !.triggered = b] \in HandlerState
  BY IdleState, PositionsAssumption DEF HandlerState, Stage
<1>2. handlers[h].trade = None
  BY DEF IInv, Handlers, TradeHeld, HoldsTrade, ReadToSetSlTp
<1>3. (TradeHeld(h) /\ PositionHeld(h) /\ TradeFits(h) /\ WorkStored(h))'
  BY DEF ReadToSetSlTp, Goto, Idle, TradeHeld, PositionHeld, TradeFits, WorkStored,
     HoldsTrade, HoldsPosition, IInv, TypeOK, Stored, Open
<1>4. QED
  BY <1>1, <1>2, <1>3, ReadIInv DEF ReadToSetSlTp, Idle

LEMMA FindOpenPositionIInv ==
    ASSUME IInv, NEW h \in Handler, FindOpenPosition(h) PROVE IInv'
<1> DEFINE trade == trades[handlers[h].trade]
<1> DEFINE found == {p \in Open : /\ positions[p].userId = trade.userId
                                  /\ positions[p].symbol = trade.symbol}
<1>1. handlers[h].at = "updatePosition" /\ UNCHANGED <<trades, positions, failed>>
  BY DEF FindOpenPosition
<1>2. handlers[h] \in HandlerState
  BY DEF IInv, TypeOK
<1>3. CASE Goto(h, [handlers[h] EXCEPT !.at = "create"])
  <2>1. [handlers[h] EXCEPT !.at = "create"] \in HandlerState
    BY <1>2 DEF HandlerState, Stage
  <2>2. (TradeHeld(h) /\ PositionHeld(h) /\ TradeFits(h) /\ WorkStored(h))'
    BY <1>1, <1>2, <1>3 DEF Goto, TradeHeld, PositionHeld, TradeFits, WorkStored,
       HoldsTrade, HoldsPosition, IInv, Handlers, TypeOK, Stored, HandlerState
  <2>3. QED
    BY <1>1, <1>2, <1>3, <2>1, <2>2, ReadIInv DEF HandlerState
<1>4. ASSUME NEW p \in found,
             Goto(h, [handlers[h] EXCEPT !.at = "save", !.position = p,
                                         !.read = positions[p]])
      PROVE  IInv'
  <2> DEFINE state == [handlers[h] EXCEPT !.at = "save", !.position = p,
                                          !.read = positions[p]]
  <2>1. /\ p \in PositionId /\ p \in Stored
        /\ positions[p] \in PositionDoc /\ positions[p].isOpen
    BY <1>4 DEF IInv, TypeOK, Open, Stored
  <2>2. state \in HandlerState
    BY <1>2, <2>1 DEF HandlerState, Stage
  <2>3. (TradeHeld(h) /\ PositionHeld(h) /\ TradeFits(h) /\ WorkStored(h))'
    BY <1>1, <1>2, <1>4, <2>1 DEF Goto, TradeHeld, PositionHeld, TradeFits,
       WorkStored, HoldsTrade, HoldsPosition, IInv, Handlers, TypeOK, Stored,
       HandlerState
  <2>4. QED
    BY <1>1, <1>2, <1>4, <2>2, <2>3, ReadIInv DEF HandlerState
<1>5. QED
  BY <1>3, <1>4 DEF FindOpenPosition

LEMMA ReadToCloseIInv ==
    ASSUME IInv, NEW h \in Handler, ReadToClose(h) PROVE IInv'
<1>1. PICK p \in handlers[h].todo :
          IF positions[p].isOpen /\ CloseQuantity(h, p) <= positions[p].quantity
          THEN /\ Goto(h, [handlers[h] EXCEPT
                              !.at = "closingTrade", !.position = p,
                              !.read = positions[p], !.todo = @ \ {p},
                              !.quantity = CloseQuantity(h, p)])
               /\ UNCHANGED <<trades, positions, failed>>
          ELSE Fail(h)
  BY DEF ReadToClose
<1>2. handlers[h] \in HandlerState /\ handlers[h].at = "close"
  BY DEF IInv, TypeOK, ReadToClose
<1>3. p \in PositionId /\ p \in Stored /\ positions[p] \in PositionDoc
  BY DEF IInv, TypeOK, Handlers, WorkStored, Stored
<1>4. CASE Fail(h)
  BY <1>4, FailIInv
<1>5. CASE ~Fail(h)
  <2> DEFINE n == CloseQuantity(h, p)
  <2> DEFINE state == [handlers[h] EXCEPT
                          !.at = "closingTrade", !.position = p,
                          !.read = positions[p], !.todo = @ \ {p},
                          !.quantity = n]
  <2>1. /\ positions[p].isOpen /\ n <= positions[p].quantity
        /\ Goto(h, state) /\ UNCHANGED <<trades, positions, failed>>
    BY <1>1, <1>5
  <2>2. n \in Int
    BY <1>2, <1>3 DEF CloseQuantity, HandlerState, PositionDoc
  <2> HIDE DEF n
  <2>3. state \in HandlerState
    BY <1>2, <1>3, <2>2 DEF HandlerState, Stage
  <2>4. (TradeHeld(h) /\ PositionHeld(h) /\ TradeFits(h) /\ WorkStored(h))'
    BY <1>2, <1>3, <2>1, <2>2 DEF Goto, TradeHeld, PositionHeld, TradeFits,
       WorkStored, HoldsTrade, HoldsPosition, IInv, Handlers, TypeOK, Stored,
       HandlerState
  <2>5. QED
    BY <1>2, <2>1, <2>3, <2>4, ReadIInv DEF HandlerState
<1>6. QED
  BY <1>4, <1>5

-----------------------------------------------------------------------------
(* Steps that save a trade.                                                *)

LEMMA SaveTradeIInv ==
    ASSUME IInv, NEW h \in Handler, NEW doc \in TradeDoc,
           NEW then \in HandlerState,
           handlers[h].at \notin HoldsTrade,
           then.at \in HoldsTrade,
           SaveTrade(h, doc, then),
           then.todo \subseteq Stored,
           \/ /\ then.at = "updatePosition"
              /\ doc.quantity \in Nat \ {0} /\ ~doc.closing
           \/ /\ then.at = "closingSave"
              /\ then = [handlers[h] EXCEPT !.at = "closingSave"]
              /\ handlers[h].at = "closingTrade"
              /\ doc.userId = then.read.userId
              /\ doc.symbol = then.read.symbol
              /\ doc.tradeType = Opposite(then.read.tradeType)
              /\ doc.quantity = then.quantity /\ doc.closing
    PROVE  IInv'
<1>1. PICK t \in TradeId :
          /\ trades[t] = None
          /\ trades' = [trades EXCEPT ![t] = doc]
          /\ Goto(h, [then EXCEPT !.trade = t])
          /\ UNCHANGED <<positions, failed>>
  BY DEF SaveTrade
<1> DEFINE state == [then EXCEPT !.trade = t]
<1>2. /\ doc # None /\ t # None
      /\ state \in HandlerState
      /\ handlers' = [handlers EXCEPT ![h] = state]
      /\ handlers[h].trade = None
  BY <1>1, PositionsAssumption DEF HandlerState, Goto, IInv, Handlers, TradeHeld
<1>3. TypeOK'
  BY <1>1, <1>2 DEF IInv, TypeOK
<1>4. \A p \in Stored : t \notin positions[p].relatedTrades
  BY <1>1 DEF IInv, TradesMatchPosition
<1>5. \A g \in Handler : handlers[g].trade # t
  BY <1>1, <1>2 DEF IInv, Handlers, TradeHeld
<1>6. ASSUME NEW g \in Handler
      PROVE  (TradeHeld(g) /\ PositionHeld(g) /\ TradeFits(g) /\ WorkStored(g))'
  <2>1. CASE g = h
    <3>1. handlers'[g] = state /\ state.trade = t /\ trades'[t] = doc
      BY <1>1, <1>2, <2>1 DEF IInv, TypeOK, HandlerState
    <3>2. TradeHeld(g)'
      BY <1>1, <1>2, <1>4, <1>5, <2>1, <3>1 DEF TradeHeld, IInv, TypeOK, Stored,
         HandlerState
    <3>3. PositionHeld(g)' /\ TradeFits(g)' /\ WorkStored(g)'
      BY <1>1, <1>2, <2>1, <3>1 DEF PositionHeld, TradeFits, WorkStored,
         HoldsPosition, HoldsTrade, IInv, Handlers, Stored, HandlerState, TypeOK
    <3>4. QED
      BY <3>2, <3>3
  <2>2. CASE g # h
    <3>1. handlers'[g] = handlers[g]
      BY <1>2, <2>2 DEF IInv, TypeOK
    <3>2. handlers[g].trade # None => trades'[handlers[g].trade] = trades[handlers[g].trade]
      BY <1>1, <1>5 DEF IInv, TypeOK
    <3>3. TradeHeld(g)'
      BY <1>1, <1>2, <1>5, <2>2, <3>1, <3>2 DEF TradeHeld, IInv, Handlers, TypeOK,
         Stored, HandlerState
    <3>4. PositionHeld(g)' /\ TradeFits(g)' /\ WorkStored(g)'
      BY <1>1, <3>1, <3>2, PositionsAssumption DEF PositionHeld, TradeFits,
         WorkStored, IInv, Handlers, Stored, TradeHeld, HoldsTrade
    <3>5. QED
      BY <3>3, <3>4
  <2>3. QED
    BY <2>1, <2>2
<1>7. TradesMatchPosition'
  BY <1>1, <1>2, <1>4 DEF IInv, TypeOK, TradesMatchPosition, Stored
<1>8. NoSilentOrphan'
  <2> SUFFICES ASSUME NEW s \in TradeId, trades'[s] # None
               PROVE  s \in (Attached \cup InProgress \cup failed)'
    BY DEF NoSilentOrphan
  <2>1. CASE s = t
    BY <1>2, <2>1 DEF InProgress, IInv, TypeOK, HandlerState
  <2>2. CASE s # t
    <3>1. s \in Attached \cup InProgress \cup failed
      BY <1>1, <2>2 DEF IInv, TypeOK, NoSilentOrphan
    <3>2. s \in InProgress => s \in InProgress'
      BY <1>2 DEF IInv, TypeOK, InProgress
    <3>3. QED
      BY <1>1, <3>1, <3>2 DEF Attached, Stored
  <2>3. QED
    BY <2>1, <2>2
<1>9. IndexUnique'
  BY <1>1 DEF IInv, IndexUnique, Stored, IndexKey
<1>10. QED
  BY <1>3, <1>6, <1>7, <1>8, <1>9 DEF IInv, Handlers

LEMMA PlaceMarketOrderIInv ==
    ASSUME IInv, NEW h \in Handler, NEW u \in User, NEW s \in Symbol,
           NEW side \in Side, NEW n \in 1..MaxQuantity, NEW b \in Triggers,
           PlaceMarketOrder(h, u, s, side, n, b)
    PROVE  IInv'
<1> DEFINE doc == [userId |-> u, symbol |-> s, tradeType |-> side,
                   quantity |-> n, closing |-> FALSE]
<1> DEFINE then == [Idle EXCEPT !.at = "updatePosition", !.triggered = b]
<1>1. doc \in TradeDoc /\ doc.quantity \in Nat \ {0} /\ ~doc.closing
  BY PositionsAssumption DEF TradeDoc
<1>2. then \in HandlerState /\ then.at = "updatePosition" /\ then.todo = {}
  BY IdleState, PositionsAssumption DEF HandlerState, Stage
<1>3. handlers[h].at \notin HoldsTrade /\ SaveTrade(h, doc, then)
  BY DEF PlaceMarketOrder, HoldsTrade
<1> HIDE DEF doc, then
<1>4. QED
  BY <1>1, <1>2, <1>3, SaveTradeIInv DEF HoldsTrade

LEMMA SaveClosingTradeIInv ==
    ASSUME IInv, NEW h \in Handler, SaveClosingTrade(h) PROVE IInv'
<1> DEFINE read == handlers[h].read
<1> DEFINE doc == [userId |-> read.userId, symbol |-> read.symbol,
                   tradeType |-> Opposite(read.tradeType),
                   quantity |-> handlers[h].quantity, closing |-> TRUE]
<1> DEFINE then == [handlers[h] EXCEPT !.at = "closingSave"]
<1>1. /\ handlers[h] \in HandlerState /\ handlers[h].at = "closingTrade"
      /\ read \in PositionDoc /\ handlers[h].quantity \in Int
      /\ handlers[h].todo \subseteq Stored
  BY DEF IInv, TypeOK, Handlers, PositionHeld, TradeFits, WorkStored,
     HoldsPosition, SaveClosingTrade
<1>2. /\ doc \in TradeDoc /\ doc.quantity = handlers[h].quantity
      /\ doc.closing
  BY <1>1 DEF TradeDoc, PositionDoc, Opposite, Side
<1>3. /\ then \in HandlerState /\ then.at = "closingSave"
      /\ then.todo = handlers[h].todo /\ then.read = read
      /\ then.quantity = handlers[h].quantity
  BY <1>1 DEF HandlerState, Stage
<1>4. SaveTrade(h, doc, then)
  BY DEF SaveClosingTrade
<1>5. QED
  BY <1>1, <1>2, <1>3, <1>4, SaveTradeIInv DEF HoldsTrade

-----------------------------------------------------------------------------
(* Steps that save a position and attach the handler's trade to it.        *)

\* The document saved may be out of date in its quantity and in whether it is
\* open; what the invariant needs of it is its owner, its symbol, its side,
\* its trades and its place in the index.
LEMMA AttachIInv ==
    ASSUME IInv, NEW h \in Handler, NEW p \in PositionId, NEW doc \in PositionDoc,
           NEW state \in HandlerState,
           handlers[h].at \in HoldsTrade,
           ~Duplicate(p, doc),
           positions' = [positions EXCEPT ![p] = doc],
           Goto(h, state),
           UNCHANGED <<trades, failed>>,
           state.at \in {"idle", "close"},
           state.trade = None,
           state.todo \subseteq Stored,
           p \in Stored => /\ doc.userId = positions[p].userId
                           /\ doc.symbol = positions[p].symbol
                           /\ doc.tradeType = positions[p].tradeType,
           doc.relatedTrades = {handlers[h].trade} \cup
                IF p \in Stored THEN positions[p].relatedTrades ELSE {},
           trades[handlers[h].trade].userId = doc.userId,
           trades[handlers[h].trade].symbol = doc.symbol,
           \/ doc.isOpen
           \/ p \in Stored /\ ~positions[p].isOpen
           \/ trades[handlers[h].trade].tradeType # doc.tradeType
    PROVE  IInv'
<1> DEFINE t == handlers[h].trade
<1>1. /\ doc # None
      /\ handlers' = [handlers EXCEPT ![h] = state]
      /\ t \in TradeId /\ t # None /\ trades[t] # None
      /\ \A q \in Stored : t \notin positions[q].relatedTrades
      /\ \A g \in Handler \ {h} : handlers[g].trade # t
  BY PositionsAssumption DEF Goto, IInv, Handlers, TradeHeld
<1>2. TypeOK'
  BY <1>1 DEF IInv, TypeOK
<1>3. Stored' = Stored \cup {p}
  BY <1>1 DEF Stored, IInv, TypeOK
<1>4. /\ positions'[p] = doc
      /\ \A q \in PositionId \ {p} : positions'[q] = positions[q]
  BY DEF IInv, TypeOK
<1>5. IndexUnique'
  BY <1>3, <1>4 DEF IInv, IndexUnique, Duplicate, IndexKey, Stored
<1>6. TradesMatchPosition'
  <2>1. ASSUME NEW q \in Stored', NEW s \in positions'[q].relatedTrades
        PROVE  /\ trades[s] # None
               /\ trades[s].userId = positions'[q].userId
               /\ trades[s].symbol = positions'[q].symbol
               /\ \A r \in Stored' \ {q} : s \notin positions'[r].relatedTrades
    <3>1. CASE s = t
      BY <1>1, <1>3, <1>4, <2>1, <3>1 DEF Stored
    <3>2. CASE s # t
      BY <1>1, <1>3, <1>4, <2>1, <3>2 DEF IInv, TradesMatchPosition, Stored
    <3>3. QED
      BY <3>1, <3>2
  <2>2. ASSUME NEW q \in Stored', ~positions'[q].isOpen
        PROVE  \E s \in positions'[q].relatedTrades :
                    trades[s].tradeType # positions'[q].tradeType
    BY <1>3, <1>4, <2>2 DEF IInv, TradesMatchPosition, Stored
  <2>3. QED
    BY <2>1, <2>2 DEF TradesMatchPosition
<1>7. ASSUME NEW g \in Handler
      PROVE  (TradeHeld(g) /\ PositionHeld(g) /\ TradeFits(g) /\ WorkStored(g))'
  <2>1. CASE g = h
    BY <1>1, <1>3, <2>1 DEF TradeHeld, PositionHeld, TradeFits, WorkStored,
       HoldsTrade, HoldsPosition, IInv, TypeOK
  <2>2. CASE g # h
    <3>1. handlers'[g] = handlers[g]
      BY <1>1, <2>2 DEF IInv, TypeOK
    <3>2. TradeHeld(g)'
      BY <1>1, <1>3, <1>4, <2>2, <3>1, PositionsAssumption
         DEF TradeHeld, IInv, Handlers, TypeOK, Stored
    <3>3. PositionHeld(g)'
      BY <1>3, <1>4, <3>1 DEF PositionHeld, IInv, Handlers, Stored
    <3>4. TradeFits(g)' /\ WorkStored(g)'
      BY <1>3, <3>1 DEF TradeFits, WorkStored, IInv, Handlers
    <3>5. QED
      BY <3>2, <3>3, <3>4
  <2>3. QED
    BY <2>1, <2>2
<1>8. NoSilentOrphan'
  <2> SUFFICES ASSUME NEW s \in TradeId, trades[s] # None
               PROVE  s \in (Attached \cup InProgress \cup failed)'
    BY DEF NoSilentOrphan
  <2>1. s \in Attached \cup InProgress \cup failed
    BY DEF IInv, NoSilentOrphan
  <2>2. s = t => s \in Attached'
    BY <1>3, <1>4 DEF Attached
  <2>3. s \in Attached => s \in Attached'
    BY <1>3, <1>4 DEF Attached, Stored
  <2>4. s \in InProgress /\ s # t => s \in InProgress'
    BY <1>1 DEF InProgress, IInv, TypeOK
  <2>5. QED
    BY <2>1, <2>2, <2>3, <2>4
<1>9. QED
  BY <1>2, <1>5, <1>6, <1>7, <1>8 DEF IInv, Handlers

\* Both saves of a position that was read: after an order and after a close.
LEMMA SavePositionIInv ==
    ASSUME IInv, NEW h \in Handler, NEW changed \in PositionDoc,
           handlers[h].at \in {"save", "closingSave"},
           SavePosition(h, changed),
           ~changed.isOpen =>
                trades[handlers[h].trade].tradeType # handlers[h].read.tradeType
    PROVE  IInv'
<1> DEFINE p == handlers[h].position
<1> DEFINE t == handlers[h].trade
<1> DEFINE read == handlers[h].read
<1> DEFINE doc == Merge(positions[p], read, changed, t)
<1> DEFINE state == IF handlers[h].todo = {} THEN Idle
                    ELSE [Idle EXCEPT !.at = "close", !.todo = handlers[h].todo]
<1>1. CASE Fail(h)
  BY <1>1, FailIInv
<1>2. CASE ~Fail(h)
  <2>1. /\ ~Duplicate(p, doc)
        /\ positions' = [positions EXCEPT ![p] = doc]
        /\ Goto(h, state)
        /\ UNCHANGED <<trades, failed>>
    BY <1>2 DEF SavePosition
  <2>2. /\ t \in TradeId
        /\ p \in Stored /\ p \in PositionId /\ positions[p] \in PositionDoc
        /\ read \in PositionDoc /\ read.isOpen
        /\ positions[p].userId = read.userId
        /\ positions[p].symbol = read.symbol
        /\ positions[p].tradeType = read.tradeType
        /\ trades[t].userId = read.userId
        /\ trades[t].symbol = read.symbol
    BY DEF IInv, TypeOK, Handlers, TradeHeld, PositionHeld, TradeFits, HoldsTrade,
       HoldsPosition, Stored
  <2>3. /\ doc \in PositionDoc
        /\ doc.userId = positions[p].userId
        /\ doc.symbol = positions[p].symbol
        /\ doc.tradeType = positions[p].tradeType
        /\ doc.relatedTrades = {t} \cup positions[p].relatedTrades
        /\ doc.isOpen \/ ~changed.isOpen \/ ~positions[p].isOpen
    BY <2>2 DEF Merge, PositionDoc
  <2>4. /\ state \in HandlerState /\ state.at \in {"idle", "close"}
        /\ state.trade = None /\ state.todo \subseteq Stored
    BY IdleState DEF HandlerState, Stage, IInv, TypeOK, Handlers, WorkStored, Stored
  <2> HIDE DEF doc, state
  <2>5. handlers[h].at \in HoldsTrade
    BY DEF HoldsTrade
  <2>6. QED
    BY <2>1, <2>2, <2>3, <2>4, <2>5, AttachIInv
<1>3. QED
  BY <1>1, <1>2

LEMMA AfterTradeType ==
    ASSUME NEW doc \in PositionDoc, NEW trade \in TradeDoc,
           trade.quantity \in Nat \ {0}
    PROVE  /\ AfterTrade(doc, trade) \in PositionDoc
           /\ doc.isOpen /\ ~AfterTrade(doc, trade).isOpen =>
                trade.tradeType # doc.tradeType
<1>1. /\ doc.quantity \in Nat
      /\ doc.quantity + trade.quantity \in Nat
      /\ ~(trade.quantity >= doc.quantity) =>
            doc.quantity - trade.quantity \in Nat
  BY DEF PositionDoc
<1>2. CASE doc.tradeType = trade.tradeType
  BY <1>1, <1>2 DEF AfterTrade, PositionDoc
<1>3. CASE doc.tradeType # trade.tradeType /\ trade.quantity >= doc.quantity
  BY <1>3 DEF AfterTrade, PositionDoc
<1>4. CASE doc.tradeType # trade.tradeType /\ ~(trade.quantity >= doc.quantity)
  BY <1>1, <1>4 DEF AfterTrade, PositionDoc
<1>5. QED
  BY <1>2, <1>3, <1>4

LEMMA AfterCloseType ==
    ASSUME NEW doc \in PositionDoc, NEW n \in Int, n <= doc.quantity,
           NEW text \in BOOLEAN
    PROVE  AfterClose(doc, n, text) \in PositionDoc
<1>1. doc.quantity - n \in Nat
  BY DEF PositionDoc
<1>2. QED
  BY <1>1 DEF AfterClose, PositionDoc

LEMMA SaveFoundPositionIInv ==
    ASSUME IInv, NEW h \in Handler, SaveFoundPosition(h) PROVE IInv'
<1>1. /\ handlers[h].at = "save" /\ handlers[h].read \in PositionDoc
      /\ handlers[h].read.isOpen /\ trades[handlers[h].trade] \in TradeDoc
      /\ trades[handlers[h].trade].quantity \in Nat \ {0}
  BY DEF SaveFoundPosition, IInv, TypeOK, Handlers, TradeHeld, PositionHeld,
     TradeFits, HoldsTrade, HoldsPosition
<1>2. QED
  BY <1>1, AfterTradeType, SavePositionIInv DEF SaveFoundPosition

LEMMA SaveClosedPositionIInv ==
    ASSUME IInv, NEW h \in Handler, SaveClosedPosition(h) PROVE IInv'
<1>1. /\ handlers[h].at = "closingSave" /\ handlers[h].read \in PositionDoc
      /\ handlers[h].quantity \in Int
      /\ handlers[h].quantity <= handlers[h].read.quantity
      /\ handlers[h].text \in BOOLEAN
      /\ trades[handlers[h].trade].tradeType = Opposite(handlers[h].read.tradeType)
  BY DEF SaveClosedPosition, IInv, TypeOK, Handlers, TradeFits, PositionHeld,
     HoldsPosition, HandlerState
<1>2. trades[handlers[h].trade].tradeType # handlers[h].read.tradeType
  BY <1>1 DEF PositionDoc, Side, Opposite
<1>3. \/ Fail(h)
      \/ SavePosition(h, AfterClose(handlers[h].read, handlers[h].quantity,
                                    handlers[h].text))
  BY DEF SaveClosedPosition
<1>4. QED
  BY <1>1, <1>2, <1>3, FailIInv, AfterCloseType, SavePositionIInv

LEMMA CreatePositionIInv ==
    ASSUME IInv, NEW h \in Handler, CreatePosition(h) PROVE IInv'
<1> DEFINE t == handlers[h].trade
<1> DEFINE doc == [userId |-> trades[t].userId, symbol |-> trades[t].symbol,
                   tradeType |-> trades[t].tradeType,
                   quantity |-> trades[t].quantity, isOpen |-> TRUE,
                   triggered |-> handlers[h].triggered, relatedTrades |-> {t}]
<1>1. PICK p \in PositionId \ Stored :
          IF Duplicate(p, doc)
          THEN Fail(h)
          ELSE /\ positions' = [positions EXCEPT ![p] = doc]
               /\ Goto(h, Idle)
               /\ UNCHANGED <<trades, failed>>
  BY DEF CreatePosition
<1>2. /\ handlers[h] \in HandlerState /\ handlers[h].at \in HoldsTrade
      /\ t \in TradeId /\ trades[t] \in TradeDoc /\ trades[t].quantity \in Nat
  BY DEF CreatePosition, IInv, TypeOK, Handlers, TradeHeld, TradeFits, HoldsTrade
<1>3. doc \in PositionDoc
  BY <1>2 DEF PositionDoc, TradeDoc, HandlerState
<1>4. Idle \in HandlerState /\ Idle.at = "idle" /\ Idle.trade = None /\ Idle.todo = {}
  BY DEF Idle, HandlerState, Stage
<1>5. CASE Fail(h)
  BY <1>5, FailIInv
<1>6. CASE ~Fail(h)
  BY <1>1, <1>2, <1>3, <1>4, <1>6, AttachIInv
<1>7. QED
  BY <1>5, <1>6

LEMMA WriteSlTpIInv ==
    ASSUME IInv, NEW h \in Handler, WriteSlTp(h) PROVE IInv'
<1> DEFINE p == handlers[h].position
<1> DEFINE doc == [positions[p] EXCEPT !.triggered = handlers[h].triggered]
<1>1. /\ handlers[h] \in HandlerState /\ handlers[h].at = "slTp"
      /\ handlers[h].trade = None
      /\ p \in Stored /\ p \in PositionId /\ positions[p] \in PositionDoc
  BY DEF WriteSlTp, IInv, TypeOK, Handlers, TradeHeld, WorkStored, HoldsTrade, Stored
<1>2. /\ positions' = [positions EXCEPT ![p] = doc]
      /\ handlers' = [handlers EXCEPT ![h] = Idle]
      /\ UNCHANGED <<trades, failed>>
  BY <1>1 DEF WriteSlTp, Goto, IInv, TypeOK
<1>3. /\ doc \in PositionDoc /\ doc # None
      /\ doc = [positions[p] EXCEPT !.triggered = handlers[h].triggered]
  BY <1>1, PositionsAssumption DEF PositionDoc, HandlerState
<1> HIDE DEF doc
<1>4. Idle \in HandlerState
  BY DEF Idle, HandlerState, Stage
<1>5. TypeOK' /\ Stored' = Stored
  BY <1>1, <1>2, <1>3, <1>4 DEF IInv, TypeOK, Stored
<1>6. \A q \in Stored :
          /\ positions'[q].userId = positions[q].userId
          /\ positions'[q].symbol = positions[q].symbol
          /\ positions'[q].tradeType = positions[q].tradeType
          /\ positions'[q].isOpen = positions[q].isOpen
          /\ positions'[q].relatedTrades = positions[q].relatedTrades
  BY <1>1, <1>2, <1>3 DEF IInv, TypeOK, PositionDoc, Stored
<1>7. IndexUnique' /\ TradesMatchPosition'
  BY <1>2, <1>5, <1>6 DEF IInv, IndexUnique, IndexKey, TradesMatchPosition
<1>8. \A g \in Handler : handlers'[g].trade = handlers[g].trade
  BY <1>1, <1>2 DEF IInv, TypeOK, Idle
<1>9. NoSilentOrphan'
  BY <1>2, <1>5, <1>6, <1>8 DEF IInv, NoSilentOrphan, Attached, InProgress
<1>10. ASSUME NEW g \in Handler
       PROVE  (TradeHeld(g) /\ PositionHeld(g) /\ TradeFits(g) /\ WorkStored(g))'
  <2>1. CASE g = h
    BY <1>2, <2>1 DEF Idle, TradeHeld, PositionHeld, TradeFits, WorkStored,
       HoldsTrade, HoldsPosition, IInv, TypeOK
  <2>2. CASE g # h
    <3>1. handlers'[g] = handlers[g]
      BY <1>2, <2>2 DEF IInv, TypeOK
    <3>2. QED
      BY <1>2, <1>5, <1>6, <1>8, <3>1 DEF TradeHeld, PositionHeld, TradeFits,
         WorkStored, IInv, Handlers
  <2>3. QED
    BY <2>1, <2>2
<1>11. QED
  BY <1>5, <1>7, <1>9, <1>10 DEF IInv, Handlers

-----------------------------------------------------------------------------
(* The theorems.                                                           *)

LEMMA NextIInv == IInv /\ [Next]_vars => IInv'
<1> SUFFICES ASSUME IInv, [Next]_vars PROVE IInv'
  OBVIOUS
<1>1. CASE UNCHANGED vars
  BY <1>1 DEF vars, IInv, TypeOK, IndexUnique, Handlers, TradeHeld, PositionHeld,
     TradeFits, WorkStored, TradesMatchPosition, NoSilentOrphan, Stored, Attached,
     InProgress, IndexKey
<1>2. ASSUME NEW h \in Handler, Request(h) PROVE IInv'
  <2>1. ASSUME NEW u \in User, NEW s \in Symbol, NEW side \in Side,
               NEW n \in 1..MaxQuantity, NEW b \in Triggers,
               PlaceMarketOrder(h, u, s, side, n, b)
        PROVE  IInv'
    BY <2>1, PlaceMarketOrderIInv
  <2>2. ASSUME NEW p \in PositionId, NEW n \in CloseInput, NEW text \in BOOLEAN,
               RequestClose(h, p, n, text)
        PROVE  IInv'
    BY <2>2, StartClosingIInv, PositionsAssumption DEF RequestClose
  <2>3. ASSUME NEW todo \in SUBSET Open, StartClosing(h, todo, 0, FALSE) PROVE IInv'
    <3>1. todo \in SUBSET Stored /\ 0 \in Int /\ FALSE \in BOOLEAN
      BY DEF Open
    <3>2. QED
      BY <2>3, <3>1, StartClosingIInv
  <2>4. /\ \A u \in User : RequestCloseAll(h, u) =>
              StartClosing(h, {p \in Open : positions[p].userId = u}, 0, FALSE)
        /\ PriceSweep(h) =>
              StartClosing(h, {p \in Open : positions[p].triggered}, 0, FALSE)
    BY DEF RequestCloseAll, PriceSweep
  <2>5. ASSUME NEW p \in PositionId, NEW b \in Triggers, ReadToSetSlTp(h, p, b)
        PROVE  IInv'
    BY <2>5, ReadToSetSlTpIInv
  <2>6. QED
    BY <1>2, <2>1, <2>2, <2>3, <2>4, <2>5 DEF Request
<1>3. ASSUME NEW h \in Handler, Continue(h) PROVE IInv'
  BY <1>3, FindOpenPositionIInv, SaveFoundPositionIInv, CreatePositionIInv,
     ReadToCloseIInv, SaveClosingTradeIInv, SaveClosedPositionIInv, WriteSlTpIInv
     DEF Continue
<1>4. ASSUME NEW h \in Handler, Abort(h) PROVE IInv'
  BY <1>4, FailIInv DEF Abort
<1>5. QED
  BY <1>1, <1>2, <1>3, <1>4 DEF Next

LEMMA SpecIInv == Spec => []IInv
  BY InitIInv, NextIInv, PTL DEF Spec

\* Documents and handlers keep their types.  A closing trade of any whole
\* number may be stored, since nothing validates the body of a close, but no
\* position's quantity falls below zero: what is subtracted is checked against
\* the document that is saved (AfterTrade, and closePosition's `>`).
THEOREM TypeCorrect == Spec => []TypeOK
<1>1. IInv => TypeOK
  BY DEF IInv
<1>2. QED
  BY <1>1, SpecIInv, PTL

\* However many orders find no position and create one at the same time, a
\* user has at most one open position in a symbol (updatePosition and the
\* unique index).
THEOREM OneOpen == Spec => []OneOpenPosition
<1>1. IInv => OneOpenPosition
  BY DEF IInv, IndexUnique, IndexKey, OneOpenPosition, Open
<1>2. QED
  BY <1>1, SpecIInv, PTL

\* The trades behind a position are stored trades of its user and symbol, are
\* behind no other position, and include one on the other side if it is closed
\* (updatePosition, closePosition).
THEOREM TradesMatch == Spec => []TradesMatchPosition
<1>1. IInv => TradesMatchPosition
  BY DEF IInv
<1>2. QED
  BY <1>1, SpecIInv, PTL

\* An executed trade behind no position has a request in progress or one that
\* ended with an error (executeMarketOrder, closePosition).
THEOREM NoOrphan == Spec => []NoSilentOrphan
<1>1. IInv => NoSilentOrphan
  BY DEF IInv
<1>2. QED
  BY <1>1, SpecIInv, PTL

-----------------------------------------------------------------------------
(* Concurrent saves do not undo each other's closing or attaching.         *)

KeepsWork ==
    \A p \in Stored :
        /\ ~positions[p].isOpen => ~positions'[p].isOpen
        /\ positions[p].relatedTrades \subseteq positions'[p].relatedTrades

LEMMA SaveKeepsWork ==
    ASSUME IInv, NEW h \in Handler, NEW changed \in PositionDoc,
           handlers[h].at \in {"save", "closingSave"},
           changed.isOpen => handlers[h].read.isOpen = changed.isOpen,
           SavePosition(h, changed)
    PROVE  KeepsWork
<1> DEFINE p == handlers[h].position
<1> DEFINE doc == Merge(positions[p], handlers[h].read, changed, handlers[h].trade)
<1>1. CASE UNCHANGED positions
  BY <1>1 DEF KeepsWork
<1>2. CASE ~UNCHANGED positions
  <2>1. positions' = [positions EXCEPT ![p] = doc]
    BY <1>2 DEF SavePosition, Fail
  <2>2. /\ p \in Stored /\ positions[p] \in PositionDoc
        /\ handlers[h].read \in PositionDoc
    BY DEF IInv, TypeOK, Handlers, PositionHeld, HoldsPosition, Stored
  <2>3. /\ ~positions[p].isOpen => ~doc.isOpen
        /\ positions[p].relatedTrades \subseteq doc.relatedTrades
    BY <2>2 DEF Merge, PositionDoc
  <2> HIDE DEF doc
  <2>4. QED
    BY <2>1, <2>2, <2>3 DEF KeepsWork, IInv, TypeOK, Stored
<1>3. QED
  BY <1>1, <1>2

LEMMA NextKeepsWork == IInv /\ [Next]_vars => KeepsWork
<1> SUFFICES ASSUME IInv, [Next]_vars PROVE KeepsWork
  OBVIOUS
<1>1. CASE UNCHANGED positions
  BY <1>1 DEF KeepsWork
<1>2. ASSUME NEW h \in Handler, SaveFoundPosition(h) PROVE KeepsWork
  <2>1. /\ handlers[h].at = "save" /\ handlers[h].read \in PositionDoc
        /\ handlers[h].read.isOpen /\ trades[handlers[h].trade] \in TradeDoc
        /\ trades[handlers[h].trade].quantity \in Nat \ {0}
    BY <1>2 DEF SaveFoundPosition, IInv, TypeOK, Handlers, TradeHeld, PositionHeld,
       TradeFits, HoldsTrade, HoldsPosition
  <2> DEFINE changed == AfterTrade(handlers[h].read, trades[handlers[h].trade])
  <2>2. changed \in PositionDoc /\ (changed.isOpen => changed.isOpen = TRUE)
    BY <2>1, AfterTradeType DEF PositionDoc
  <2>3. SavePosition(h, changed)
    BY <1>2 DEF SaveFoundPosition
  <2> HIDE DEF changed
  <2>4. QED
    BY <2>1, <2>2, <2>3, SaveKeepsWork DEF PositionDoc
<1>3. ASSUME NEW h \in Handler, SaveClosedPosition(h) PROVE KeepsWork
  <2>1. /\ handlers[h].at = "closingSave" /\ handlers[h].read \in PositionDoc
        /\ handlers[h].read.isOpen
        /\ handlers[h].quantity \in Int
        /\ handlers[h].quantity <= handlers[h].read.quantity
        /\ handlers[h].text \in BOOLEAN
    BY <1>3 DEF SaveClosedPosition, IInv, TypeOK, Handlers, TradeFits, PositionHeld,
       HoldsPosition, HandlerState
  <2> DEFINE changed == AfterClose(handlers[h].read, handlers[h].quantity,
                                   handlers[h].text)
  <2>2. changed \in PositionDoc
    BY <2>1, AfterCloseType
  <2>3. SavePosition(h, changed) \/ UNCHANGED positions
    BY <1>3 DEF SaveClosedPosition, Fail
  <2> HIDE DEF changed
  <2>4. QED
    BY <1>1, <2>1, <2>2, <2>3, SaveKeepsWork DEF PositionDoc
<1>4. ASSUME NEW h \in Handler, CreatePosition(h) PROVE KeepsWork
  <2>1. PICK p \in PositionId \ Stored :
            \/ UNCHANGED positions
            \/ \E doc : positions' = [positions EXCEPT ![p] = doc]
    BY <1>4 DEF CreatePosition, Fail
  <2>2. QED
    BY <2>1 DEF KeepsWork, IInv, TypeOK, Stored
<1>5. ASSUME NEW h \in Handler, WriteSlTp(h) PROVE KeepsWork
  <2>1. \A p \in Stored : positions[p] \in PositionDoc
    BY DEF IInv, TypeOK, Stored
  <2>2. QED
    BY <1>5, <2>1 DEF WriteSlTp, KeepsWork, IInv, TypeOK, Stored, PositionDoc
<1>6. ASSUME NEW h \in Handler,
             Request(h) \/ FindOpenPosition(h) \/ ReadToClose(h)
                \/ SaveClosingTrade(h) \/ Abort(h)
      PROVE  UNCHANGED positions
  BY <1>6 DEF Request, PlaceMarketOrder, SaveTrade, RequestClose, RequestCloseAll,
     PriceSweep, StartClosing, ReadToSetSlTp, FindOpenPosition, ReadToClose,
     SaveClosingTrade, Abort, Fail
<1>7. QED
  BY <1>1, <1>2, <1>3, <1>4, <1>5, <1>6 DEF Next, Continue, vars

\* No save, however stale its document, reopens a position that was closed
\* meanwhile or drops a trade that was pushed meanwhile (Mongoose's save()).
THEOREM KeepsOthersWork == Spec => SavesKeepOthersWork
<1>1. IInv /\ [Next]_vars => [KeepsWork]_vars
  BY NextKeepsWork
<1>2. QED
  BY <1>1, SpecIInv, PTL DEF Spec, SavesKeepOthersWork, KeepsWork

-----------------------------------------------------------------------------
(* What the trades behind a position add up to.  These are functions of    *)
(* the trades collection and of one document, so that a lemma may speak of *)
(* the collection before a step and after it.                              *)

TradeCollection == [TradeId -> TradeDoc \cup {None}]

PositionCollection == [PositionId -> PositionDoc \cup {None}]

ExecutedIn(T) == {t \in TradeId : T[t] # None}

Size(n) == IF n < 0 THEN -n ELSE n

Sum(T, S) == SumOver([t \in ExecutedIn(T) |-> Size(T[t].quantity)], S)

\* A trade adds to a position or takes from it.
Adds(doc, trade) == trade.tradeType = doc.tradeType \/ trade.quantity < 0

AddingIn(T, doc) == {t \in doc.relatedTrades : Adds(doc, T[t])}

TakingIn(T, doc) == doc.relatedTrades \ AddingIn(T, doc)

ClosingIn(T, doc) == {t \in TakingIn(T, doc) : T[t].closing}

Added(T, doc) == Sum(T, AddingIn(T, doc))

Taken(T, doc) == Sum(T, TakingIn(T, doc))

Closed(T, doc) == Sum(T, ClosingIn(T, doc))

\* These are what the properties speak of.
LEMMA SumsOfPositions ==
    /\ \A S : Total(S) = Sum(trades, S)
    /\ \A p \in PositionId :
          /\ Adding(p) = AddingIn(trades, positions[p])
          /\ Taking(p) = TakingIn(trades, positions[p])
  BY DEF Total, SizeOf, Size, Executed, Sum, ExecutedIn, Adding, AddingIn, Adds,
     Taking, TakingIn

LEMMA SumOfTrades ==
    ASSUME NEW T \in TradeCollection, NEW S \in SUBSET ExecutedIn(T)
    PROVE  /\ Sum(T, S) \in Nat
           /\ Sum(T, {}) = 0
           /\ \A t \in ExecutedIn(T) \ S :
                 Sum(T, S \cup {t}) = Sum(T, S) + Size(T[t].quantity)
           /\ \A R \in SUBSET S : Sum(T, R) <= Sum(T, S)
<1> DEFINE f == [t \in ExecutedIn(T) |-> Size(T[t].quantity)]
<1>1. \A t \in ExecutedIn(T) : f[t] = Size(T[t].quantity) /\ f[t] \in Nat
  BY DEF TradeCollection, TradeDoc, ExecutedIn, Size
<1>2. IsFiniteSet(S)
  BY PositionsAssumption, FS_Subset DEF ExecutedIn
<1>3. NatsOn(f, S)
  BY <1>1, <1>2 DEF NatsOn
<1>4. \A R : Sum(T, R) = SumOver(f, R)
  BY DEF Sum
<1> HIDE DEF f
<1>5. Sum(T, S) \in Nat /\ Sum(T, {}) = 0
  BY <1>3, <1>4, SumType, SumOfNone
<1>6. \A t \in ExecutedIn(T) \ S : Sum(T, S \cup {t}) = Sum(T, S) + Size(T[t].quantity)
  BY <1>1, <1>3, <1>4, SumAdd
<1>7. \A R \in SUBSET S : Sum(T, R) <= Sum(T, S)
  BY <1>3, <1>4, SumOfFewer
<1>8. QED
  BY <1>5, <1>6, <1>7

\* The sums over a document that a trade is attached to.
LEMMA SumsAttached ==
    ASSUME NEW T \in TradeCollection, NEW doc \in PositionDoc, NEW new \in PositionDoc,
           doc.relatedTrades \subseteq ExecutedIn(T),
           NEW t \in ExecutedIn(T) \ doc.relatedTrades,
           new.tradeType = doc.tradeType,
           new.relatedTrades = doc.relatedTrades \cup {t}
    PROVE  LET n == Size(T[t].quantity)
               adds == Adds(doc, T[t])
           IN  /\ Added(T, doc) \in Nat /\ Taken(T, doc) \in Nat /\ Closed(T, doc) \in Nat
               /\ n \in Nat
               /\ Closed(T, doc) <= Taken(T, doc)
               /\ Added(T, new) = IF adds THEN Added(T, doc) + n ELSE Added(T, doc)
               /\ Taken(T, new) = IF adds THEN Taken(T, doc) ELSE Taken(T, doc) + n
               /\ Closed(T, new) = IF ~adds /\ T[t].closing THEN Closed(T, doc) + n
                                                            ELSE Closed(T, doc)
<1> DEFINE adds == Adds(doc, T[t])
<1>1. /\ AddingIn(T, doc) \in SUBSET ExecutedIn(T) /\ t \notin AddingIn(T, doc)
      /\ AddingIn(T, new) = IF adds THEN AddingIn(T, doc) \cup {t} ELSE AddingIn(T, doc)
  BY DEF AddingIn, Adds
<1>2. /\ TakingIn(T, doc) \in SUBSET ExecutedIn(T) /\ t \notin TakingIn(T, doc)
      /\ TakingIn(T, new) = IF adds THEN TakingIn(T, doc) ELSE TakingIn(T, doc) \cup {t}
  BY <1>1 DEF TakingIn
<1>3. /\ ClosingIn(T, doc) \in SUBSET ExecutedIn(T) /\ t \notin ClosingIn(T, doc)
      /\ ClosingIn(T, doc) \in SUBSET TakingIn(T, doc)
      /\ ClosingIn(T, new) = IF ~adds /\ T[t].closing THEN ClosingIn(T, doc) \cup {t}
                                                      ELSE ClosingIn(T, doc)
  BY <1>2 DEF ClosingIn
<1>4. Size(T[t].quantity) \in Nat
  BY DEF Size, TradeCollection, TradeDoc, ExecutedIn
<1> HIDE DEF adds
<1>5. Added(T, new) = IF adds THEN Added(T, doc) + Size(T[t].quantity) ELSE Added(T, doc)
  BY <1>1, SumOfTrades DEF Added
<1>6. Taken(T, new) = IF adds THEN Taken(T, doc) ELSE Taken(T, doc) + Size(T[t].quantity)
  BY <1>2, SumOfTrades DEF Taken
<1>7. Closed(T, new) = IF ~adds /\ T[t].closing
                       THEN Closed(T, doc) + Size(T[t].quantity) ELSE Closed(T, doc)
  BY <1>3, SumOfTrades DEF Closed
<1>8. /\ Added(T, doc) \in Nat /\ Taken(T, doc) \in Nat /\ Closed(T, doc) \in Nat
      /\ Closed(T, doc) <= Taken(T, doc)
  BY <1>1, <1>2, <1>3, SumOfTrades DEF Added, Taken, Closed
<1>9. QED
  BY <1>4, <1>5, <1>6, <1>7, <1>8 DEF adds

\* Nothing is added by fewer trades.
LEMMA AddedByFewer ==
    ASSUME NEW T \in TradeCollection, NEW doc, NEW new,
           new.tradeType = doc.tradeType,
           doc.relatedTrades \subseteq new.relatedTrades,
           new.relatedTrades \subseteq ExecutedIn(T)
    PROVE  Added(T, doc) \in Nat /\ Added(T, new) \in Nat /\ Added(T, doc) <= Added(T, new)
<1>1. /\ AddingIn(T, new) \in SUBSET ExecutedIn(T)
      /\ AddingIn(T, doc) \in SUBSET ExecutedIn(T)
      /\ AddingIn(T, doc) \in SUBSET AddingIn(T, new)
  BY DEF AddingIn, Adds
<1>2. QED
  BY <1>1, SumOfTrades DEF Added

\* A trade saved since changes no sum.
LEMMA SumsStay ==
    ASSUME NEW T, NEW U, NEW doc, doc.relatedTrades \subseteq ExecutedIn(T),
           \A t \in ExecutedIn(T) : t \in ExecutedIn(U) /\ U[t] = T[t]
    PROVE  /\ doc.relatedTrades \subseteq ExecutedIn(U)
           /\ Added(U, doc) = Added(T, doc)
           /\ Taken(U, doc) = Taken(T, doc)
           /\ Closed(U, doc) = Closed(T, doc)
<1>1. AddingIn(U, doc) = AddingIn(T, doc)
  BY DEF AddingIn, Adds
<1>2. TakingIn(U, doc) = TakingIn(T, doc)
  BY <1>1 DEF TakingIn
<1>3. ClosingIn(U, doc) = ClosingIn(T, doc)
  BY <1>2 DEF ClosingIn, TakingIn
<1>4. ASSUME NEW S \in SUBSET doc.relatedTrades
      PROVE  Sum(U, S) = Sum(T, S)
  <2> DEFINE f == [t \in ExecutedIn(T) |-> Size(T[t].quantity)]
             g == [t \in ExecutedIn(U) |-> Size(U[t].quantity)]
  <2>1. \A s \in S : f[s] = g[s]
    OBVIOUS
  <2> HIDE DEF f, g
  <2>2. SumOver(f, S) = SumOver(g, S)
    BY <2>1, SumSame
  <2>3. QED
    BY <2>2 DEF f, g, Sum
<1>5. /\ AddingIn(T, doc) \in SUBSET doc.relatedTrades
      /\ TakingIn(T, doc) \in SUBSET doc.relatedTrades
      /\ ClosingIn(T, doc) \in SUBSET doc.relatedTrades
  BY DEF AddingIn, TakingIn, ClosingIn
<1>6. QED
  BY <1>1, <1>2, <1>3, <1>4, <1>5 DEF Added, Taken, Closed

\* What a trade makes of the document it is attached to, on either path.
ChangedBy(doc, trade, changed) ==
    /\ changed \in PositionDoc
    /\ changed = [doc EXCEPT !.quantity = changed.quantity, !.isOpen = changed.isOpen]
    /\ Adds(doc, trade) =>
          /\ changed.isOpen = doc.isOpen
          /\ changed.quantity = doc.quantity + Size(trade.quantity)
    /\ ~Adds(doc, trade) =>
          /\ changed.quantity <= doc.quantity
          /\ changed.isOpen => changed.quantity = doc.quantity - Size(trade.quantity)

LEMMA AfterTradeFields ==
    ASSUME NEW doc \in PositionDoc, NEW trade \in TradeDoc, trade.quantity \in Nat \ {0}
    PROVE  LET changed == AfterTrade(doc, trade)
           IN  /\ changed.tradeType = doc.tradeType
               /\ trade.tradeType = doc.tradeType =>
                     /\ changed.isOpen = doc.isOpen
                     /\ changed.quantity = doc.quantity + trade.quantity
               /\ trade.tradeType # doc.tradeType =>
                     IF trade.quantity >= doc.quantity
                     THEN ~changed.isOpen /\ changed.quantity = doc.quantity
                     ELSE /\ changed.isOpen = doc.isOpen
                          /\ changed.quantity = doc.quantity - trade.quantity
  BY DEF AfterTrade, PositionDoc

LEMMA AfterTradeChanges ==
    ASSUME NEW doc \in PositionDoc, NEW trade \in TradeDoc, trade.quantity \in Nat \ {0}
    PROVE  ChangedBy(doc, trade, AfterTrade(doc, trade))
<1> DEFINE changed == AfterTrade(doc, trade)
<1>1. changed \in PositionDoc
  BY AfterTradeType
<1>2. /\ changed.userId = doc.userId /\ changed.symbol = doc.symbol
      /\ changed.tradeType = doc.tradeType /\ changed.triggered = doc.triggered
      /\ changed.relatedTrades = doc.relatedTrades
  BY DEF AfterTrade, PositionDoc
<1>3. /\ Size(trade.quantity) = trade.quantity
      /\ Adds(doc, trade) <=> trade.tradeType = doc.tradeType
      /\ doc.quantity \in Nat /\ trade.quantity \in Nat
  BY DEF Size, Adds, PositionDoc
<1>4. /\ trade.tradeType = doc.tradeType =>
            /\ changed.isOpen = doc.isOpen
            /\ changed.quantity = doc.quantity + trade.quantity
      /\ trade.tradeType # doc.tradeType =>
            IF trade.quantity >= doc.quantity
            THEN ~changed.isOpen /\ changed.quantity = doc.quantity
            ELSE /\ changed.isOpen = doc.isOpen
                 /\ changed.quantity = doc.quantity - trade.quantity
  BY AfterTradeFields
<1> HIDE DEF changed
<1>5. changed = [doc EXCEPT !.quantity = changed.quantity, !.isOpen = changed.isOpen]
  BY <1>1, <1>2 DEF PositionDoc
<1>6. ChangedBy(doc, trade, changed)
  BY <1>1, <1>3, <1>4, <1>5 DEF ChangedBy
<1>7. QED
  BY <1>6 DEF changed

\* A close of n is the whole, when it closes the position, or leaves the rest.
LEMMA AfterCloseFields ==
    ASSUME NEW doc \in PositionDoc, doc.isOpen, NEW n \in Int, n <= doc.quantity,
           NEW text \in BOOLEAN
    PROVE  LET changed == AfterClose(doc, n, text)
           IN  \/ /\ n = doc.quantity
                  /\ ~changed.isOpen /\ changed.quantity = doc.quantity
               \/ changed.isOpen /\ changed.quantity = doc.quantity - n
  BY DEF AfterClose, ClosesWhole, PositionDoc

LEMMA AfterCloseChanges ==
    ASSUME NEW doc \in PositionDoc, doc.isOpen, NEW trade \in TradeDoc,
           trade.quantity <= doc.quantity, trade.tradeType # doc.tradeType,
           NEW text \in BOOLEAN
    PROVE  ChangedBy(doc, trade, AfterClose(doc, trade.quantity, text))
<1> DEFINE n == trade.quantity
           changed == AfterClose(doc, n, text)
<1>1. n \in Int /\ doc.quantity \in Nat /\ changed \in PositionDoc
  BY AfterCloseType DEF TradeDoc, PositionDoc
<1>2. /\ changed.userId = doc.userId /\ changed.symbol = doc.symbol
      /\ changed.tradeType = doc.tradeType /\ changed.triggered = doc.triggered
      /\ changed.relatedTrades = doc.relatedTrades
  BY DEF AfterClose, PositionDoc
<1>3. /\ Adds(doc, trade) <=> n < 0
      /\ n < 0 => Size(n) = -n
      /\ ~(n < 0) => Size(n) = n
  BY DEF Size, Adds
<1>4. \/ n = doc.quantity /\ ~changed.isOpen /\ changed.quantity = doc.quantity
      \/ changed.isOpen /\ changed.quantity = doc.quantity - n
  BY <1>1, AfterCloseFields
<1> HIDE DEF changed
<1>5. changed = [doc EXCEPT !.quantity = changed.quantity, !.isOpen = changed.isOpen]
  BY <1>1, <1>2 DEF PositionDoc
<1>6. /\ n < 0 => changed.isOpen /\ changed.quantity = doc.quantity + Size(n)
      /\ ~(n < 0) => /\ changed.quantity <= doc.quantity
                     /\ changed.isOpen => changed.quantity = doc.quantity - Size(n)
  <2>1. CASE n < 0
    <3> HIDE DEF n
    <3>1. QED
      BY <1>1, <1>3, <1>4, <2>1
  <2>2. CASE ~(n < 0)
    <3> HIDE DEF n
    <3>1. QED
      BY <1>1, <1>3, <1>4, <2>2
  <2>3. QED
    BY <2>1, <2>2
<1>7. changed.isOpen => changed.isOpen = doc.isOpen
  BY <1>1 DEF PositionDoc
<1>8. ChangedBy(doc, trade, changed)
  BY <1>1, <1>3, <1>5, <1>6, <1>7 DEF ChangedBy
<1>9. QED
  BY <1>8 DEF changed

-----------------------------------------------------------------------------
(* No position holds more than was traded onto it.                         *)

\* Also of the documents that handlers hold: their trades are still there.
TradedInv ==
    /\ \A p \in Stored : positions[p].quantity <= Added(trades, positions[p])
    /\ \A h \in Handler :
          LET read == handlers[h].read
          IN  handlers[h].at \in HoldsPosition =>
                  /\ read.relatedTrades \subseteq positions[handlers[h].position].relatedTrades
                  /\ read.quantity <= Added(trades, read)

LEMMA RelatedStored ==
    ASSUME IInv, NEW p \in Stored
    PROVE  /\ positions[p] \in PositionDoc
           /\ positions[p].relatedTrades \subseteq ExecutedIn(trades)
           /\ trades \in TradeCollection
<1>1. positions[p] \in PositionDoc
  BY DEF IInv, TypeOK, Stored
<1>2. QED
  BY <1>1 DEF IInv, TypeOK, TradesMatchPosition, PositionDoc, ExecutedIn, TradeCollection

\* A step that saves no position: a trade may be stored, and a handler reads a
\* position or keeps the one it holds.
LEMMA TradedStays ==
    ASSUME IInv, TradedInv, NEW h \in Handler, NEW state,
           Goto(h, state), UNCHANGED positions,
           \A t \in ExecutedIn(trades) : t \in ExecutedIn(trades') /\ trades'[t] = trades[t],
           state.at \in HoldsPosition =>
               \/ state.position \in Stored /\ state.read = positions[state.position]
               \/ /\ handlers[h].at \in HoldsPosition
                  /\ state.position = handlers[h].position /\ state.read = handlers[h].read
    PROVE  TradedInv'
<1>1. /\ handlers'[h] = state
      /\ \A g \in Handler \ {h} : handlers'[g] = handlers[g]
  BY DEF Goto, IInv, TypeOK
<1>2. \A p \in Stored : /\ positions[p].relatedTrades \subseteq ExecutedIn(trades)
                        /\ Added(trades', positions[p]) = Added(trades, positions[p])
  BY RelatedStored, SumsStay
<1>3. ASSUME NEW g \in Handler, handlers[g].at \in HoldsPosition
      PROVE  LET read == handlers[g].read
             IN  /\ read.relatedTrades \subseteq positions[handlers[g].position].relatedTrades
                 /\ read.quantity <= Added(trades', read)
  <2>1. handlers[g].position \in Stored
    BY <1>3 DEF IInv, Handlers, PositionHeld
  <2>2. handlers[g].read.relatedTrades \subseteq ExecutedIn(trades)
    BY <1>2, <1>3, <2>1 DEF TradedInv
  <2>3. Added(trades', handlers[g].read) = Added(trades, handlers[g].read)
    BY <2>2, SumsStay
  <2>4. QED
    BY <1>3, <2>3 DEF TradedInv
<1>4. Stored' = Stored /\ positions' = positions
  BY DEF Stored
<1>5. QED
  BY <1>1, <1>2, <1>3, <1>4 DEF TradedInv

\* A step that saves a position.
LEMMA TradedSaved ==
    ASSUME IInv, TradedInv, NEW h \in Handler, NEW state, NEW p \in PositionId, NEW doc,
           Goto(h, state), state.at \notin HoldsPosition, UNCHANGED trades,
           positions' = [positions EXCEPT ![p] = doc],
           p \in Stored => positions[p].relatedTrades \subseteq doc.relatedTrades,
           doc.quantity <= Added(trades, doc)
    PROVE  TradedInv'
<1>1. /\ handlers'[h] = state
      /\ \A g \in Handler \ {h} : handlers'[g] = handlers[g]
      /\ positions'[p] = doc
      /\ \A q \in PositionId \ {p} : positions'[q] = positions[q]
  BY DEF Goto, IInv, TypeOK
<1>2. \A q \in Stored' : positions'[q].quantity <= Added(trades, positions'[q])
  BY <1>1 DEF TradedInv, Stored
<1>3. ASSUME NEW g \in Handler \ {h}, handlers[g].at \in HoldsPosition
      PROVE  LET read == handlers[g].read
             IN  /\ read.relatedTrades \subseteq positions'[handlers[g].position].relatedTrades
                 /\ read.quantity <= Added(trades, read)
  <2>1. handlers[g].position \in Stored /\ handlers[g].position \in PositionId
    BY <1>3 DEF IInv, Handlers, PositionHeld, Stored
  <2>2. /\ handlers[g].read.relatedTrades \subseteq positions[handlers[g].position].relatedTrades
        /\ handlers[g].read.quantity <= Added(trades, handlers[g].read)
    BY <1>3 DEF TradedInv
  <2>3. QED
    BY <1>1, <2>1, <2>2
<1>4. QED
  BY <1>1, <1>2, <1>3 DEF TradedInv

\* The document that save() leaves, however stale the one that was read.
LEMMA MergeTraded ==
    ASSUME NEW T \in TradeCollection, NEW stored \in PositionDoc, NEW read \in PositionDoc,
           NEW changed, NEW t \in ExecutedIn(T) \ stored.relatedTrades,
           stored.relatedTrades \subseteq ExecutedIn(T),
           read.relatedTrades \subseteq stored.relatedTrades,
           read.tradeType = stored.tradeType,
           ChangedBy(read, T[t], changed),
           read.quantity <= Added(T, read),
           stored.quantity <= Added(T, stored)
    PROVE  LET doc == Merge(stored, read, changed, t)
           IN  /\ stored.relatedTrades \subseteq doc.relatedTrades
               /\ doc.quantity <= Added(T, doc)
<1> DEFINE doc == Merge(stored, read, changed, t)
           n == Size(T[t].quantity)
<1>1. changed \in PositionDoc
  BY DEF ChangedBy
<1>2. /\ doc \in PositionDoc /\ doc.tradeType = stored.tradeType
      /\ doc.relatedTrades = stored.relatedTrades \cup {t}
      /\ doc.quantity = changed.quantity \/ doc.quantity = stored.quantity
  BY <1>1 DEF Merge, PositionDoc, ExecutedIn
<1> HIDE DEF doc
<1>3. /\ Added(T, stored) \in Nat /\ n \in Nat
      /\ Added(T, doc) = IF Adds(stored, T[t]) THEN Added(T, stored) + n
                                               ELSE Added(T, stored)
  BY <1>2, SumsAttached
<1>4. Added(T, read) \in Nat /\ Added(T, read) <= Added(T, stored)
  BY AddedByFewer
<1>5. /\ Adds(stored, T[t]) => changed.quantity = read.quantity + n
      /\ ~Adds(stored, T[t]) => changed.quantity <= read.quantity
  BY DEF ChangedBy, Adds
<1>6. /\ read.quantity \in Nat /\ stored.quantity \in Nat /\ changed.quantity \in Nat
  BY <1>1 DEF PositionDoc
<1>7. doc.quantity <= Added(T, doc)
  <2> HIDE DEF n
  <2>1. CASE Adds(stored, T[t])
    BY <1>2, <1>3, <1>4, <1>5, <1>6, <2>1
  <2>2. CASE ~Adds(stored, T[t])
    BY <1>2, <1>3, <1>4, <1>5, <1>6, <2>2
  <2>3. QED
    BY <2>1, <2>2
<1>8. QED
  BY <1>2, <1>7 DEF doc

\* Both saves of a position that was read.
LEMMA SavesTraded ==
    ASSUME IInv, TradedInv, NEW h \in Handler, ~Fail(h),
           SaveFoundPosition(h) \/ SaveClosedPosition(h)
    PROVE  TradedInv'
<1> DEFINE p == handlers[h].position
           t == handlers[h].trade
           read == handlers[h].read
           n == handlers[h].quantity
           text == handlers[h].text
           rest == handlers[h].todo
           state == IF rest = {} THEN Idle ELSE [Idle EXCEPT !.at = "close", !.todo = rest]
<1>1. /\ handlers[h].at \in {"save", "closingSave"}
      /\ handlers[h].at = "save" => SavePosition(h, AfterTrade(read, trades[t]))
      /\ handlers[h].at = "closingSave" => SavePosition(h, AfterClose(read, n, text))
  BY DEF SaveFoundPosition, SaveClosedPosition
<1>2. /\ p \in Stored /\ p \in PositionId /\ read \in PositionDoc /\ read.isOpen
      /\ read.tradeType = positions[p].tradeType
      /\ t \in ExecutedIn(trades) \ positions[p].relatedTrades
      /\ trades[t] \in TradeDoc /\ text \in BOOLEAN
      /\ read.relatedTrades \subseteq positions[p].relatedTrades
      /\ read.quantity <= Added(trades, read)
      /\ positions[p].quantity <= Added(trades, positions[p])
  BY <1>1 DEF IInv, TypeOK, HandlerState, Handlers, TradeHeld, PositionHeld, HoldsTrade,
     HoldsPosition, TradedInv, ExecutedIn, Stored
<1>3. /\ handlers[h].at = "save" => trades[t].quantity \in Nat \ {0}
      /\ handlers[h].at = "closingSave" =>
            /\ trades[t].tradeType # read.tradeType
            /\ trades[t].quantity = n /\ n <= read.quantity
  <2>1. read.tradeType # Opposite(read.tradeType)
    BY DEF Opposite
  <2>2. QED
    BY <2>1 DEF IInv, Handlers, TradeFits
<1>4. PICK changed : ChangedBy(read, trades[t], changed) /\ SavePosition(h, changed)
  <2>1. CASE handlers[h].at = "save"
    BY <1>1, <1>2, <1>3, <2>1, AfterTradeChanges
  <2>2. CASE handlers[h].at = "closingSave"
    BY <1>1, <1>2, <1>3, <2>2, AfterCloseChanges
  <2>3. QED
    BY <1>1, <2>1, <2>2
<1>5. /\ positions' = [positions EXCEPT ![p] = Merge(positions[p], read, changed, t)]
      /\ Goto(h, state) /\ UNCHANGED trades
  BY <1>4 DEF SavePosition
<1>6. /\ positions[p].relatedTrades \subseteq Merge(positions[p], read, changed, t).relatedTrades
      /\ Merge(positions[p], read, changed, t).quantity
            <= Added(trades, Merge(positions[p], read, changed, t))
  BY <1>2, <1>4, RelatedStored, MergeTraded
<1>7. state.at \notin HoldsPosition
  BY DEF Idle, HoldsPosition
<1> HIDE DEF state
<1>8. QED
  BY <1>2, <1>5, <1>6, <1>7, TradedSaved

\* A document of one trade, which adds to it.
LEMMA SumsOfOne ==
    ASSUME NEW T \in TradeCollection, NEW t \in ExecutedIn(T), T[t].quantity \in Nat, NEW doc,
           doc.tradeType = T[t].tradeType, doc.relatedTrades = {t}
    PROVE  Added(T, doc) = T[t].quantity /\ Taken(T, doc) = 0 /\ Closed(T, doc) = 0
<1>1. AddingIn(T, doc) = {} \cup {t} /\ TakingIn(T, doc) = {} /\ ClosingIn(T, doc) = {}
  BY DEF AddingIn, TakingIn, ClosingIn, Adds
<1>2. Sum(T, {}) = 0 /\ Sum(T, {} \cup {t}) = Sum(T, {}) + Size(T[t].quantity)
  BY SumOfTrades
<1>3. Size(T[t].quantity) = T[t].quantity
  BY DEF Size
<1>4. QED
  BY <1>1, <1>2, <1>3 DEF Added, Taken, Closed

LEMMA CreateTraded ==
    ASSUME IInv, TradedInv, NEW h \in Handler, ~Fail(h), CreatePosition(h)
    PROVE  TradedInv'
<1>1. PICK t, doc :
          /\ t = handlers[h].trade
          /\ doc = [userId |-> trades[t].userId, symbol |-> trades[t].symbol,
                    tradeType |-> trades[t].tradeType,
                    quantity |-> trades[t].quantity, isOpen |-> TRUE,
                    triggered |-> handlers[h].triggered, relatedTrades |-> {t}]
  OBVIOUS
<1>2. PICK p \in PositionId \ Stored :
          /\ positions' = [positions EXCEPT ![p] = doc]
          /\ Goto(h, Idle) /\ UNCHANGED trades
  BY <1>1 DEF CreatePosition
<1>3. /\ trades \in TradeCollection /\ t \in ExecutedIn(trades)
      /\ trades[t].quantity \in Nat
  BY <1>1 DEF CreatePosition, IInv, TypeOK, Handlers, TradeHeld, TradeFits, HoldsTrade,
     ExecutedIn, TradeCollection
<1>4. /\ doc.relatedTrades = {t} /\ doc.quantity = trades[t].quantity
      /\ doc.tradeType = trades[t].tradeType
  BY <1>1
<1>5. doc.quantity <= Added(trades, doc)
  BY <1>3, <1>4, SumsOfOne
<1>6. Idle.at \notin HoldsPosition
  BY DEF Idle, HoldsPosition
<1>7. QED
  BY <1>2, <1>5, <1>6, TradedSaved

LEMMA WriteSlTpTraded ==
    ASSUME IInv, TradedInv, NEW h \in Handler, WriteSlTp(h) PROVE TradedInv'
<1>1. PICK p, doc : /\ p = handlers[h].position
                    /\ doc = [positions[p] EXCEPT !.triggered = handlers[h].triggered]
  OBVIOUS
<1>2. p \in Stored /\ p \in PositionId /\ positions[p] \in PositionDoc
  BY <1>1 DEF WriteSlTp, IInv, TypeOK, Handlers, WorkStored, Stored
<1>3. /\ positions' = [positions EXCEPT ![p] = doc] /\ Goto(h, Idle) /\ UNCHANGED trades
  BY <1>1, <1>2 DEF WriteSlTp, IInv, TypeOK
<1>4. /\ doc.quantity = positions[p].quantity /\ doc.tradeType = positions[p].tradeType
      /\ doc.relatedTrades = positions[p].relatedTrades
  BY <1>1, <1>2 DEF PositionDoc
<1>5. doc.quantity <= Added(trades, doc)
  <2>1. AddingIn(trades, doc) = AddingIn(trades, positions[p])
    BY <1>4 DEF AddingIn, Adds
  <2>2. QED
    BY <1>2, <1>4, <2>1 DEF TradedInv, Added
<1>6. Idle.at \notin HoldsPosition
  BY DEF Idle, HoldsPosition
<1>7. QED
  BY <1>2, <1>3, <1>4, <1>5, <1>6, TradedSaved

LEMMA NextTraded == IInv /\ TradedInv /\ [Next]_vars => TradedInv'
<1> SUFFICES ASSUME IInv, TradedInv, [Next]_vars PROVE TradedInv'
  OBVIOUS
<1>1. CASE UNCHANGED vars
  BY <1>1 DEF vars, TradedInv, Stored, Added, AddingIn, Adds, Sum, ExecutedIn
<1>2. ASSUME NEW h \in Handler, NEW state, Goto(h, state), UNCHANGED <<trades, positions>>,
             state.at \notin HoldsPosition
      PROVE  TradedInv'
  BY <1>2, TradedStays
<1>3. ASSUME NEW h \in Handler, Fail(h) PROVE TradedInv'
  <2>1. Idle.at \notin HoldsPosition
    BY DEF Idle, HoldsPosition
  <2>2. QED
    BY <1>2, <1>3, <2>1 DEF Fail
<1>4. ASSUME NEW h \in Handler, NEW doc, NEW then \in HandlerState, SaveTrade(h, doc, then),
             doc # None, then.at \in HoldsPosition =>
                 /\ handlers[h].at \in HoldsPosition
                 /\ then.position = handlers[h].position /\ then.read = handlers[h].read
      PROVE  TradedInv'
  <2>1. PICK t \in TradeId : /\ trades[t] = None /\ trades' = [trades EXCEPT ![t] = doc]
                             /\ Goto(h, [then EXCEPT !.trade = t]) /\ UNCHANGED positions
    BY <1>4 DEF SaveTrade
  <2>2. \A s \in ExecutedIn(trades) : s \in ExecutedIn(trades') /\ trades'[s] = trades[s]
    BY <2>1 DEF IInv, TypeOK, ExecutedIn
  <2>3. PICK state : state = [then EXCEPT !.trade = t]
    OBVIOUS
  <2>4. state.at = then.at /\ state.position = then.position /\ state.read = then.read
    BY <2>3 DEF HandlerState
  <2>5. QED
    BY <1>4, <2>1, <2>2, <2>3, <2>4, TradedStays
<1>5. ASSUME NEW h \in Handler, Request(h) PROVE TradedInv'
  <2>1. ASSUME NEW u \in User, NEW s \in Symbol, NEW side \in Side,
               NEW n \in 1..MaxQuantity, NEW b \in Triggers,
               PlaceMarketOrder(h, u, s, side, n, b)
        PROVE  TradedInv'
    <3> DEFINE doc == [userId |-> u, symbol |-> s, tradeType |-> side,
                       quantity |-> n, closing |-> FALSE]
               then == [Idle EXCEPT !.at = "updatePosition", !.triggered = b]
    <3>1. doc # None
      <4>1. doc \in TradeDoc
        BY PositionsAssumption DEF TradeDoc
      <4>2. QED
        BY <4>1, PositionsAssumption
    <3>2. then \in HandlerState /\ then.at \notin HoldsPosition
      BY IdleState, PositionsAssumption DEF HandlerState, Stage, HoldsPosition
    <3>3. SaveTrade(h, doc, then)
      BY <2>1 DEF PlaceMarketOrder
    <3> HIDE DEF doc, then
    <3>4. QED
      BY <1>4, <3>1, <3>2, <3>3
  <2>2. ASSUME NEW todo, NEW n, NEW text, StartClosing(h, todo, n, text) PROVE TradedInv'
    <3>1. [Idle EXCEPT !.at = "close", !.todo = todo, !.quantity = n, !.text = text].at
              \notin HoldsPosition
      BY DEF Idle, HoldsPosition
    <3>2. QED
      BY <1>2, <2>2, <3>1 DEF StartClosing
  <2>3. ASSUME NEW p, NEW b, ReadToSetSlTp(h, p, b) PROVE TradedInv'
    <3>1. [Idle EXCEPT !.at = "slTp", !.position = p, !.triggered = b].at \notin HoldsPosition
      BY DEF Idle, HoldsPosition
    <3>2. QED
      BY <1>2, <2>3, <3>1 DEF ReadToSetSlTp
  <2>4. QED
    BY <1>5, <2>1, <2>2, <2>3 DEF Request, RequestClose, RequestCloseAll, PriceSweep
<1>6. ASSUME NEW h \in Handler, FindOpenPosition(h) \/ ReadToClose(h), ~Fail(h)
      PROVE  TradedInv'
  <2>1. handlers[h] \in HandlerState /\ handlers[h].todo \subseteq Stored
    BY DEF IInv, TypeOK, Handlers, WorkStored
  <2>2. ASSUME NEW p \in Stored, NEW state, Goto(h, state), UNCHANGED <<trades, positions>>,
               state.position = p, state.read = positions[p]
        PROVE  TradedInv'
    BY <2>2, TradedStays
  <2>3. CASE FindOpenPosition(h)
    <3>1. ASSUME Goto(h, [handlers[h] EXCEPT !.at = "create"]) PROVE TradedInv'
      <4>1. [handlers[h] EXCEPT !.at = "create"].at \notin HoldsPosition
        BY <2>1 DEF HandlerState, HoldsPosition
      <4>2. QED
        BY <1>2, <2>3, <3>1, <4>1 DEF FindOpenPosition
    <3>2. ASSUME NEW p \in Open,
                 Goto(h, [handlers[h] EXCEPT !.at = "save", !.position = p,
                                             !.read = positions[p]])
          PROVE  TradedInv'
      <4> DEFINE state == [handlers[h] EXCEPT !.at = "save", !.position = p,
                                              !.read = positions[p]]
      <4>1. p \in Stored /\ state.position = p /\ state.read = positions[p]
        BY <2>1 DEF HandlerState, Open
      <4>2. Goto(h, state) /\ UNCHANGED <<trades, positions>>
        BY <2>3, <3>2 DEF FindOpenPosition
      <4> HIDE DEF state
      <4>3. QED
        BY <2>2, <4>1, <4>2
    <3>3. QED
      BY <2>3, <3>1, <3>2 DEF FindOpenPosition
  <2>4. CASE ReadToClose(h)
    <3>1. PICK p \in handlers[h].todo :
              /\ Goto(h, [handlers[h] EXCEPT
                            !.at = "closingTrade", !.position = p,
                            !.read = positions[p], !.todo = @ \ {p},
                            !.quantity = CloseQuantity(h, p)])
              /\ UNCHANGED <<trades, positions, failed>>
      BY <1>6, <2>4 DEF ReadToClose
    <3> DEFINE state == [handlers[h] EXCEPT
                            !.at = "closingTrade", !.position = p,
                            !.read = positions[p], !.todo = @ \ {p},
                            !.quantity = CloseQuantity(h, p)]
    <3>2. p \in Stored /\ state.position = p /\ state.read = positions[p]
      BY <2>1 DEF HandlerState
    <3>3. Goto(h, state) /\ UNCHANGED <<trades, positions>>
      BY <3>1
    <3> HIDE DEF state
    <3>4. QED
      BY <2>2, <3>2, <3>3
  <2>5. QED
    BY <1>6, <2>3, <2>4
<1>7. ASSUME NEW h \in Handler, SaveClosingTrade(h) PROVE TradedInv'
  <2> DEFINE read == handlers[h].read
             doc == [userId |-> read.userId, symbol |-> read.symbol,
                     tradeType |-> Opposite(read.tradeType),
                     quantity |-> handlers[h].quantity, closing |-> TRUE]
             then == [handlers[h] EXCEPT !.at = "closingSave"]
  <2>1. /\ handlers[h] \in HandlerState /\ handlers[h].at = "closingTrade"
        /\ read \in PositionDoc
    BY <1>7 DEF SaveClosingTrade, IInv, TypeOK, Handlers, PositionHeld, HoldsPosition
  <2>2. doc # None
    <3>1. doc \in TradeDoc
      BY <2>1 DEF TradeDoc, PositionDoc, HandlerState, Opposite, Side
    <3>2. QED
      BY <3>1, PositionsAssumption
  <2>3. /\ then \in HandlerState /\ then.position = handlers[h].position
        /\ then.read = handlers[h].read /\ handlers[h].at \in HoldsPosition
    BY <2>1 DEF HandlerState, Stage, HoldsPosition
  <2>4. SaveTrade(h, doc, then)
    BY <1>7 DEF SaveClosingTrade
  <2> HIDE DEF doc, then
  <2>5. QED
    BY <1>4, <2>2, <2>3, <2>4
<1>8. QED
  BY <1>1, <1>3, <1>5, <1>6, <1>7, SavesTraded, CreateTraded, WriteSlTpTraded
     DEF Next, Continue, Abort

\* However requests overlap and wherever they fail, a position holds no more
\* than the trades that add to it: a save may undo what others took off, but
\* computes its quantity from one that was backed (updatePosition,
\* closePosition).
THEOREM NeverMoreThanTraded == Spec => []NoMoreThanTraded
<1>1. Init => TradedInv
  BY DEF Init, TradedInv, Stored, Idle, HoldsPosition
<1>2. TradedInv => NoMoreThanTraded
  BY SumsOfPositions DEF TradedInv, NoMoreThanTraded, Added, Stored
<1>3. QED
  BY <1>1, <1>2, NextTraded, SpecIInv, PTL DEF Spec

-----------------------------------------------------------------------------
(* Requests one at a time: the sums are right after every step.            *)

\* The quantity is what the trades add up to, and no more is closed than was
\* traded onto the position.
AddsUp(T, doc) ==
    /\ doc.relatedTrades \subseteq ExecutedIn(T)
    /\ doc.isOpen => doc.quantity = Added(T, doc) - Taken(T, doc)
    /\ Closed(T, doc) <= Added(T, doc)

LEMMA AddsUpStays ==
    ASSUME NEW T, NEW U, NEW doc, AddsUp(T, doc),
           \A t \in ExecutedIn(T) : t \in ExecutedIn(U) /\ U[t] = T[t]
    PROVE  AddsUp(U, doc)
  BY SumsStay DEF AddsUp

\* The document saved with the trade t attached.
Settled(changed, t) == [changed EXCEPT !.relatedTrades = @ \cup {t}]

\* A trade keeps the sums right, if a closing is of no more than the quantity.
LEMMA SettledAddsUp ==
    ASSUME NEW T \in TradeCollection, NEW doc \in PositionDoc, doc.isOpen, AddsUp(T, doc),
           NEW t \in ExecutedIn(T) \ doc.relatedTrades, NEW changed,
           ChangedBy(doc, T[t], changed),
           T[t].closing => T[t].quantity <= doc.quantity
    PROVE  AddsUp(T, Settled(changed, t))
<1> DEFINE new == Settled(changed, t)
           n == Size(T[t].quantity)
<1>1. changed \in PositionDoc /\ changed.relatedTrades = doc.relatedTrades
      /\ changed.tradeType = doc.tradeType
  BY DEF ChangedBy, PositionDoc
<1>2. /\ new \in PositionDoc /\ new.tradeType = doc.tradeType
      /\ new.relatedTrades = doc.relatedTrades \cup {t}
      /\ new.quantity = changed.quantity /\ new.isOpen = changed.isOpen
  BY <1>1 DEF Settled, PositionDoc, ExecutedIn
<1> HIDE DEF new
<1>3. /\ Added(T, doc) \in Nat /\ Taken(T, doc) \in Nat /\ Closed(T, doc) \in Nat
      /\ n \in Nat /\ Closed(T, doc) <= Taken(T, doc)
      /\ Added(T, new) = IF Adds(doc, T[t]) THEN Added(T, doc) + n ELSE Added(T, doc)
      /\ Taken(T, new) = IF Adds(doc, T[t]) THEN Taken(T, doc) ELSE Taken(T, doc) + n
      /\ Closed(T, new) = IF ~Adds(doc, T[t]) /\ T[t].closing
                          THEN Closed(T, doc) + n ELSE Closed(T, doc)
  BY <1>2, SumsAttached DEF AddsUp
<1>4. doc.quantity = Added(T, doc) - Taken(T, doc) /\ Closed(T, doc) <= Added(T, doc)
  BY DEF AddsUp
<1>5. /\ Adds(doc, T[t]) => changed.quantity = doc.quantity + n
      /\ ~Adds(doc, T[t]) /\ changed.isOpen => changed.quantity = doc.quantity - n
  BY DEF ChangedBy
<1>6. ~Adds(doc, T[t]) => n = T[t].quantity
  BY DEF Adds, Size
<1>7. new.relatedTrades \subseteq ExecutedIn(T)
  BY <1>2 DEF AddsUp
<1>8. new.isOpen => new.quantity = Added(T, new) - Taken(T, new)
  <2> HIDE DEF n
  <2>1. QED
    BY <1>2, <1>3, <1>4, <1>5
<1>9. Closed(T, new) <= Added(T, new)
  <2>1. ~Adds(doc, T[t]) /\ T[t].closing => n <= doc.quantity
    BY <1>6
  <2> HIDE DEF n
  <2>2. QED
    BY <1>3, <1>4, <2>1
<1>10. AddsUp(T, new)
  BY <1>7, <1>8, <1>9 DEF AddsUp
<1>11. QED
  BY <1>10 DEF new

-----------------------------------------------------------------------------
(* Requests one at a time.                                                 *)

\* What a request still relies on when no other came in between: its trade is
\* of a quantity it was asked for, and its position is as it was read.
UpToDate(h) ==
    LET state == handlers[h]
        trade == trades[state.trade]
    IN  /\ state.at \in {"updatePosition", "create", "save"} =>
              trade.quantity <= MaxQuantity
        /\ state.at \in {"close", "closingTrade", "closingSave"} =>
              -MaxQuantity <= state.quantity
        /\ state.at \in HoldsPosition => positions[state.position] = state.read

InTurn ==
    /\ OneAtATime
    /\ \A h \in Handler : UpToDate(h)
    /\ \A p \in Stored : AddsUp(trades, positions[p])

\* Only one handler moves, and the others are idle.
LEMMA OnlyOneMoves ==
    ASSUME IInv, InTurn, OneAtATime', NEW h \in Handler, NEW state,
           Goto(h, state), handlers[h].at # "idle" \/ state.at # "idle",
           UpToDate(h)'
    PROVE  \A g \in Handler : UpToDate(g)'
<1>1. /\ handlers'[h] = state
      /\ \A g \in Handler \ {h} : handlers'[g] = handlers[g]
  BY DEF Goto, IInv, TypeOK
<1>2. \A g \in Handler \ {h} : handlers'[g].at = "idle"
  BY <1>1 DEF InTurn, OneAtATime, Busy
<1>3. ASSUME NEW g \in Handler \ {h} PROVE UpToDate(g)'
  BY <1>2 DEF UpToDate, HoldsPosition
<1>4. QED
  BY <1>3

\* A step that writes no collection.
LEMMA ReadInTurn ==
    ASSUME IInv, InTurn, OneAtATime', NEW h \in Handler, NEW state,
           Goto(h, state), handlers[h].at # "idle" \/ state.at # "idle",
           UNCHANGED <<trades, positions>>,
           UpToDate(h)'
    PROVE  InTurn'
<1>1. \A g \in Handler : UpToDate(g)'
  BY OnlyOneMoves
<1>2. \A p \in Stored' : AddsUp(trades, positions[p])'
  BY DEF InTurn, Stored, AddsUp, ExecutedIn, Added, Taken, Closed, AddingIn, TakingIn,
     ClosingIn, Adds, Sum
<1>3. QED
  BY <1>1, <1>2 DEF InTurn

LEMMA FailInTurn ==
    ASSUME IInv, InTurn, OneAtATime', NEW h \in Handler, handlers[h].at # "idle", Fail(h)
    PROVE  InTurn'
<1>1. UpToDate(h)'
  BY DEF Fail, Goto, IInv, TypeOK, UpToDate, Idle, HoldsPosition
<1>2. QED
  BY <1>1, ReadInTurn DEF Fail

LEMMA StartClosingInTurn ==
    ASSUME IInv, InTurn, OneAtATime', NEW h \in Handler, NEW todo, NEW n \in Int, NEW text,
           -MaxQuantity <= n, StartClosing(h, todo, n, text)
    PROVE  InTurn'
<1> DEFINE state == [Idle EXCEPT !.at = "close", !.todo = todo, !.quantity = n,
                                 !.text = text]
<1>1. state.at = "close" /\ state.quantity = n
  BY DEF Idle
<1>2. Goto(h, state) /\ UNCHANGED <<trades, positions>>
  BY DEF StartClosing
<1> HIDE DEF state
<1>3. UpToDate(h)'
  BY <1>1, <1>2 DEF Goto, IInv, TypeOK, UpToDate, HoldsPosition
<1>4. QED
  BY <1>1, <1>2, <1>3, ReadInTurn

LEMMA ReadToSetSlTpInTurn ==
    ASSUME IInv, InTurn, OneAtATime', NEW h \in Handler, NEW p, NEW b, ReadToSetSlTp(h, p, b)
    PROVE  InTurn'
<1> DEFINE state == [Idle EXCEPT !.at = "slTp", !.position = p, !.triggered = b]
<1>1. state.at = "slTp"
  BY DEF Idle
<1>2. Goto(h, state) /\ UNCHANGED <<trades, positions>>
  BY DEF ReadToSetSlTp
<1> HIDE DEF state
<1>3. UpToDate(h)'
  BY <1>1, <1>2 DEF Goto, IInv, TypeOK, UpToDate, HoldsPosition
<1>4. QED
  BY <1>1, <1>2, <1>3, ReadInTurn

LEMMA FindOpenPositionInTurn ==
    ASSUME IInv, InTurn, OneAtATime', NEW h \in Handler, FindOpenPosition(h)
    PROVE  InTurn'
<1>1. /\ handlers[h].at = "updatePosition" /\ handlers[h] \in HandlerState
      /\ UNCHANGED <<trades, positions>>
  BY DEF FindOpenPosition, IInv, TypeOK
<1>2. UpToDate(h)
  BY DEF InTurn
<1>3. CASE Goto(h, [handlers[h] EXCEPT !.at = "create"])
  <2>1. UpToDate(h)'
    BY <1>1, <1>2, <1>3 DEF Goto, IInv, TypeOK, UpToDate, HoldsPosition, HandlerState
  <2>2. QED
    BY <1>1, <1>3, <2>1, ReadInTurn
<1>4. ASSUME NEW p \in Open,
             Goto(h, [handlers[h] EXCEPT !.at = "save", !.position = p,
                                         !.read = positions[p]])
      PROVE  InTurn'
  <2>1. UpToDate(h)'
    BY <1>1, <1>2, <1>4 DEF Goto, IInv, TypeOK, UpToDate, HoldsPosition, HandlerState
  <2>2. QED
    BY <1>1, <1>4, <2>1, ReadInTurn
<1>5. QED
  BY <1>3, <1>4 DEF FindOpenPosition

LEMMA ReadToCloseInTurn ==
    ASSUME IInv, InTurn, OneAtATime', NEW h \in Handler, ReadToClose(h)
    PROVE  InTurn'
<1>1. handlers[h].at = "close" /\ handlers[h] \in HandlerState
  BY DEF ReadToClose, IInv, TypeOK
<1>2. CASE Fail(h)
  BY <1>1, <1>2, FailInTurn
<1>3. CASE ~Fail(h)
  <2>1. PICK p \in handlers[h].todo :
            /\ Goto(h, [handlers[h] EXCEPT
                          !.at = "closingTrade", !.position = p,
                          !.read = positions[p], !.todo = @ \ {p},
                          !.quantity = CloseQuantity(h, p)])
            /\ UNCHANGED <<trades, positions, failed>>
    BY <1>3 DEF ReadToClose
  <2>2. -MaxQuantity <= CloseQuantity(h, p)
    <3>1. -MaxQuantity <= handlers[h].quantity
      BY <1>1 DEF InTurn, UpToDate
    <3>2. positions[p].quantity \in Nat /\ MaxQuantity \in Nat
      BY PositionsAssumption DEF IInv, TypeOK, Handlers, WorkStored, Stored, PositionDoc
    <3>3. QED
      BY <3>1, <3>2 DEF CloseQuantity
  <2>3. UpToDate(h)'
    BY <1>1, <2>1, <2>2 DEF Goto, IInv, TypeOK, UpToDate, HoldsPosition, HandlerState
  <2>4. QED
    BY <1>1, <2>1, <2>3, ReadInTurn
<1>4. QED
  BY <1>2, <1>3

\* A trade is saved: the documents of the positions add up as before.
LEMMA SaveTradeInTurn ==
    ASSUME IInv, InTurn, OneAtATime', NEW h \in Handler, NEW doc, NEW then \in HandlerState,
           then.at # "idle",
           SaveTrade(h, doc, then),
           then.at = "updatePosition" => doc.quantity <= MaxQuantity,
           then.at \notin {"create", "save"},
           then.at \in {"close", "closingTrade", "closingSave"} =>
               -MaxQuantity <= then.quantity,
           then.at \in HoldsPosition => positions[then.position] = then.read
    PROVE  InTurn'
<1>1. PICK t \in TradeId :
          /\ trades[t] = None
          /\ trades' = [trades EXCEPT ![t] = doc]
          /\ Goto(h, [then EXCEPT !.trade = t])
          /\ UNCHANGED <<positions, failed>>
  BY DEF SaveTrade
<1> DEFINE state == [then EXCEPT !.trade = t]
<1>2. /\ state.at = then.at /\ state.quantity = then.quantity
      /\ state.position = then.position /\ state.read = then.read /\ state.trade = t
  BY DEF HandlerState
<1>3. Goto(h, state)
  BY <1>1
<1> HIDE DEF state
<1>4. UpToDate(h)'
  <2>1. handlers'[h] = state /\ trades'[t] = doc
    BY <1>1, <1>3 DEF Goto, IInv, TypeOK
  <2>2. QED
    BY <1>1, <1>2, <2>1 DEF UpToDate
<1>5. \A g \in Handler : UpToDate(g)'
  BY <1>2, <1>3, <1>4, OnlyOneMoves
<1>6. \A s \in ExecutedIn(trades) : s \in ExecutedIn(trades') /\ trades'[s] = trades[s]
  BY <1>1 DEF IInv, TypeOK, ExecutedIn
<1>7. \A p \in Stored : AddsUp(trades', positions[p])
  BY <1>6, AddsUpStays DEF InTurn
<1>8. Stored' = Stored /\ positions' = positions
  BY <1>1 DEF Stored
<1>9. \A p \in Stored' : AddsUp(trades', positions'[p])
  BY <1>7, <1>8
<1>10. QED
  BY <1>5, <1>9 DEF InTurn

LEMMA PlaceMarketOrderInTurn ==
    ASSUME IInv, InTurn, OneAtATime', NEW h \in Handler, NEW u \in User, NEW s \in Symbol,
           NEW side \in Side, NEW n \in 1..MaxQuantity, NEW b \in Triggers,
           PlaceMarketOrder(h, u, s, side, n, b)
    PROVE  InTurn'
<1> DEFINE doc == [userId |-> u, symbol |-> s, tradeType |-> side,
                   quantity |-> n, closing |-> FALSE]
<1> DEFINE then == [Idle EXCEPT !.at = "updatePosition", !.triggered = b]
<1>1. then \in HandlerState /\ then.at = "updatePosition"
  BY IdleState, PositionsAssumption DEF HandlerState, Stage
<1>2. SaveTrade(h, doc, then)
  BY DEF PlaceMarketOrder
<1>3. doc.quantity <= MaxQuantity
  BY PositionsAssumption
<1> HIDE DEF doc, then
<1>4. QED
  BY <1>1, <1>2, <1>3, SaveTradeInTurn DEF HoldsPosition

LEMMA SaveClosingTradeInTurn ==
    ASSUME IInv, InTurn, OneAtATime', NEW h \in Handler, SaveClosingTrade(h)
    PROVE  InTurn'
<1> DEFINE read == handlers[h].read
<1> DEFINE doc == [userId |-> read.userId, symbol |-> read.symbol,
                   tradeType |-> Opposite(read.tradeType),
                   quantity |-> handlers[h].quantity, closing |-> TRUE]
<1> DEFINE then == [handlers[h] EXCEPT !.at = "closingSave"]
<1>1. /\ handlers[h] \in HandlerState /\ handlers[h].at = "closingTrade"
      /\ UpToDate(h)
  BY DEF IInv, TypeOK, SaveClosingTrade, InTurn
<1>2. /\ then \in HandlerState /\ then.at = "closingSave"
      /\ then.quantity = handlers[h].quantity
      /\ then.read = read /\ then.position = handlers[h].position
  BY <1>1 DEF HandlerState, Stage
<1>3. SaveTrade(h, doc, then)
  BY DEF SaveClosingTrade
<1>4. /\ positions[handlers[h].position] = read
      /\ -MaxQuantity <= handlers[h].quantity
  BY <1>1 DEF UpToDate, HoldsPosition
<1> HIDE DEF doc, then
<1>5. QED
  BY <1>2, <1>3, <1>4, SaveTradeInTurn

-----------------------------------------------------------------------------
(* A save of a position, when requests come one at a time.                 *)

\* The handler's trade, which is behind no position yet.
LEMMA TradeInHand ==
    ASSUME IInv, InTurn, NEW h \in Handler, handlers[h].at \in HoldsTrade
    PROVE  /\ trades \in TradeCollection
           /\ handlers[h].trade \in ExecutedIn(trades)
           /\ trades[handlers[h].trade] \in TradeDoc
           /\ \A p \in Stored : handlers[h].trade \notin positions[p].relatedTrades
  BY DEF IInv, TypeOK, Handlers, TradeHeld, ExecutedIn, TradeCollection

\* The position is settled with the trade, from what it was: the document
\* read is the one stored, and so is what save() merges into.
LEMMA SavesSettled ==
    ASSUME IInv, InTurn, NEW h \in Handler, ~Fail(h),
           SaveFoundPosition(h) \/ SaveClosedPosition(h)
    PROVE  LET p == handlers[h].position
               t == handlers[h].trade
               n == trades[t].quantity
               old == positions[p]
               rest == handlers[h].todo
           IN  /\ handlers[h].at \in {"save", "closingSave"}
               /\ p \in Open /\ old \in PositionDoc
               /\ trades[t].userId = old.userId
               /\ trades[t].symbol = old.symbol
               /\ \E changed \in PositionDoc :
                     /\ ChangedBy(old, trades[t], changed)
                     /\ positions' = [positions EXCEPT ![p] = Settled(changed, t)]
                     /\ \/ /\ ~trades[t].closing /\ n \in 1..MaxQuantity
                           /\ changed = AfterTrade(old, trades[t])
                        \/ /\ trades[t].closing
                           /\ trades[t].tradeType = Opposite(old.tradeType)
                           /\ n \in (-MaxQuantity)..old.quantity
                           /\ \/ n = old.quantity /\ ~changed.isOpen
                              \/ changed.isOpen /\ changed.quantity = old.quantity - n
               /\ Goto(h, IF rest = {} THEN Idle
                          ELSE [Idle EXCEPT !.at = "close", !.todo = rest])
               /\ UNCHANGED <<trades, failed>>
<1> DEFINE p == handlers[h].position
           t == handlers[h].trade
           n == trades[t].quantity
           read == handlers[h].read
           rest == handlers[h].todo
<1>1. /\ handlers[h].at \in {"save", "closingSave"}
      /\ handlers[h].at = "save" => SavePosition(h, AfterTrade(read, trades[t]))
      /\ handlers[h].at = "closingSave" =>
            SavePosition(h, AfterClose(read, handlers[h].quantity, handlers[h].text))
  BY DEF SaveFoundPosition, SaveClosedPosition
<1>2. /\ trades[t] \in TradeDoc
      /\ positions[p] = read /\ read \in PositionDoc /\ read.isOpen
      /\ p \in Open
      /\ trades[t].userId = read.userId /\ trades[t].symbol = read.symbol
      /\ handlers[h].text \in BOOLEAN
  BY <1>1, TradeInHand DEF IInv, TypeOK, HandlerState, Handlers, PositionHeld, TradeFits,
     InTurn, UpToDate, HoldsPosition, HoldsTrade, Open
<1>3. /\ handlers[h].at = "save" =>
            ~trades[t].closing /\ n \in Nat \ {0} /\ n <= MaxQuantity
      /\ handlers[h].at = "closingSave" =>
            /\ trades[t].tradeType = Opposite(read.tradeType)
            /\ trades[t].tradeType # read.tradeType
            /\ trades[t].closing
            /\ n = handlers[h].quantity /\ n \in Int
            /\ -MaxQuantity <= n /\ n <= read.quantity
  <2>1. read.tradeType # Opposite(read.tradeType)
    BY DEF Opposite
  <2>2. UpToDate(h) /\ TradeFits(h)
    BY DEF InTurn, IInv, Handlers
  <2>3. QED
    BY <2>1, <2>2 DEF UpToDate, TradeFits
<1>4. PICK changed :
          /\ SavePosition(h, changed)
          /\ ChangedBy(read, trades[t], changed)
          /\ \/ /\ ~trades[t].closing /\ n \in 1..MaxQuantity
                /\ changed = AfterTrade(read, trades[t])
             \/ /\ trades[t].closing
                /\ trades[t].tradeType = Opposite(read.tradeType)
                /\ n \in (-MaxQuantity)..read.quantity
                /\ \/ n = read.quantity /\ ~changed.isOpen
                   \/ changed.isOpen /\ changed.quantity = read.quantity - n
  <2>1. CASE handlers[h].at = "save"
    <3>1. n \in 1..MaxQuantity
      BY <1>3, <2>1, PositionsAssumption
    <3>2. ChangedBy(read, trades[t], AfterTrade(read, trades[t]))
      BY <1>2, <1>3, <2>1, AfterTradeChanges
    <3>3. QED
      BY <1>1, <1>3, <2>1, <3>1, <3>2
  <2>2. CASE handlers[h].at = "closingSave"
    <3> DEFINE closed == AfterClose(read, n, handlers[h].text)
    <3>1. n \in (-MaxQuantity)..read.quantity
      BY <1>2, <1>3, <2>2, PositionsAssumption DEF PositionDoc
    <3>2. ChangedBy(read, trades[t], closed)
      BY <1>2, <1>3, <2>2, AfterCloseChanges
    <3>3. \/ n = read.quantity /\ ~closed.isOpen
          \/ closed.isOpen /\ closed.quantity = read.quantity - n
      BY <1>2, <1>3, <2>2, AfterCloseFields
    <3>4. SavePosition(h, closed)
      BY <1>1, <1>3, <2>2
    <3> HIDE DEF closed
    <3>5. QED
      BY <1>3, <2>2, <3>1, <3>2, <3>3, <3>4
  <2>3. QED
    BY <1>1, <2>1, <2>2
<1>5. /\ changed \in PositionDoc
      /\ changed = [read EXCEPT !.quantity = changed.quantity, !.isOpen = changed.isOpen]
  BY <1>4 DEF ChangedBy
<1>6. Merge(read, read, changed, t) = Settled(changed, t)
  BY <1>2, <1>5 DEF Merge, Settled, PositionDoc
<1>7. /\ positions' = [positions EXCEPT ![p] = Merge(positions[p], read, changed, t)]
      /\ Goto(h, IF rest = {} THEN Idle ELSE [Idle EXCEPT !.at = "close", !.todo = rest])
      /\ UNCHANGED <<trades, failed>>
  BY <1>4 DEF SavePosition
<1>8. QED
  BY <1>1, <1>2, <1>4, <1>5, <1>6, <1>7

LEMMA SavesInTurn ==
    ASSUME IInv, InTurn, OneAtATime', NEW h \in Handler,
           SaveFoundPosition(h) \/ SaveClosedPosition(h)
    PROVE  InTurn'
<1>1. handlers[h].at \in {"save", "closingSave"}
  BY DEF SaveFoundPosition, SaveClosedPosition
<1>2. CASE Fail(h)
  BY <1>1, <1>2, FailInTurn
<1>3. CASE ~Fail(h)
  <2> DEFINE rest == handlers[h].todo
             state == IF rest = {} THEN Idle
                      ELSE [Idle EXCEPT !.at = "close", !.todo = rest]
  <2>1. state.at \in {"idle", "close"} /\ state.quantity = 0
    BY DEF Idle
  <2>2. Goto(h, state) /\ UNCHANGED trades
    BY <1>3, SavesSettled
  <2> HIDE DEF state
  <2>3. UpToDate(h)'
    BY <2>1, <2>2, PositionsAssumption DEF Goto, IInv, TypeOK, UpToDate, HoldsPosition
  <2>4. \A g \in Handler : UpToDate(g)'
    BY <1>1, <2>2, <2>3, OnlyOneMoves
  <2> DEFINE p == handlers[h].position
             t == handlers[h].trade
             n == trades[t].quantity
             old == positions[p]
  <2>5. p \in Open /\ old \in PositionDoc
    BY <1>3, SavesSettled
  <2>6. PICK changed \in PositionDoc :
            /\ ChangedBy(old, trades[t], changed)
            /\ positions' = [positions EXCEPT ![p] = Settled(changed, t)]
            /\ trades[t].closing => n \in (-MaxQuantity)..old.quantity
    BY <1>3, SavesSettled
  <2>7. /\ t \in ExecutedIn(trades) \ old.relatedTrades
        /\ trades \in TradeCollection
    BY <1>1, <2>5, TradeInHand DEF HoldsTrade, Open
  <2>8. PICK doc : doc = Settled(changed, t)
    OBVIOUS
  <2>9. AddsUp(trades, doc)
    <3>1. trades[t].closing => n <= old.quantity
      BY <2>6
    <3>2. AddsUp(trades, old) /\ old.isOpen
      BY <2>5 DEF InTurn, Open
    <3>3. QED
      BY <2>5, <2>6, <2>7, <2>8, <3>1, <3>2, SettledAddsUp
  <2>10. \A q \in Stored' : positions'[q] = doc \/ (q \in Stored /\ positions'[q] = positions[q])
    <3> HIDE DEF p
    <3>1. positions' = [positions EXCEPT ![p] = doc]
      BY <2>6, <2>8
    <3>2. QED
      BY <3>1 DEF Stored, IInv, TypeOK
  <2>11. \A q \in Stored' : AddsUp(trades, positions'[q])
    BY <2>9, <2>10 DEF InTurn
  <2>12. QED
    BY <2>2, <2>4, <2>11 DEF InTurn
<1>4. QED
  BY <1>2, <1>3

\* A new position, of one trade.
LEMMA CreatePositionInTurn ==
    ASSUME IInv, InTurn, OneAtATime', NEW h \in Handler, CreatePosition(h)
    PROVE  InTurn'
<1>1. handlers[h].at = "create"
  BY DEF CreatePosition
<1>2. CASE Fail(h)
  BY <1>1, <1>2, FailInTurn
<1>3. CASE ~Fail(h)
  <2>1. PICK t, doc :
            /\ t = handlers[h].trade
            /\ doc = [userId |-> trades[t].userId, symbol |-> trades[t].symbol,
                      tradeType |-> trades[t].tradeType,
                      quantity |-> trades[t].quantity, isOpen |-> TRUE,
                      triggered |-> handlers[h].triggered, relatedTrades |-> {t}]
    OBVIOUS
  <2>2. PICK p \in PositionId \ Stored :
            /\ positions' = [positions EXCEPT ![p] = doc]
            /\ Goto(h, Idle)
            /\ UNCHANGED <<trades, failed>>
    BY <1>3, <2>1 DEF CreatePosition
  <2>3. UpToDate(h)'
    BY <2>2 DEF Goto, IInv, TypeOK, UpToDate, Idle, HoldsPosition
  <2>4. \A g \in Handler : UpToDate(g)'
    BY <1>1, <2>2, <2>3, OnlyOneMoves
  <2>5. /\ trades \in TradeCollection /\ t \in ExecutedIn(trades)
        /\ trades[t].quantity \in Nat
    BY <1>1, <2>1, TradeInHand DEF HoldsTrade, IInv, Handlers, TradeFits
  <2>6. AddsUp(trades, doc)
    <3>1. /\ doc.relatedTrades = {t} /\ doc.quantity = trades[t].quantity
          /\ doc.tradeType = trades[t].tradeType
      BY <2>1
    <3>2. QED
      BY <2>5, <3>1, SumsOfOne DEF AddsUp
  <2>7. \A q \in Stored' : positions'[q] = doc \/ (q \in Stored /\ positions'[q] = positions[q])
    BY <2>2 DEF Stored, IInv, TypeOK
  <2>8. \A q \in Stored' : AddsUp(trades, positions'[q])
    BY <2>6, <2>7 DEF InTurn
  <2>9. QED
    BY <2>2, <2>4, <2>8 DEF InTurn
<1>4. QED
  BY <1>2, <1>3

LEMMA WriteSlTpInTurn ==
    ASSUME IInv, InTurn, OneAtATime', NEW h \in Handler, WriteSlTp(h)
    PROVE  InTurn'
<1>1. PICK p, doc : /\ p = handlers[h].position
                    /\ doc = [positions[p] EXCEPT !.triggered = handlers[h].triggered]
  OBVIOUS
<1>2. /\ handlers[h].at = "slTp" /\ p \in Stored /\ positions[p] \in PositionDoc
      /\ handlers[h].triggered \in BOOLEAN
  BY <1>1 DEF WriteSlTp, IInv, TypeOK, Handlers, WorkStored, HandlerState, Stored
<1>3. positions' = [positions EXCEPT ![p] = doc] /\ Goto(h, Idle) /\ UNCHANGED trades
  BY <1>1, <1>2 DEF WriteSlTp, IInv, TypeOK
<1>4. /\ doc.isOpen = positions[p].isOpen /\ doc.quantity = positions[p].quantity
      /\ doc.tradeType = positions[p].tradeType
      /\ doc.relatedTrades = positions[p].relatedTrades
  BY <1>1, <1>2 DEF PositionDoc
<1>5. UpToDate(h)'
  BY <1>3 DEF Goto, IInv, TypeOK, UpToDate, Idle, HoldsPosition
<1>6. \A g \in Handler : UpToDate(g)'
  BY <1>2, <1>3, <1>5, OnlyOneMoves
<1>7. AddsUp(trades, doc)
  <2>1. AddsUp(trades, positions[p])
    BY <1>2 DEF InTurn
  <2>2. QED
    BY <1>4, <2>1 DEF AddsUp, Added, Taken, Closed, AddingIn, TakingIn, ClosingIn, Adds
<1>8. \A q \in Stored' : positions'[q] = doc \/ (q \in Stored /\ positions'[q] = positions[q])
  BY <1>3 DEF Stored, IInv, TypeOK
<1>9. \A q \in Stored' : AddsUp(trades, positions'[q])
  BY <1>7, <1>8 DEF InTurn
<1>10. QED
  BY <1>3, <1>6, <1>9 DEF InTurn

LEMMA NextInTurn == IInv /\ InTurn /\ OneAtATime' /\ [Next]_vars => InTurn'
<1> SUFFICES ASSUME IInv, InTurn, OneAtATime', [Next]_vars PROVE InTurn'
  OBVIOUS
<1>1. CASE UNCHANGED vars
  BY <1>1 DEF vars, InTurn, UpToDate, OneAtATime, Busy, Stored, AddsUp, ExecutedIn, Added,
     Taken, Closed, AddingIn, TakingIn, ClosingIn, Adds, Sum
<1>2. ASSUME NEW h \in Handler, Request(h) PROVE InTurn'
  <2>1. ASSUME NEW todo, NEW text, StartClosing(h, todo, 0, text) PROVE InTurn'
    <3>1. 0 \in Int /\ -MaxQuantity <= 0
      BY PositionsAssumption
    <3>2. QED
      BY <2>1, <3>1, StartClosingInTurn
  <2>2. ASSUME NEW p \in PositionId, NEW n \in CloseInput, NEW text \in BOOLEAN,
               RequestClose(h, p, n, text)
        PROVE  InTurn'
    <3>1. n \in Int /\ -MaxQuantity <= n
      BY PositionsAssumption
    <3>2. QED
      BY <2>2, <3>1, StartClosingInTurn DEF RequestClose
  <2>3. QED
    BY <1>2, <2>1, <2>2, PlaceMarketOrderInTurn, ReadToSetSlTpInTurn
       DEF Request, RequestCloseAll, PriceSweep
<1>3. ASSUME NEW h \in Handler, Continue(h) PROVE InTurn'
  BY <1>3, FindOpenPositionInTurn, SavesInTurn, CreatePositionInTurn,
     ReadToCloseInTurn, SaveClosingTradeInTurn, WriteSlTpInTurn DEF Continue
<1>4. ASSUME NEW h \in Handler, Abort(h) PROVE InTurn'
  BY <1>4, FailInTurn DEF Abort
<1>5. QED
  BY <1>1, <1>2, <1>3, <1>4 DEF Next

AloneInv == IInv /\ (alone => InTurn)

LEMMA AloneSpecInv == AloneSpec => []AloneInv
<1>1. MCInit => AloneInv
  <2> SUFFICES ASSUME Init PROVE InTurn /\ IInv
    BY DEF MCInit, AloneInv
  <2>1. Stored = {} /\ \A h \in Handler : handlers[h].at = "idle"
    BY DEF Init, Stored, Idle
  <2>2. QED
    BY <2>1, InitIInv DEF InTurn, OneAtATime, Busy, UpToDate, HoldsPosition
<1>2. AloneInv /\ [Next /\ Watch]_<<vars, alone>> => AloneInv'
  <2>1. ASSUME AloneInv, Next, Watch PROVE AloneInv'
    BY <2>1, NextIInv, NextInTurn DEF AloneInv, Watch
  <2>2. ASSUME AloneInv, UNCHANGED <<vars, alone>> PROVE AloneInv'
    <3>1. IInv'
      BY <2>2, NextIInv DEF AloneInv
    <3>2. OneAtATime => OneAtATime'
      BY <2>2 DEF vars, OneAtATime, Busy
    <3>3. QED
      BY <2>2, <3>1, <3>2, NextInTurn DEF AloneInv, InTurn
  <2>3. QED
    BY <2>1, <2>2
<1>3. QED
  BY <1>1, <1>2, PTL DEF AloneSpec

LEMMA InTurnSums == IInv /\ InTurn => OpenQuantityIsNet /\ ClosingsWithinPosition
<1> SUFFICES ASSUME IInv, InTurn PROVE OpenQuantityIsNet /\ ClosingsWithinPosition
  OBVIOUS
<1>1. \A p \in Stored :
          /\ AddsUp(trades, positions[p])
          /\ Total(Adding(p)) = Added(trades, positions[p])
          /\ Total(Taking(p)) = Taken(trades, positions[p])
          /\ Total({t \in Taking(p) : trades[t].closing}) = Closed(trades, positions[p])
  BY SumsOfPositions DEF InTurn, Added, Taken, Closed, ClosingIn, Stored
<1>2. QED
  BY <1>1 DEF AddsUp, OpenQuantityIsNet, ClosingsWithinPosition, Open

\* While requests come one at a time, an open position's quantity is what its
\* trades add up to (updatePosition, closePosition).
THEOREM QuantityIsNet == AloneSpec => []QuantityIsNetAlone
<1>1. AloneInv => QuantityIsNetAlone
  BY InTurnSums DEF AloneInv, QuantityIsNetAlone
<1>2. QED
  BY <1>1, AloneSpecInv, PTL

\* While requests come one at a time, no more of a position is closed than was
\* traded onto it (closePosition's check of the requested quantity).
THEOREM ClosingsWithin == AloneSpec => []ClosingsWithinAlone
<1>1. AloneInv => ClosingsWithinAlone
  BY InTurnSums DEF AloneInv, ClosingsWithinAlone
<1>2. QED
  BY <1>1, AloneSpecInv, PTL

-----------------------------------------------------------------------------
(* Requests one at a time implement the position book.                     *)

Key == User \X Symbol

KeyOf(doc) == <<doc.userId, doc.symbol>>

Holding(doc) == [side |-> doc.tradeType, quantity |-> doc.quantity]

\* The book of a positions collection.
OpenAt(P, k) == {p \in PositionId : P[p] # None /\ P[p].isOpen /\ KeyOf(P[p]) = k}

BookOf(P) ==
    [k \in Key |-> IF OpenAt(P, k) = {} THEN None
                   ELSE Holding(P[CHOOSE p \in OpenAt(P, k) : TRUE])]

OneOpenAt(P) == \A k \in Key : \A p, q \in OpenAt(P, k) : p = q

LEMMA BookIsBookOf == Book = BookOf(positions)
<1>1. \A k : {p \in Open : <<positions[p].userId, positions[p].symbol>> = k}
                = OpenAt(positions, k)
  BY DEF Open, Stored, OpenAt, KeyOf
<1>2. QED
  BY <1>1 DEF Book, BookOf, Key, Flat, Holding

LEMMA BookIsBookOfNext == Book' = BookOf(positions')
<1>1. \A k : {p \in Open : <<positions[p].userId, positions[p].symbol>> = k}'
                = OpenAt(positions', k)
  BY DEF Open, Stored, OpenAt, KeyOf
<1>2. Book' = [k \in Key |->
                  IF {p \in Open : <<positions[p].userId, positions[p].symbol>> = k}' = {}
                  THEN None
                  ELSE Holding(positions'[CHOOSE p \in {p \in Open :
                      <<positions[p].userId, positions[p].symbol>> = k}' : TRUE])]
  BY DEF Book, Key, Flat, Holding
<1>3. QED
  BY <1>1, <1>2 DEF BookOf

\* The entry of a key is that of its one open position.
LEMMA BookEntry ==
    ASSUME NEW P, OneOpenAt(P), NEW k \in Key
    PROVE  /\ OpenAt(P, k) = {} => BookOf(P)[k] = None
           /\ \A p \in OpenAt(P, k) : BookOf(P)[k] = Holding(P[p])
  BY DEF BookOf, OneOpenAt

\* Saving a document changes the entry of its key alone.
LEMMA BookAfterSave ==
    ASSUME NEW P \in PositionCollection, NEW Q, NEW p \in PositionId, NEW doc \in PositionDoc,
           Q[p] = doc, \A q \in PositionId \ {p} : Q[q] = P[q],
           OneOpenAt(P), OneOpenAt(Q),
           P[p] = None \/ (P[p].isOpen /\ KeyOf(P[p]) = KeyOf(doc)),
           P[p] = None => OpenAt(P, KeyOf(doc)) = {}
    PROVE  /\ KeyOf(doc) \in Key
           /\ BookOf(P)[KeyOf(doc)] = IF P[p] = None THEN None ELSE Holding(P[p])
           /\ BookOf(Q) = [BookOf(P) EXCEPT ![KeyOf(doc)] =
                              IF doc.isOpen THEN Holding(doc) ELSE None]
<1> DEFINE k == KeyOf(doc)
<1>1. /\ k \in Key /\ doc # None
      /\ Q[p] = doc /\ \A q \in PositionId \ {p} : Q[q] = P[q]
  BY PositionsAssumption DEF PositionDoc, KeyOf, Key, PositionCollection
<1>2. BookOf(P)[k] = IF P[p] = None THEN None ELSE Holding(P[p])
  <2>1. CASE P[p] = None
    BY <1>1, <2>1, BookEntry
  <2>2. CASE P[p] # None
    <3>1. p \in OpenAt(P, k)
      BY <2>2 DEF OpenAt
    <3>2. QED
      BY <1>1, <2>2, <3>1, BookEntry
  <2>3. QED
    BY <2>1, <2>2
<1>3. BookOf(Q)[k] = IF doc.isOpen THEN Holding(doc) ELSE None
  <2>1. CASE doc.isOpen
    <3>1. p \in OpenAt(Q, k)
      BY <1>1, <2>1 DEF OpenAt
    <3>2. BookOf(Q)[k] = Holding(Q[p])
      BY <1>1, <3>1, BookEntry
    <3>3. QED
      BY <1>1, <2>1, <3>2
  <2>2. CASE ~doc.isOpen
    <3>1. ASSUME NEW q \in OpenAt(Q, k) PROVE FALSE
      <4>1. q # p /\ q \in OpenAt(P, k)
        BY <1>1, <2>2 DEF OpenAt
      <4>2. P[p] # None
        BY <4>1
      <4>3. p \in OpenAt(P, k)
        BY <4>2 DEF OpenAt
      <4>4. QED
        BY <1>1, <4>1, <4>3 DEF OneOpenAt
    <3>2. OpenAt(Q, k) = {}
      BY <3>1
    <3>3. QED
      BY <1>1, <2>2, <3>2, BookEntry
  <2>3. QED
    BY <2>1, <2>2
<1>4. ASSUME NEW j \in Key \ {k} PROVE BookOf(Q)[j] = BookOf(P)[j]
  <2>1. OpenAt(Q, j) = OpenAt(P, j) /\ p \notin OpenAt(P, j)
    BY <1>1 DEF OpenAt
  <2>2. CASE OpenAt(P, j) = {}
    BY <2>1, <2>2, BookEntry
  <2>3. ASSUME NEW q \in OpenAt(P, j) PROVE BookOf(Q)[j] = BookOf(P)[j]
    <3>1. BookOf(Q)[j] = Holding(Q[q]) /\ BookOf(P)[j] = Holding(P[q])
      BY <2>1, <2>3, BookEntry
    <3>2. Q[q] = P[q]
      BY <1>1, <2>1, <2>3 DEF OpenAt
    <3>3. QED
      BY <3>1, <3>2
  <2>4. QED
    BY <2>2, <2>3
<1>5. BookOf(Q) = [BookOf(P) EXCEPT ![k] = IF doc.isOpen THEN Holding(doc) ELSE None]
  <2> DEFINE B == BookOf(P)
             C == BookOf(Q)
             entry == IF doc.isOpen THEN Holding(doc) ELSE None
  <2>1. B = [j \in Key |-> B[j]] /\ C = [j \in Key |-> C[j]]
    BY DEF BookOf
  <2>2. C[k] = entry /\ \A j \in Key \ {k} : C[j] = B[j]
    BY <1>3, <1>4
  <2> HIDE DEF B, C, entry, k
  <2>3. C = [B EXCEPT ![k] = entry]
    BY <1>1, <2>1, <2>2
  <2>4. QED
    BY <2>3 DEF B, C, entry, k
<1>6. QED
  BY <1>1, <1>2, <1>5

LEMMA OneOpenIn ==
    ASSUME NEW P \in PositionCollection,
           \A p, q \in {p \in PositionId : P[p] # None} :
               IndexKey(P[p]) = IndexKey(P[q]) => p = q
    PROVE  OneOpenAt(P)
<1> SUFFICES ASSUME NEW k \in Key, NEW p \in OpenAt(P, k), NEW q \in OpenAt(P, k)
             PROVE  p = q
  BY DEF OneOpenAt
<1>1. /\ p \in PositionId /\ q \in PositionId /\ P[p] # None /\ P[q] # None
      /\ KeyOf(P[p]) = k /\ KeyOf(P[q]) = k /\ P[p].isOpen /\ P[q].isOpen
  BY DEF OpenAt
<1>2. P[p].isOpen = TRUE /\ P[q].isOpen = TRUE
  BY <1>1 DEF PositionCollection, PositionDoc
<1>3. IndexKey(P[p]) = IndexKey(P[q])
  BY <1>1, <1>2 DEF IndexKey, KeyOf
<1>4. QED
  BY <1>1, <1>3

LEMMA OneOpenOfIndex == IInv => OneOpenAt(positions) /\ positions \in PositionCollection
  BY OneOpenIn DEF IInv, TypeOK, IndexUnique, Stored, PositionCollection

LEMMA OneOpenOfIndexNext == IInv' => OneOpenAt(positions') /\ positions' \in PositionCollection
  BY OneOpenIn DEF IInv, TypeOK, IndexUnique, Stored, PositionCollection

\* Nothing is attached, and what was attached stays as it was.
LEMMA BookStays ==
    ASSUME IInv, UNCHANGED positions,
           \A t \in ExecutedIn(trades) : trades'[t] = trades[t]
    PROVE  <<Book, Applied>>' = <<Book, Applied>>
<1>1. Book' = Book
  BY BookIsBookOf, BookIsBookOfNext
<1>2. Attached' = Attached /\ Attached \subseteq ExecutedIn(trades)
  <2>1. Attached' = Attached
    BY DEF Attached, Stored
  <2>2. ASSUME NEW p \in Stored, NEW t \in positions[p].relatedTrades
        PROVE  t \in ExecutedIn(trades)
    BY DEF Stored, IInv, TypeOK, PositionDoc, TradesMatchPosition, ExecutedIn
  <2>3. QED
    BY <2>1, <2>2 DEF Attached
<1>3. \A t \in Attached : trades'[t] = trades[t]
  BY <1>2
<1>4. Applied' = Applied
  BY <1>2, <1>3 DEF Applied, Flat
<1>5. QED
  BY <1>1, <1>4

\* A save that attaches the trade t to a position of its user and symbol is
\* one trade of the book.
LEMMA AttachAppliesTrade ==
    ASSUME IInv, IInv', NEW t \in TradeId, NEW p \in PositionId, NEW doc \in PositionDoc,
           trades[t] \in TradeDoc,
           UNCHANGED trades,
           positions' = [positions EXCEPT ![p] = doc],
           positions[p] = None \/ (positions[p].isOpen /\ KeyOf(positions[p]) = KeyOf(doc)),
           positions[p] = None => OpenAt(positions, KeyOf(doc)) = {},
           \A q \in Stored : t \notin positions[q].relatedTrades,
           doc.relatedTrades = {t} \cup
               IF p \in Stored THEN positions[p].relatedTrades ELSE {}
    PROVE  /\ KeyOf(doc) \in Key
           /\ Book[KeyOf(doc)] =
                 IF positions[p] = None THEN None ELSE Holding(positions[p])
           /\ Book' = [Book EXCEPT ![KeyOf(doc)] =
                          IF doc.isOpen THEN Holding(doc) ELSE None]
           /\ Applied[t] = None
           /\ Applied' = [Applied EXCEPT ![t] =
                [side |-> trades[t].tradeType, quantity |-> trades[t].quantity]]
<1>1. /\ KeyOf(doc) \in Key
      /\ BookOf(positions)[KeyOf(doc)] =
            IF positions[p] = None THEN None ELSE Holding(positions[p])
      /\ BookOf(positions') = [BookOf(positions) EXCEPT ![KeyOf(doc)] =
                                  IF doc.isOpen THEN Holding(doc) ELSE None]
  <2>1. /\ OneOpenAt(positions) /\ positions \in PositionCollection /\ OneOpenAt(positions')
    BY OneOpenOfIndex, OneOpenOfIndexNext
  <2>2. PICK P, Q : P = positions /\ Q = positions'
    OBVIOUS
  <2>3. /\ P \in PositionCollection /\ OneOpenAt(P) /\ OneOpenAt(Q)
        /\ Q[p] = doc /\ \A q \in PositionId \ {p} : Q[q] = P[q]
        /\ P[p] = None \/ (P[p].isOpen /\ KeyOf(P[p]) = KeyOf(doc))
        /\ P[p] = None => OpenAt(P, KeyOf(doc)) = {}
    BY <2>1, <2>2 DEF PositionCollection
  <2>4. /\ KeyOf(doc) \in Key
        /\ BookOf(P)[KeyOf(doc)] = IF P[p] = None THEN None ELSE Holding(P[p])
        /\ BookOf(Q) = [BookOf(P) EXCEPT ![KeyOf(doc)] =
                            IF doc.isOpen THEN Holding(doc) ELSE None]
    BY <2>3, BookAfterSave
  <2>5. QED
    BY <2>2, <2>4
<1>2. t \notin Attached
  BY DEF Attached
<1>3. Attached' = Attached \cup {t}
  <2>1. doc # None
    BY PositionsAssumption
  <2>2. /\ positions'[p] = doc
        /\ \A q \in PositionId \ {p} : positions'[q] = positions[q]
        /\ Stored' = Stored \cup {p}
    BY <2>1 DEF IInv, TypeOK, Stored
  <2>3. ASSUME NEW s \in Attached' PROVE s \in Attached \cup {t}
    BY <2>2, <2>3 DEF Attached
  <2>4. ASSUME NEW s \in Attached \cup {t} PROVE s \in Attached'
    BY <2>2, <2>4 DEF Attached
  <2>5. QED
    BY <2>3, <2>4
<1>4. Applied[t] = None
  BY <1>2 DEF Applied, Flat
<1>5. Applied' = [Applied EXCEPT ![t] =
          [side |-> trades[t].tradeType, quantity |-> trades[t].quantity]]
  BY <1>3 DEF Applied, Flat
<1>6. QED
  BY <1>1, <1>4, <1>5, BookIsBookOf, BookIsBookOfNext

\* A holding settles in the book as its document does in the collection.
LEMMA SettlesAlike ==
    ASSUME NEW old \in PositionDoc, old.isOpen, NEW doc \in PositionDoc,
           Holding(old) # None, NEW side \in Side, NEW n \in Nat,
           doc.tradeType = old.tradeType,
           side = old.tradeType => doc.isOpen = old.isOpen /\ doc.quantity = old.quantity + n,
           side # old.tradeType =>
               IF n >= old.quantity THEN ~doc.isOpen
               ELSE doc.isOpen = old.isOpen /\ doc.quantity = old.quantity - n
    PROVE  Account!Settle(Holding(old), [side |-> side, quantity |-> n])
              = IF doc.isOpen THEN Holding(doc) ELSE None
<1> DEFINE holding == Holding(old)
           trade == [side |-> side, quantity |-> n]
<1>1. /\ holding.side = old.tradeType /\ holding.quantity = old.quantity
      /\ trade.side = side /\ trade.quantity = n
      /\ \A q : [holding EXCEPT !.quantity = q] = [side |-> old.tradeType, quantity |-> q]
      /\ holding # None
  BY DEF Holding
<1>2. Holding(doc) = [side |-> old.tradeType, quantity |-> doc.quantity]
  BY DEF Holding
<1> HIDE DEF holding, trade
<1>3. Account!Settle(holding, trade) =
          IF side = old.tradeType THEN [holding EXCEPT !.quantity = old.quantity + n]
          ELSE IF n >= old.quantity THEN None
               ELSE [holding EXCEPT !.quantity = old.quantity - n]
  BY <1>1 DEF Account!Settle, Flat
<1>4. Account!Settle(holding, trade) = IF doc.isOpen THEN Holding(doc) ELSE None
  <2>1. CASE side = old.tradeType
    BY <1>1, <1>2, <1>3, <2>1
  <2>2. CASE side # old.tradeType /\ n >= old.quantity
    BY <1>3, <2>2
  <2>3. CASE side # old.tradeType /\ ~(n >= old.quantity)
    BY <1>1, <1>2, <1>3, <2>3
  <2>4. QED
    BY <2>1, <2>2, <2>3
<1>5. QED
  BY <1>4 DEF holding, trade

\* The saves of a position that was read settle the trade as the book does.
LEMMA SavesApplyTrade ==
    ASSUME IInv, IInv', InTurn, NEW h \in Handler, ~Fail(h),
           SaveFoundPosition(h) \/ SaveClosedPosition(h)
    PROVE  Account!Next
<1> DEFINE p == handlers[h].position
           t == handlers[h].trade
           old == positions[p]
           n == trades[t].quantity
           side == trades[t].tradeType
           k == KeyOf(old)
           trade == [side |-> side, quantity |-> n]
<1>1. /\ handlers[h].at \in HoldsTrade
      /\ p \in Open /\ old \in PositionDoc
      /\ KeyOf(trades[t]) = KeyOf(old)
      /\ UNCHANGED trades
  BY SavesSettled DEF HoldsTrade, KeyOf
<1>2. PICK changed \in PositionDoc :
          /\ ChangedBy(old, trades[t], changed)
          /\ positions' = [positions EXCEPT ![p] = Settled(changed, t)]
          /\ \/ /\ ~trades[t].closing /\ n \in 1..MaxQuantity
                /\ changed = AfterTrade(old, trades[t])
             \/ /\ trades[t].closing
                /\ side = Opposite(old.tradeType)
                /\ n \in (-MaxQuantity)..old.quantity
                /\ \/ n = old.quantity /\ ~changed.isOpen
                   \/ changed.isOpen /\ changed.quantity = old.quantity - n
  BY SavesSettled
<1>3. /\ trades \in TradeCollection /\ t \in ExecutedIn(trades) /\ t \in TradeId
      /\ trades[t] \in TradeDoc
      /\ \A q \in Stored : t \notin positions[q].relatedTrades
  BY <1>1, TradeInHand DEF ExecutedIn
<1>4. PICK doc : doc = Settled(changed, t)
  OBVIOUS
<1>5. /\ doc \in PositionDoc /\ KeyOf(doc) = k
      /\ doc.tradeType = old.tradeType
      /\ doc.relatedTrades = old.relatedTrades \cup {t}
      /\ doc.quantity = changed.quantity /\ doc.isOpen = changed.isOpen
  <2>1. /\ changed.userId = old.userId /\ changed.symbol = old.symbol
        /\ changed.tradeType = old.tradeType
        /\ changed.relatedTrades = old.relatedTrades
    BY <1>1, <1>2 DEF ChangedBy, PositionDoc
  <2>2. QED
    BY <1>3, <1>4, <2>1 DEF Settled, KeyOf, PositionDoc
<1>6. p \in Stored /\ p \in PositionId /\ old # None /\ old.isOpen
  BY <1>1 DEF Open, Stored
<1>7. /\ k \in Key
      /\ Book[k] = Holding(old)
      /\ Book' = [Book EXCEPT ![k] = IF doc.isOpen THEN Holding(doc) ELSE None]
      /\ Applied[t] = None
      /\ Applied' = [Applied EXCEPT ![t] = trade]
  <2>1. positions' = [positions EXCEPT ![p] = doc] /\ UNCHANGED trades
    BY <1>1, <1>2, <1>4
  <2>2. /\ positions[p] # None /\ positions[p].isOpen
        /\ KeyOf(positions[p]) = KeyOf(doc)
        /\ doc.relatedTrades = {t} \cup
               IF p \in Stored THEN positions[p].relatedTrades ELSE {}
    BY <1>5, <1>6
  <2> HIDE DEF p, t
  <2>3. /\ KeyOf(doc) \in Key
        /\ Book[KeyOf(doc)] = IF positions[p] = None THEN None ELSE Holding(positions[p])
        /\ Book' = [Book EXCEPT ![KeyOf(doc)] =
                       IF doc.isOpen THEN Holding(doc) ELSE None]
        /\ Applied[t] = None
        /\ Applied' = [Applied EXCEPT ![t] = trade]
    BY <1>3, <1>5, <1>6, <2>1, <2>2, AttachAppliesTrade
  <2>4. QED
    BY <1>5, <2>2, <2>3
<1>8. Holding(old) # None
  <2>1. Holding(old) \in [side : Side, quantity : Nat]
    BY <1>1 DEF Holding, PositionDoc
  <2>2. QED
    BY <2>1, PositionsAssumption
<1>9. CASE ~trades[t].closing
  <2>1. n \in 1..MaxQuantity /\ changed = AfterTrade(old, trades[t])
    BY <1>2, <1>9
  <2>2. n \in Nat \ {0} /\ n \in Nat
    BY <2>1, PositionsAssumption
  <2>3. /\ side = old.tradeType =>
              doc.isOpen = old.isOpen /\ doc.quantity = old.quantity + n
        /\ side # old.tradeType =>
              IF n >= old.quantity THEN ~doc.isOpen
              ELSE doc.isOpen = old.isOpen /\ doc.quantity = old.quantity - n
    BY <1>1, <1>3, <1>5, <2>1, <2>2, AfterTradeFields
  <2>4. side \in Side
    BY <1>3 DEF TradeDoc
  <2>5. Account!Settle(Holding(old), trade) = IF doc.isOpen THEN Holding(doc) ELSE None
    <3> HIDE DEF old, n, side
    <3>1. QED
      BY <1>1, <1>5, <1>6, <1>8, <2>2, <2>3, <2>4, SettlesAlike
  <2>6. Account!Apply(t, k, side, n)
    BY <1>7, <2>5 DEF Account!Apply, Flat
  <2>7. Account!Order(t, k)
    BY <2>1, <2>4, <2>6 DEF Account!Order, Account!Side, Side
  <2>8. QED
    BY <1>3, <1>7, <2>7 DEF Account!Next, Account!Key, Key
<1>10. CASE trades[t].closing
  <2>1. /\ side \in Side \ {old.tradeType}
        /\ n \in (-MaxQuantity)..old.quantity
        /\ \/ n = old.quantity /\ ~doc.isOpen
           \/ doc.isOpen /\ doc.quantity = old.quantity - n
    <3>1. Opposite(old.tradeType) \in Side \ {old.tradeType}
      BY <1>1 DEF Opposite, Side, PositionDoc
    <3>2. QED
      BY <1>2, <1>5, <1>10, <3>1
  <2>2. /\ Book[k].side = old.tradeType /\ Book[k].quantity = old.quantity
        /\ Book[k] # None
        /\ [Book[k] EXCEPT !.quantity = old.quantity - n]
              = [side |-> old.tradeType, quantity |-> old.quantity - n]
        /\ [Book EXCEPT ![k].quantity = @ - n]
              = [Book EXCEPT ![k] = [Book[k] EXCEPT !.quantity = Book[k].quantity - n]]
    BY <1>7, <1>8 DEF Holding
  <2>3. \/ Book' = [Book EXCEPT ![k].quantity = @ - n]
        \/ n = old.quantity /\ Book' = [Book EXCEPT ![k] = None]
    <3>1. CASE n = old.quantity /\ ~doc.isOpen
      BY <1>7, <3>1
    <3>2. CASE doc.isOpen /\ doc.quantity = old.quantity - n
      <4>1. Holding(doc) = [side |-> old.tradeType, quantity |-> old.quantity - n]
        BY <1>5, <3>2 DEF Holding
      <4>2. QED
        BY <1>7, <2>2, <3>2, <4>1
    <3>3. QED
      BY <2>1, <3>1, <3>2
  <2>4. Account!Close(t, k)
    BY <1>7, <2>1, <2>2, <2>3 DEF Account!Close, Account!Side, Side, Flat
  <2>5. QED
    BY <1>3, <1>7, <2>4 DEF Account!Next, Account!Key, Key
<1>11. QED
  BY <1>9, <1>10

LEMMA CreateAppliesTrade ==
    ASSUME IInv, IInv', InTurn, NEW h \in Handler, ~Fail(h), CreatePosition(h)
    PROVE  Account!Next
<1>1. PICK t, doc :
          /\ t = handlers[h].trade
          /\ doc = [userId |-> trades[t].userId, symbol |-> trades[t].symbol,
                    tradeType |-> trades[t].tradeType,
                    quantity |-> trades[t].quantity, isOpen |-> TRUE,
                    triggered |-> handlers[h].triggered, relatedTrades |-> {t}]
  OBVIOUS
<1>2. PICK p \in PositionId \ Stored :
          /\ ~Duplicate(p, doc)
          /\ positions' = [positions EXCEPT ![p] = doc]
          /\ UNCHANGED trades
  BY <1>1 DEF CreatePosition
<1> DEFINE n == trades[t].quantity
           side == trades[t].tradeType
           k == KeyOf(doc)
           trade == [side |-> side, quantity |-> n]
<1>3. /\ handlers[h].at = "create" /\ handlers[h].triggered \in BOOLEAN
      /\ UpToDate(h) /\ TradeFits(h)
  BY DEF CreatePosition, IInv, TypeOK, HandlerState, Handlers, InTurn
<1>4. /\ t \in ExecutedIn(trades) /\ t \in TradeId /\ trades[t] \in TradeDoc
      /\ \A q \in Stored : t \notin positions[q].relatedTrades
      /\ n \in 1..MaxQuantity /\ n \in Nat
  BY <1>1, <1>3, TradeInHand, PositionsAssumption
     DEF ExecutedIn, HoldsTrade, UpToDate, TradeFits
<1>5. doc \in PositionDoc /\ doc.isOpen = TRUE
  BY <1>1, <1>3, <1>4 DEF PositionDoc, TradeDoc
<1>6. KeyOf(doc) = KeyOf(trades[t]) /\ Holding(doc) = trade /\ doc.relatedTrades = {t}
  BY <1>1 DEF KeyOf, Holding
<1>7. OpenAt(positions, k) = {}
  <2> SUFFICES ASSUME NEW q \in OpenAt(positions, k) PROVE FALSE
    OBVIOUS
  <2>1. /\ q \in PositionId /\ positions[q] # None /\ positions[q].isOpen
        /\ KeyOf(positions[q]) = KeyOf(doc)
    BY DEF OpenAt
  <2>2. q \in Stored \ {p} /\ positions[q].isOpen = TRUE
    BY <2>1 DEF Stored, IInv, TypeOK, PositionDoc
  <2>3. IndexKey(positions[q]) = IndexKey(doc)
    BY <1>5, <2>1, <2>2 DEF IndexKey, KeyOf
  <2>4. QED
    BY <1>2, <2>2, <2>3 DEF Duplicate
<1>8. p \notin Stored /\ p \in PositionId /\ positions[p] = None
  BY <1>2 DEF Stored
<1>9. /\ k \in Key
      /\ Book[k] = None
      /\ Book' = [Book EXCEPT ![k] = trade]
      /\ Applied[t] = None
      /\ Applied' = [Applied EXCEPT ![t] = trade]
  BY <1>2, <1>4, <1>5, <1>6, <1>7, <1>8, AttachAppliesTrade
<1>10. Account!Apply(t, k, side, n)
  BY <1>9 DEF Account!Apply, Account!Settle, Flat
<1>11. Account!Order(t, k)
  BY <1>4, <1>10 DEF Account!Order, Account!Side, TradeDoc, Side
<1>12. QED
  BY <1>4, <1>9, <1>11 DEF Account!Next, Account!Key, Key

\* Setting the stop loss and the take profit is nothing to the book.
LEMMA WriteSlTpBook ==
    ASSUME IInv, IInv', NEW h \in Handler, WriteSlTp(h)
    PROVE  <<Book, Applied>>' = <<Book, Applied>>
<1>1. PICK p, doc : /\ p = handlers[h].position
                    /\ doc = [positions[p] EXCEPT !.triggered = handlers[h].triggered]
  OBVIOUS
<1>2. /\ p \in Stored /\ p \in PositionId /\ positions[p] \in PositionDoc
      /\ handlers[h].triggered \in BOOLEAN
  BY <1>1 DEF WriteSlTp, IInv, TypeOK, Handlers, WorkStored, HandlerState, Stored
<1>3. positions' = [positions EXCEPT ![p] = doc] /\ UNCHANGED trades
  BY <1>1, <1>2 DEF WriteSlTp, IInv, TypeOK
<1>4. /\ doc \in PositionDoc /\ doc # None
      /\ doc.isOpen = positions[p].isOpen
      /\ KeyOf(doc) = KeyOf(positions[p]) /\ Holding(doc) = Holding(positions[p])
      /\ doc.relatedTrades = positions[p].relatedTrades
  BY <1>1, <1>2, PositionsAssumption DEF PositionDoc, KeyOf, Holding
<1>5. /\ positions'[p] = doc
      /\ \A q \in PositionId \ {p} : positions'[q] = positions[q]
      /\ Stored' = Stored
  BY <1>2, <1>3, <1>4 DEF IInv, TypeOK, Stored
<1>6. Attached' = Attached
  BY <1>4, <1>5 DEF Attached, Stored
<1>7. PICK P, Q : P = positions /\ Q = positions'
  OBVIOUS
<1>8. BookOf(Q) = BookOf(P)
  <2>1. \A q \in PositionId :
            /\ Q[q] = None <=> P[q] = None
            /\ Q[q] # None => /\ Q[q].isOpen = P[q].isOpen
                              /\ KeyOf(Q[q]) = KeyOf(P[q])
                              /\ Holding(Q[q]) = Holding(P[q])
    BY <1>2, <1>4, <1>5, <1>7 DEF Stored
  <2>2. \A k : OpenAt(Q, k) = OpenAt(P, k)
    BY <2>1 DEF OpenAt
  <2>3. ASSUME NEW k \in Key, OpenAt(P, k) # {}
        PROVE  LET p0 == CHOOSE p0 \in OpenAt(P, k) : TRUE IN Holding(Q[p0]) = Holding(P[p0])
    <3>1. (CHOOSE p0 \in OpenAt(P, k) : TRUE) \in OpenAt(P, k)
      BY <2>3
    <3>2. QED
      BY <2>1, <3>1 DEF OpenAt
  <2>4. QED
    BY <2>2, <2>3 DEF BookOf
<1>9. Applied' = Applied
  BY <1>3, <1>6 DEF Applied, Flat
<1>10. QED
  BY <1>7, <1>8, <1>9, BookIsBookOf, BookIsBookOfNext

LEMMA NextBook ==
    IInv /\ IInv' /\ InTurn /\ [Next]_vars =>
        Account!Next \/ <<Book, Applied>>' = <<Book, Applied>>
<1> SUFFICES ASSUME IInv, IInv', InTurn, [Next]_vars
             PROVE  Account!Next \/ <<Book, Applied>>' = <<Book, Applied>>
  OBVIOUS
<1>1. CASE UNCHANGED vars
  BY <1>1, BookStays DEF vars
<1>2. ASSUME NEW h \in Handler, Fail(h)
      PROVE  <<Book, Applied>>' = <<Book, Applied>>
  BY <1>2, BookStays DEF Fail
<1>3. ASSUME UNCHANGED positions,
             \/ UNCHANGED trades
             \/ \E t \in TradeId : \E doc :
                   trades[t] = None /\ trades' = [trades EXCEPT ![t] = doc]
      PROVE  <<Book, Applied>>' = <<Book, Applied>>
  <2>1. \A t \in ExecutedIn(trades) : trades'[t] = trades[t]
    BY <1>3 DEF ExecutedIn, IInv, TypeOK
  <2>2. QED
    BY <1>3, <2>1, BookStays
<1>4. ASSUME NEW h \in Handler, ~Fail(h),
             Request(h) \/ FindOpenPosition(h) \/ ReadToClose(h) \/ SaveClosingTrade(h)
      PROVE  <<Book, Applied>>' = <<Book, Applied>>
  <2>1. UNCHANGED positions
    BY <1>4 DEF Request, PlaceMarketOrder, SaveTrade, RequestClose, RequestCloseAll,
       PriceSweep, StartClosing, ReadToSetSlTp, FindOpenPosition, ReadToClose,
       SaveClosingTrade
  <2>2. \/ UNCHANGED trades
        \/ \E t \in TradeId : \E doc :
              trades[t] = None /\ trades' = [trades EXCEPT ![t] = doc]
    BY <1>4 DEF Request, PlaceMarketOrder, SaveTrade, RequestClose, RequestCloseAll,
       PriceSweep, StartClosing, ReadToSetSlTp, FindOpenPosition, ReadToClose,
       SaveClosingTrade
  <2>3. QED
    BY <1>3, <2>1, <2>2
<1>5. ASSUME NEW h \in Handler, ~Fail(h),
             SaveFoundPosition(h) \/ SaveClosedPosition(h) \/ CreatePosition(h)
      PROVE  Account!Next
  BY <1>5, SavesApplyTrade, CreateAppliesTrade
<1>6. QED
  BY <1>1, <1>2, <1>4, <1>5, WriteSlTpBook DEF Next, Continue, Abort

\* While requests come one at a time, the service implements the position
\* book: each step is one trade taking effect once and whole on the position
\* as it is, or nothing to the book, wherever a request fails
\* (executeMarketOrder, updatePosition, closePosition).
THEOREM ImplementsBookInTurn == AloneSpec => ImplementsBookAlone
<1>1. MCInit => Account!Init
  <2> SUFFICES ASSUME Init PROVE Account!Init
    BY DEF MCInit
  <2>1. Open = {} /\ Attached = {}
    BY DEF Init, Open, Stored, Attached
  <2>2. QED
    BY <2>1 DEF Account!Init, Account!Key, Book, Applied, Flat
<1>2. AloneInv /\ AloneInv' /\ [Next /\ Watch]_<<vars, alone>> =>
          [alone' /\ <<Book, Applied>>' # <<Book, Applied>> => Account!Next]_vars
  <2> SUFFICES ASSUME AloneInv, AloneInv', Next /\ Watch, alone',
                      <<Book, Applied>>' # <<Book, Applied>>
               PROVE  Account!Next
    BY DEF vars
  <2>1. IInv /\ IInv' /\ InTurn
    BY DEF AloneInv, Watch
  <2>2. QED
    BY <2>1, NextBook
<1>3. QED
  BY <1>1, <1>2, AloneSpecInv, PTL DEF AloneSpec, ImplementsBookAlone
=============================================================================
