--------------------------- MODULE Orders_proofs ----------------------------
(***************************************************************************)
(* Proofs about Orders, for any ids, handlers and terms.                   *)
(***************************************************************************)
EXTENDS MCOrders, TLAPS

(***************************************************************************)
(* The inductive invariant.  A request in progress may rely on three facts *)
(* that no other request undoes: the order it works on is stored, the legs *)
(* it holds are legs of one parent, and what it cancels is no market order *)
(* (the only orders that are ever executed).                               *)
(***************************************************************************)

\* Only market orders are executed, and they are from the start.
ExecutedIsMarket ==
    \A o \in Stored : orders[o].status = "Executed" <=> orders[o].kind = "Market"

AreLegsOf(S, o) ==
    \A c \in S : /\ c \in Stored
                 /\ orders[c].parent = o
                 /\ orders[c].kind = "Simple"

\* A list of legs is complete, and its orders are simple ones.
ListComplete ==
    \A o \in Stored :
        orders[o].children # {} =>
            /\ Cardinality(orders[o].children) = Legs[orders[o].kind]
            /\ AreLegsOf(orders[o].children, o)

\* What a handler holds while it places a parent order.
PlacementHeld(h) ==
    LET o == handlers[h].order
        legs == handlers[h].legs
    IN  /\ handlers[h].at \in {"legs", "link"} =>
              o \in Stored /\ AreLegsOf(legs, o)
        /\ handlers[h].at = "link" => Cardinality(legs) = Legs[orders[o].kind]

\* What a handler holds while it cancels or modifies an order.
UpdateHeld(h) ==
    LET o == handlers[h].order
    IN  /\ handlers[h].at \in {"cancelLegs", "cancelOrder", "modify"} => o \in Stored
        /\ handlers[h].at \in {"cancelLegs", "cancelOrder"} =>
              orders[o].kind # "Market"
        /\ handlers[h].at = "cancelLegs" => AreLegsOf(handlers[h].legs, o)

IInv == /\ TypeOK
        /\ ExecutedIsMarket
        /\ ListComplete
        /\ \A h \in Handler : PlacementHeld(h) /\ UpdateHeld(h)

LEMMA IdleType == Idle \in HandlerState
  BY OrdersAssumption DEF Idle, HandlerState, Stage

LEMMA NewOrderType ==
    ASSUME NEW kind \in Kind, NEW terms \in Terms, NEW parent \in OrderId \cup {None}
    PROVE  /\ NewOrder(kind, terms, parent) \in OrderDoc
           /\ NewOrder(kind, terms, parent) # None
  BY OrdersAssumption DEF NewOrder, OrderDoc, Status

LEMMA InitIInv == Init => IInv
<1> SUFFICES ASSUME Init PROVE IInv
  OBVIOUS
<1>1. TypeOK
  BY IdleType DEF Init, TypeOK
<1>2. Stored = {}
  BY DEF Init, Stored
<1>3. \A h \in Handler : handlers[h].at = "idle"
  BY DEF Init, Idle
<1>4. QED
  BY <1>1, <1>2, <1>3 DEF IInv, ExecutedIsMarket, ListComplete, PlacementHeld,
     UpdateHeld

-----------------------------------------------------------------------------
(* A step keeps the invariant when orders only appear or have their status *)
(* and terms changed, and the one handler that moves holds what it should. *)

\* What no step of the system undoes: a stored order stays, of the same kind,
\* under the same parent.
Grows == /\ Stored \subseteq Stored'
         /\ \A o \in Stored : /\ orders'[o].kind = orders[o].kind
                              /\ orders'[o].parent = orders[o].parent

LEMMA HandlersKept ==
    ASSUME IInv, Grows, NEW h \in Handler, NEW state, Goto(h, state),
           PlacementHeld(h)', UpdateHeld(h)'
    PROVE  \A g \in Handler : (PlacementHeld(g) /\ UpdateHeld(g))'
<1>1. SUFFICES ASSUME NEW g \in Handler, g # h
               PROVE  (PlacementHeld(g) /\ UpdateHeld(g))'
  OBVIOUS
<1>2. handlers'[g] = handlers[g]
  BY <1>1 DEF Goto, IInv, TypeOK
<1>3. \A S, o : AreLegsOf(S, o) => AreLegsOf(S, o)'
  BY DEF AreLegsOf, Grows
<1>4. QED
  BY <1>2, <1>3 DEF IInv, PlacementHeld, UpdateHeld, Grows

\* An order is inserted.
LEMMA InsertKeeps ==
    ASSUME IInv, NEW o \in OrderId \ Stored, NEW kind \in Kind, NEW terms \in Terms,
           NEW parent \in OrderId \cup {None},
           orders' = [orders EXCEPT ![o] = NewOrder(kind, terms, parent)]
    PROVE  /\ orders' \in [OrderId -> OrderDoc \cup {None}]
           /\ Stored' = Stored \cup {o}
           /\ orders'[o] = NewOrder(kind, terms, parent)
           /\ \A q \in Stored : orders'[q] = orders[q]
           /\ Grows
           /\ ExecutedIsMarket'
           /\ ListComplete'
<1>1. orders' \in [OrderId -> OrderDoc \cup {None}]
  BY NewOrderType DEF IInv, TypeOK
<1>2. /\ Stored' = Stored \cup {o}
      /\ orders'[o] = NewOrder(kind, terms, parent)
      /\ \A q \in Stored : orders'[q] = orders[q]
  BY NewOrderType DEF IInv, TypeOK, Stored
<1>3. Grows
  BY <1>2 DEF Grows
<1>4. ExecutedIsMarket'
  BY <1>2 DEF ExecutedIsMarket, IInv, NewOrder
<1>5. ListComplete'
  BY <1>2 DEF ListComplete, IInv, NewOrder, AreLegsOf
<1>6. QED
  BY <1>1, <1>2, <1>3, <1>4, <1>5

LEMMA PlaceSimpleIInv ==
    ASSUME IInv, NEW kind \in Kind, NEW terms \in Terms, PlaceSimple(kind, terms)
    PROVE  IInv'
<1>1. PICK o \in OrderId \ Stored :
          orders' = [orders EXCEPT ![o] = NewOrder(kind, terms, None)]
  BY DEF PlaceSimple
<1>2. handlers' = handlers
  BY DEF PlaceSimple
<1>3. /\ Grows /\ ExecutedIsMarket' /\ ListComplete'
      /\ orders' \in [OrderId -> OrderDoc \cup {None}]
  BY <1>1, InsertKeeps
<1>4. \A S, q : AreLegsOf(S, q) => AreLegsOf(S, q)'
  BY <1>3 DEF AreLegsOf, Grows
<1>5. \A h \in Handler : (PlacementHeld(h) /\ UpdateHeld(h))'
  BY <1>2, <1>3, <1>4 DEF IInv, PlacementHeld, UpdateHeld, Grows
<1>6. QED
  BY <1>2, <1>3, <1>5 DEF IInv, TypeOK

LEMMA PlaceParentIInv ==
    ASSUME IInv, NEW h \in Handler, NEW kind \in Kind, NEW terms \in Terms,
           PlaceParent(h, kind, terms)
    PROVE  IInv'
<1>1. PICK o \in OrderId \ Stored :
          /\ orders' = [orders EXCEPT ![o] = NewOrder(kind, terms, None)]
          /\ Goto(h, [Idle EXCEPT !.at = "legs", !.order = o, !.terms = terms])
  BY DEF PlaceParent
<1> DEFINE state == [Idle EXCEPT !.at = "legs", !.order = o, !.terms = terms]
<1>2. /\ state \in HandlerState /\ state.at = "legs" /\ state.order = o
      /\ state.legs = {}
  BY IdleType DEF HandlerState, Idle, Stage
<1>3. /\ Grows /\ ExecutedIsMarket' /\ ListComplete' /\ Stored' = Stored \cup {o}
      /\ orders' \in [OrderId -> OrderDoc \cup {None}]
  BY <1>1, InsertKeeps
<1>4. handlers'[h] = state /\ handlers' \in [Handler -> HandlerState]
  BY <1>1, <1>2 DEF Goto, IInv, TypeOK
<1> HIDE DEF state
<1>5. PlacementHeld(h)' /\ UpdateHeld(h)'
  BY <1>2, <1>3, <1>4 DEF PlacementHeld, UpdateHeld, AreLegsOf
<1>6. \A g \in Handler : (PlacementHeld(g) /\ UpdateHeld(g))'
  BY <1>1, <1>3, <1>5, HandlersKept DEF state
<1>7. QED
  BY <1>3, <1>4, <1>6 DEF IInv, TypeOK

LEMMA SaveLegIInv ==
    ASSUME IInv, NEW h \in Handler, SaveLeg(h) PROVE IInv'
<1> DEFINE parent == handlers[h].order
<1>1. PICK o \in OrderId \ Stored :
        LET legs == handlers[h].legs \cup {o}
            all == Cardinality(legs) = Legs[orders[parent].kind]
        IN  /\ orders' = [orders EXCEPT
                  ![o] = NewOrder("Simple", handlers[h].terms, parent)]
            /\ Goto(h, [handlers[h] EXCEPT
                  !.legs = legs,
                  !.at = IF all THEN "link" ELSE @])
  BY DEF SaveLeg
<1> DEFINE legs == handlers[h].legs \cup {o}
<1> DEFINE all == Cardinality(legs) = Legs[orders[parent].kind]
<1> DEFINE state == [handlers[h] EXCEPT !.legs = legs,
                                        !.at = IF all THEN "link" ELSE @]
<1>2. /\ handlers[h] \in HandlerState /\ handlers[h].at = "legs"
      /\ parent \in Stored /\ AreLegsOf(handlers[h].legs, parent)
      /\ parent \in OrderId
  BY DEF SaveLeg, IInv, TypeOK, PlacementHeld, Stored
<1>3. /\ state \in HandlerState /\ state.order = parent /\ state.legs = legs
      /\ state.at \in {"legs", "link"} /\ (state.at = "link" => all)
  BY <1>2 DEF HandlerState, Stage
<1>4. "Simple" \in Kind /\ handlers[h].terms \in Terms
  BY <1>2 DEF Kind, HandlerState
<1>5. /\ Grows /\ ExecutedIsMarket' /\ ListComplete' /\ Stored' = Stored \cup {o}
      /\ orders'[o] = NewOrder("Simple", handlers[h].terms, parent)
      /\ orders' \in [OrderId -> OrderDoc \cup {None}]
  BY <1>1, <1>2, <1>4, InsertKeeps
<1>6. handlers'[h] = state /\ handlers' \in [Handler -> HandlerState] /\ Goto(h, state)
  BY <1>1, <1>3 DEF Goto, IInv, TypeOK
<1>7. \A c \in legs : /\ c \in Stored'
                       /\ orders'[c].parent = parent
                       /\ orders'[c].kind = "Simple"
  BY <1>2, <1>5 DEF AreLegsOf, Grows, NewOrder
<1>8. orders'[parent].kind = orders[parent].kind /\ parent \in Stored'
  BY <1>2, <1>5 DEF Grows
<1> HIDE DEF state, legs
<1>9. PlacementHeld(h)' /\ UpdateHeld(h)'
  BY <1>3, <1>6, <1>7, <1>8 DEF PlacementHeld, UpdateHeld, AreLegsOf
<1>10. \A g \in Handler : (PlacementHeld(g) /\ UpdateHeld(g))'
  BY <1>5, <1>6, <1>9, HandlersKept
<1>11. QED
  BY <1>5, <1>6, <1>10 DEF IInv, TypeOK

-----------------------------------------------------------------------------
(* A handler reads: no order changes.                                      *)

LEMMA ReadIInv ==
    ASSUME IInv, NEW h \in Handler, NEW state \in HandlerState, Goto(h, state),
           UNCHANGED orders, PlacementHeld(h)', UpdateHeld(h)'
    PROVE  IInv'
<1>1. Grows
  BY DEF Grows, Stored
<1>2. TypeOK'
  BY DEF IInv, TypeOK, Goto
<1>3. ExecutedIsMarket' /\ ListComplete'
  BY DEF IInv, ExecutedIsMarket, ListComplete, AreLegsOf, Stored
<1>4. QED
  BY <1>1, <1>2, <1>3, HandlersKept DEF IInv

LEMMA ReadToCancelIInv ==
    ASSUME IInv, NEW h \in Handler, NEW o \in OrderId, ReadToCancel(h, o)
    PROVE  IInv'
<1> DEFINE state == [Idle EXCEPT
                        !.at = IF orders[o].children = {} THEN "cancelOrder"
                                                          ELSE "cancelLegs",
                        !.order = o, !.legs = orders[o].children]
<1>1. /\ o \in Stored /\ orders[o] \in OrderDoc /\ orders[o].status = "Pending"
      /\ Goto(h, state) /\ UNCHANGED orders
  BY DEF ReadToCancel, Pending, Stored, IInv, TypeOK
<1>2. /\ state \in HandlerState /\ state.order = o /\ state.legs = orders[o].children
      /\ state.at \in {"cancelOrder", "cancelLegs"}
      /\ state.at = "cancelLegs" => orders[o].children # {}
  BY <1>1, IdleType DEF HandlerState, Stage, OrderDoc, Idle
<1>3. orders[o].kind # "Market"
  BY <1>1 DEF IInv, ExecutedIsMarket
<1>4. orders[o].children # {} => AreLegsOf(orders[o].children, o)
  BY <1>1 DEF IInv, ListComplete
<1>5. handlers'[h] = state
  BY <1>1 DEF Goto, IInv, TypeOK
<1> HIDE DEF state
<1>6. PlacementHeld(h)' /\ UpdateHeld(h)'
  BY <1>1, <1>2, <1>3, <1>4, <1>5 DEF PlacementHeld, UpdateHeld, AreLegsOf, Stored
<1>7. QED
  BY <1>1, <1>2, <1>6, ReadIInv

LEMMA ReadToModifyIInv ==
    ASSUME IInv, NEW h \in Handler, NEW o \in OrderId, NEW terms \in Terms,
           ReadToModify(h, o, terms)
    PROVE  IInv'
<1> DEFINE state == [Idle EXCEPT !.at = "modify", !.order = o, !.terms = terms]
<1>1. o \in Stored /\ Goto(h, state) /\ UNCHANGED orders
  BY DEF ReadToModify, Pending
<1>2. state \in HandlerState /\ state.order = o /\ state.at = "modify"
  BY IdleType DEF HandlerState, Stage, Idle
<1>3. handlers'[h] = state
  BY <1>1 DEF Goto, IInv, TypeOK
<1> HIDE DEF state
<1>4. PlacementHeld(h)' /\ UpdateHeld(h)'
  BY <1>1, <1>2, <1>3 DEF PlacementHeld, UpdateHeld, Stored
<1>5. QED
  BY <1>1, <1>2, <1>4, ReadIInv

\* A handler ends, or fails.
LEMMA IdleHeld ==
    ASSUME IInv, NEW h \in Handler, Goto(h, Idle)
    PROVE  PlacementHeld(h)' /\ UpdateHeld(h)' /\ handlers' \in [Handler -> HandlerState]
<1>1. handlers'[h].at = "idle"
  BY DEF Goto, Idle, IInv, TypeOK
<1>2. QED
  BY <1>1, IdleType DEF PlacementHeld, UpdateHeld, Goto, IInv, TypeOK

LEMMA AbortIInv == ASSUME IInv, NEW h \in Handler, Abort(h) PROVE IInv'
  BY IdleType, IdleHeld, ReadIInv DEF Abort

-----------------------------------------------------------------------------
(* A handler updates orders in place.                                      *)

\* Updates leave kind and parent alone.
LEMMA UpdateGrows ==
    ASSUME IInv, orders' \in [OrderId -> OrderDoc \cup {None}],
           \A o \in OrderId : orders'[o] = None <=> orders[o] = None,
           \A o \in Stored : /\ orders'[o].kind = orders[o].kind
                             /\ orders'[o].parent = orders[o].parent
    PROVE  Grows /\ Stored' = Stored
  BY DEF Grows, Stored

LEMMA LinkLegsIInv == ASSUME IInv, NEW h \in Handler, LinkLegs(h) PROVE IInv'
<1> DEFINE p == handlers[h].order
<1> DEFINE doc == [orders[p] EXCEPT !.children = handlers[h].legs]
<1>1. /\ handlers[h] \in HandlerState /\ p \in Stored /\ p \in OrderId
      /\ orders[p] \in OrderDoc
      /\ AreLegsOf(handlers[h].legs, p)
      /\ Cardinality(handlers[h].legs) = Legs[orders[p].kind]
  BY DEF LinkLegs, IInv, TypeOK, PlacementHeld, Stored
<1>2. /\ doc \in OrderDoc /\ doc # None /\ doc.children = handlers[h].legs
      /\ doc.kind = orders[p].kind /\ doc.parent = orders[p].parent
      /\ doc.status = orders[p].status
  BY <1>1, OrdersAssumption DEF OrderDoc, HandlerState
<1>3. orders' = [orders EXCEPT ![p] = doc] /\ Goto(h, Idle)
  BY DEF LinkLegs, IInv, TypeOK
<1> HIDE DEF doc
<1>4. /\ orders' \in [OrderId -> OrderDoc \cup {None}]
      /\ Grows /\ Stored' = Stored
  <2>1. orders' \in [OrderId -> OrderDoc \cup {None}]
    BY <1>2, <1>3 DEF IInv, TypeOK
  <2>2. /\ \A o \in OrderId : orders'[o] = None <=> orders[o] = None
        /\ \A o \in Stored : /\ orders'[o].kind = orders[o].kind
                             /\ orders'[o].parent = orders[o].parent
    BY <1>1, <1>2, <1>3 DEF IInv, TypeOK, Stored
  <2>3. QED
    BY <2>1, <2>2, UpdateGrows
<1>5. ExecutedIsMarket'
  BY <1>1, <1>2, <1>3, <1>4 DEF ExecutedIsMarket, IInv, TypeOK, Stored
<1>6. \A S, o : AreLegsOf(S, o) => AreLegsOf(S, o)'
  BY <1>4 DEF AreLegsOf, Grows
<1>7. ListComplete'
  <2> SUFFICES ASSUME NEW o \in Stored', orders'[o].children # {}
               PROVE  /\ Cardinality(orders'[o].children) = Legs[orders'[o].kind]
                      /\ \A c \in orders'[o].children :
                            /\ c \in Stored'
                            /\ orders'[c].parent = o
                            /\ orders'[c].kind = "Simple"
    BY DEF ListComplete, AreLegsOf
  <2>1. CASE o = p
    BY <1>1, <1>2, <1>3, <1>4, <2>1 DEF AreLegsOf, Grows, IInv, TypeOK
  <2>2. CASE o # p
    BY <1>3, <1>4, <2>2 DEF ListComplete, AreLegsOf, Grows, IInv, TypeOK, Stored
  <2>3. QED
    BY <2>1, <2>2
<1>8. \A g \in Handler : (PlacementHeld(g) /\ UpdateHeld(g))'
  BY <1>3, <1>4, IdleHeld, HandlersKept
<1>9. QED
  BY <1>3, <1>4, <1>5, <1>7, <1>8, IdleHeld DEF IInv, TypeOK

\* Status and terms are changed on orders that are stored; no market order has
\* its status changed.
LEMMA UpdateIInv ==
    ASSUME IInv, NEW h \in Handler, NEW state \in HandlerState, Goto(h, state),
           orders' \in [OrderId -> OrderDoc \cup {None}],
           \A o \in OrderId : orders'[o] = None <=> orders[o] = None,
           \A o \in Stored :
              /\ orders'[o].kind = orders[o].kind
              /\ orders'[o].parent = orders[o].parent
              /\ orders'[o].children = orders[o].children
              /\ \/ orders'[o].status = orders[o].status
                 \/ orders'[o].status = "Cancelled" /\ orders[o].kind # "Market",
           PlacementHeld(h)', UpdateHeld(h)'
    PROVE  IInv'
<1>1. Grows /\ Stored' = Stored
  BY UpdateGrows
<1>2. TypeOK'
  BY DEF IInv, TypeOK, Goto
<1>3. ExecutedIsMarket'
  BY <1>1 DEF ExecutedIsMarket, IInv
<1>4. \A S, o : AreLegsOf(S, o) => AreLegsOf(S, o)'
  BY <1>1 DEF AreLegsOf, Grows
<1>5. ListComplete'
  BY <1>1 DEF ListComplete, AreLegsOf, IInv
<1>6. QED
  BY <1>1, <1>2, <1>3, <1>5, HandlersKept DEF IInv

LEMMA CancelLegsIInv == ASSUME IInv, NEW h \in Handler, CancelLegs(h) PROVE IInv'
<1> DEFINE state == [handlers[h] EXCEPT !.at = "cancelOrder"]
<1>1. /\ handlers[h] \in HandlerState /\ handlers[h].order \in Stored
      /\ orders[handlers[h].order].kind # "Market"
      /\ AreLegsOf(handlers[h].legs, handlers[h].order)
      /\ Goto(h, state)
  BY DEF CancelLegs, IInv, TypeOK, UpdateHeld
<1>2. /\ state \in HandlerState /\ state.at = "cancelOrder"
      /\ state.order = handlers[h].order
  BY <1>1 DEF HandlerState, Stage
<1>3. ASSUME NEW o \in OrderId, orders[o] # None
      PROVE  /\ orders[o] \in OrderDoc
             /\ [orders[o] EXCEPT !.status = "Cancelled"] \in OrderDoc
  BY <1>3 DEF IInv, TypeOK, OrderDoc, Status
<1>4. orders' \in [OrderId -> OrderDoc \cup {None}]
  BY <1>3 DEF CancelLegs, Stored
<1>5. \A o \in OrderId : orders'[o] = None <=> orders[o] = None
  BY <1>3, OrdersAssumption DEF CancelLegs, Stored
<1>6. ASSUME NEW o \in Stored
      PROVE  /\ orders'[o].kind = orders[o].kind
             /\ orders'[o].parent = orders[o].parent
             /\ orders'[o].children = orders[o].children
             /\ \/ orders'[o].status = orders[o].status
                \/ orders'[o].status = "Cancelled" /\ orders[o].kind # "Market"
  <2>1. o \in OrderId /\ orders[o] \in OrderDoc
    BY <1>3 DEF Stored
  <2>2. CASE o \in handlers[h].legs
    <3>1. orders'[o] = [orders[o] EXCEPT !.status = "Cancelled"]
      BY <2>1, <2>2 DEF CancelLegs
    <3>2. orders[o].kind = "Simple"
      BY <1>1, <2>2 DEF AreLegsOf
    <3>3. QED
      BY <2>1, <3>1, <3>2 DEF OrderDoc
  <2>3. CASE o \notin handlers[h].legs
    BY <2>1, <2>3 DEF CancelLegs
  <2>4. QED
    BY <2>2, <2>3
<1>7. handlers'[h] = state
  BY <1>1 DEF Goto, IInv, TypeOK
<1>8. handlers[h].order \in Stored' /\ orders'[handlers[h].order].kind # "Market"
  BY <1>1, <1>5, <1>6 DEF Stored
<1> HIDE DEF state
<1>9. PlacementHeld(h)' /\ UpdateHeld(h)'
  BY <1>2, <1>7, <1>8 DEF PlacementHeld, UpdateHeld
<1>10. QED
  BY <1>1, <1>2, <1>4, <1>5, <1>6, <1>9, UpdateIInv

LEMMA CancelOrderIInv == ASSUME IInv, NEW h \in Handler, CancelOrder(h) PROVE IInv'
<1> DEFINE o == handlers[h].order
<1> DEFINE doc == [orders[o] EXCEPT !.status = "Cancelled"]
<1>1. /\ o \in Stored /\ o \in OrderId /\ orders[o] \in OrderDoc
      /\ orders[o].kind # "Market"
  BY DEF CancelOrder, IInv, TypeOK, UpdateHeld, Stored
<1>2. /\ doc \in OrderDoc /\ doc # None /\ doc.status = "Cancelled"
      /\ doc.kind = orders[o].kind /\ doc.parent = orders[o].parent
      /\ doc.children = orders[o].children
  BY <1>1, OrdersAssumption DEF OrderDoc, Status
<1>3. orders' = [orders EXCEPT ![o] = doc] /\ Goto(h, Idle)
  BY DEF CancelOrder, IInv, TypeOK
<1> HIDE DEF doc
<1>4. QED
  BY <1>1, <1>2, <1>3, IdleType, IdleHeld, UpdateIInv DEF IInv, TypeOK, Stored

LEMMA ModifyOrderIInv == ASSUME IInv, NEW h \in Handler, ModifyOrder(h) PROVE IInv'
<1> DEFINE o == handlers[h].order
<1> DEFINE doc == [orders[o] EXCEPT !.terms = handlers[h].terms]
<1>1. /\ o \in Stored /\ o \in OrderId /\ orders[o] \in OrderDoc
      /\ handlers[h] \in HandlerState
  BY DEF ModifyOrder, IInv, TypeOK, UpdateHeld, Stored
<1>2. /\ doc \in OrderDoc /\ doc # None /\ doc.status = orders[o].status
      /\ doc.kind = orders[o].kind /\ doc.parent = orders[o].parent
      /\ doc.children = orders[o].children
  BY <1>1, OrdersAssumption DEF OrderDoc, HandlerState
<1>3. orders' = [orders EXCEPT ![o] = doc] /\ Goto(h, Idle)
  BY DEF ModifyOrder, IInv, TypeOK
<1> HIDE DEF doc
<1>4. QED
  BY <1>1, <1>2, <1>3, IdleType, IdleHeld, UpdateIInv DEF IInv, TypeOK, Stored

-----------------------------------------------------------------------------
(* The theorems.                                                           *)

LEMMA NextIInv == IInv /\ [Next]_vars => IInv'
<1> SUFFICES ASSUME IInv, [Next]_vars PROVE IInv'
  OBVIOUS
<1>1. CASE UNCHANGED vars
  BY <1>1 DEF vars, IInv, TypeOK, ExecutedIsMarket, ListComplete, AreLegsOf,
     PlacementHeld, UpdateHeld, Stored
<1>2. ASSUME NEW kind \in Kind, NEW terms \in Terms, PlaceSimple(kind, terms)
      PROVE  IInv'
  BY <1>2, PlaceSimpleIInv
<1>3. ASSUME NEW h \in Handler, Request(h) PROVE IInv'
  BY <1>3, PlaceParentIInv, ReadToCancelIInv, ReadToModifyIInv DEF Request
<1>4. ASSUME NEW h \in Handler, Continue(h) PROVE IInv'
  BY <1>4, SaveLegIInv, LinkLegsIInv, CancelLegsIInv, CancelOrderIInv, ModifyOrderIInv
     DEF Continue
<1>5. ASSUME NEW h \in Handler, Abort(h) PROVE IInv'
  BY <1>5, AbortIInv
<1>6. QED
  BY <1>1, <1>2, <1>3, <1>4, <1>5 DEF Next

LEMMA SpecIInv == Spec => []IInv
  BY InitIInv, NextIInv, PTL DEF Spec

\* Documents and handlers keep their types: statuses stay in the enumeration.
THEOREM TypeCorrect == Spec => []TypeOK
<1>1. IInv => TypeOK
  BY DEF IInv
<1>2. QED
  BY <1>1, SpecIInv, PTL

\* A parent lists either no leg or all of its legs, each stored and naming it
\* (placeOCOOrder, placeBracketOrder).
THEOREM LinkedLegs == Spec => []LinkedLegsComplete
<1>1. IInv => LinkedLegsComplete
  BY DEF IInv, LinkedLegsComplete, ListComplete, AreLegsOf
<1>2. QED
  BY <1>1, SpecIInv, PTL

FinalKept ==
    \A o \in Stored :
        orders[o].status # "Pending" => orders'[o].status = orders[o].status

LEMMA NextFinalKept == IInv /\ [Next]_vars => FinalKept
<1> SUFFICES ASSUME IInv, [Next]_vars,
                    NEW o \in Stored, orders[o].status # "Pending"
             PROVE  orders'[o].status = orders[o].status
  BY DEF FinalKept
<1>1. /\ o \in OrderId /\ orders[o] \in OrderDoc
      /\ orders[o].status \in {"Executed", "Cancelled"}
      /\ orders[o].status = "Executed" => orders[o].kind = "Market"
  BY DEF Stored, IInv, TypeOK, OrderDoc, Status, ExecutedIsMarket
<1>2. CASE UNCHANGED orders
  BY <1>2
<1>3. ASSUME NEW q \in OrderId \ Stored, NEW doc, orders' = [orders EXCEPT ![q] = doc]
      PROVE  orders'[o] = orders[o]
  BY <1>3 DEF IInv, TypeOK
<1>4. ASSUME NEW kind \in Kind, NEW terms \in Terms, PlaceSimple(kind, terms)
      PROVE  orders'[o] = orders[o]
  BY <1>3, <1>4 DEF PlaceSimple
<1>5. ASSUME NEW h \in Handler, Request(h) PROVE orders'[o] = orders[o]
  BY <1>3, <1>5 DEF Request, PlaceParent, ReadToCancel, ReadToModify
<1>6. ASSUME NEW h \in Handler, SaveLeg(h) PROVE orders'[o] = orders[o]
  BY <1>3, <1>6 DEF SaveLeg
<1>7. ASSUME NEW h \in Handler, LinkLegs(h) \/ ModifyOrder(h)
      PROVE  orders'[o].status = orders[o].status
  BY <1>1, <1>7 DEF LinkLegs, ModifyOrder, IInv, TypeOK, OrderDoc
<1>8. ASSUME NEW h \in Handler, CancelLegs(h) PROVE orders'[o].status = orders[o].status
  <2>1. AreLegsOf(handlers[h].legs, handlers[h].order)
    BY <1>8 DEF CancelLegs, IInv, UpdateHeld
  <2>2. CASE o \in handlers[h].legs
    <3>1. orders[o].status = "Cancelled"
      BY <1>1, <2>1, <2>2 DEF AreLegsOf
    <3>2. orders'[o] = [orders[o] EXCEPT !.status = "Cancelled"]
      BY <1>1, <1>8, <2>2 DEF CancelLegs
    <3>3. QED
      BY <1>1, <3>1, <3>2 DEF OrderDoc
  <2>3. CASE o \notin handlers[h].legs
    BY <1>1, <1>8, <2>3 DEF CancelLegs
  <2>4. QED
    BY <2>2, <2>3
<1>9. ASSUME NEW h \in Handler, CancelOrder(h) PROVE orders'[o].status = orders[o].status
  <2>1. CASE o = handlers[h].order
    <3>1. orders[o].kind # "Market" /\ orders[o].status = "Cancelled"
      BY <1>1, <1>9, <2>1 DEF CancelOrder, IInv, UpdateHeld
    <3>2. orders'[o] = [orders[o] EXCEPT !.status = "Cancelled"]
      BY <1>1, <1>9, <2>1 DEF CancelOrder, IInv, TypeOK
    <3>3. QED
      BY <1>1, <3>1, <3>2 DEF OrderDoc
  <2>2. CASE o # handlers[h].order
    BY <1>1, <1>9, <2>2 DEF CancelOrder, IInv, TypeOK
  <2>3. QED
    BY <2>1, <2>2
<1>10. QED
  BY <1>2, <1>4, <1>5, <1>6, <1>7, <1>8, <1>9
     DEF Next, Continue, Abort, vars

\* No request, however old its read of an order, changes the status of one that
\* is executed or cancelled.
THEOREM FinalStatus == Spec => FinalStatusKept
<1>1. IInv /\ [Next]_vars => [FinalKept]_vars
  BY NextFinalKept
<1>2. QED
  BY <1>1, SpecIInv, PTL DEF Spec, FinalStatusKept, FinalKept

-----------------------------------------------------------------------------
(* Requests that come one at a time.  The invariant of the history alone   *)
(* says what the one request in progress holds of the order it is about.   *)

\* The legs that o lists are cancelled or executed.
LegsSettled(o) == \A c \in orders[o].children : ~Pending(c)

\* Only an order of two or three legs lists any.
ParentsOnly ==
    /\ \A o \in Stored : Legs[orders[o].kind] = 0 => orders[o].children = {}
    /\ \A h \in Handler : handlers[h].at \in {"legs", "link"} =>
            Legs[orders[handlers[h].order].kind] > 0

AloneHeld(h) ==
    LET o == handlers[h].order
    IN  /\ handlers[h].at \in {"legs", "link"} => orders[o].status = "Pending"
        /\ handlers[h].at = "cancelLegs" => handlers[h].legs = orders[o].children
        /\ handlers[h].at = "cancelOrder" => LegsSettled(o)

AloneInv ==
    alone => /\ OneAtATime
             /\ CancelledParentHasNoListedLeg
             /\ \A h \in Handler : AloneHeld(h)

LEMMA InitAlone == MCInit => ParentsOnly /\ AloneInv
<1> SUFFICES ASSUME MCInit PROVE ParentsOnly /\ AloneInv
  OBVIOUS
<1>1. Stored = {}
  BY DEF MCInit, Init, Stored
<1>2. \A h \in Handler : handlers[h].at = "idle"
  BY DEF MCInit, Init, Idle
<1>3. QED
  BY <1>1, <1>2 DEF ParentsOnly, AloneInv, OneAtATime, Busy, AloneHeld,
     CancelledParentHasNoListedLeg

\* How the actions that change orders change them.
LEMMA StoredDoc == ASSUME IInv, NEW o \in Stored
                   PROVE  o \in OrderId /\ orders[o] \in OrderDoc
  BY DEF Stored, IInv, TypeOK

LEMMA LinkLegsOrders ==
    ASSUME IInv, NEW h \in Handler, LinkLegs(h)
    PROVE  LET p == handlers[h].order
           IN  /\ p \in Stored /\ Stored' = Stored /\ Goto(h, Idle)
               /\ orders'[p].children = handlers[h].legs
               /\ orders'[p].kind = orders[p].kind
               /\ orders'[p].status = orders[p].status
               /\ \A o \in Stored \ {p} : orders'[o] = orders[o]
<1> DEFINE p == handlers[h].order
           doc == [orders[p] EXCEPT !.children = handlers[h].legs]
<1>1. p \in Stored /\ p \in OrderId /\ orders[p] \in OrderDoc
  BY StoredDoc DEF LinkLegs, IInv, PlacementHeld
<1>2. handlers[h] \in HandlerState
  BY DEF IInv, TypeOK
<1>3. /\ doc \in OrderDoc /\ doc # None /\ doc.children = handlers[h].legs
      /\ doc.kind = orders[p].kind /\ doc.status = orders[p].status
  BY <1>1, <1>2, OrdersAssumption DEF OrderDoc, HandlerState
<1>4. orders' = [orders EXCEPT ![p] = doc] /\ Goto(h, Idle)
  BY DEF LinkLegs, IInv, TypeOK
<1> HIDE DEF doc
<1>5. QED
  BY <1>1, <1>3, <1>4 DEF IInv, TypeOK, Stored

LEMMA UpdateOrders ==
    ASSUME IInv, NEW h \in Handler, CancelOrder(h) \/ ModifyOrder(h)
    PROVE  LET p == handlers[h].order
           IN  /\ p \in Stored /\ Stored' = Stored /\ Goto(h, Idle)
               /\ orders'[p].children = orders[p].children
               /\ orders'[p].kind = orders[p].kind
               /\ ModifyOrder(h) => orders'[p].status = orders[p].status
               /\ \A o \in Stored \ {p} : orders'[o] = orders[o]
<1> DEFINE p == handlers[h].order
           cancelled == [orders[p] EXCEPT !.status = "Cancelled"]
           modified == [orders[p] EXCEPT !.terms = handlers[h].terms]
<1>1. p \in Stored /\ p \in OrderId /\ orders[p] \in OrderDoc
  BY StoredDoc DEF CancelOrder, ModifyOrder, IInv, UpdateHeld
<1>2. handlers[h] \in HandlerState
  BY DEF IInv, TypeOK
<1>3. /\ cancelled \in OrderDoc /\ cancelled # None
      /\ cancelled.children = orders[p].children /\ cancelled.kind = orders[p].kind
  BY <1>1, OrdersAssumption DEF OrderDoc, Status
<1>4. /\ modified \in OrderDoc /\ modified # None
      /\ modified.children = orders[p].children /\ modified.kind = orders[p].kind
      /\ modified.status = orders[p].status
  BY <1>1, <1>2, OrdersAssumption DEF OrderDoc, HandlerState
<1>5. CancelOrder(h) => orders' = [orders EXCEPT ![p] = cancelled]
  BY DEF CancelOrder, IInv, TypeOK
<1>6. ModifyOrder(h) => orders' = [orders EXCEPT ![p] = modified]
  BY DEF ModifyOrder, IInv, TypeOK
<1>7. Goto(h, Idle) /\ (CancelOrder(h) => ~ModifyOrder(h))
  BY DEF CancelOrder, ModifyOrder
<1> HIDE DEF cancelled, modified
<1>8. QED
  BY <1>1, <1>3, <1>4, <1>5, <1>6, <1>7 DEF IInv, TypeOK, Stored

LEMMA CancelLegsOrders ==
    ASSUME IInv, NEW h \in Handler, CancelLegs(h)
    PROVE  /\ Stored' = Stored
           /\ \A o \in Stored :
                /\ orders'[o].children = orders[o].children
                /\ orders'[o].kind = orders[o].kind
                /\ o \in handlers[h].legs =>
                      orders'[o].status = "Cancelled" /\ orders[o].kind = "Simple"
                /\ o \notin handlers[h].legs => orders'[o] = orders[o]
<1>1. ASSUME NEW d \in OrderDoc
      PROVE  LET e == [d EXCEPT !.status = "Cancelled"]
             IN  /\ e \in OrderDoc /\ e # None /\ e.children = d.children
                 /\ e.kind = d.kind /\ e.status = "Cancelled"
  BY OrdersAssumption DEF OrderDoc, Status
<1>2. \A o \in handlers[h].legs : o \in Stored /\ orders[o].kind = "Simple"
  BY DEF CancelLegs, IInv, UpdateHeld, AreLegsOf
<1>3. \A o \in OrderId :
        orders'[o] = IF o \in handlers[h].legs
                     THEN [orders[o] EXCEPT !.status = "Cancelled"]
                     ELSE orders[o]
  BY <1>2 DEF CancelLegs
<1>4. \A o \in Stored : o \in OrderId /\ orders[o] \in OrderDoc
  BY StoredDoc
<1>5. ASSUME NEW o \in Stored
      PROVE  /\ orders'[o] # None
             /\ orders'[o].children = orders[o].children
             /\ orders'[o].kind = orders[o].kind
             /\ o \in handlers[h].legs =>
                   orders'[o].status = "Cancelled" /\ orders[o].kind = "Simple"
             /\ o \notin handlers[h].legs => orders'[o] = orders[o]
  <2>1. CASE o \in handlers[h].legs
    <3>1. orders'[o] = [orders[o] EXCEPT !.status = "Cancelled"]
      BY <1>3, <1>4, <2>1
    <3>2. QED
      BY <1>1, <1>2, <1>4, <2>1, <3>1
  <2>2. CASE o \notin handlers[h].legs
    BY <1>3, <1>4, <2>2 DEF Stored
  <2>3. QED
    BY <2>1, <2>2
<1>6. \A o \in OrderId \ Stored : orders'[o] = None
  BY <1>2, <1>3 DEF Stored
<1>7. Stored' = Stored
  BY <1>5, <1>6 DEF Stored
<1>8. QED
  BY <1>5, <1>7

\* The kinds of orders, and what a placement holds.
LEMMA HandlerMoves ==
    ASSUME IInv, NEW h \in Handler, NEW state, Goto(h, state)
    PROVE  handlers'[h] = state /\ \A g \in Handler \ {h} : handlers'[g] = handlers[g]
  BY DEF Goto, IInv, TypeOK

LEMMA InsertOrders ==
    ASSUME IInv, ParentsOnly, NEW o \in OrderId \ Stored, NEW kind \in Kind,
           NEW terms \in Terms, NEW parent \in OrderId \cup {None},
           orders' = [orders EXCEPT ![o] = NewOrder(kind, terms, parent)]
    PROVE  /\ Stored' = Stored \cup {o}
           /\ \A q \in Stored : orders'[q] = orders[q]
           /\ orders'[o].kind = kind /\ orders'[o].children = {}
           /\ orders'[o].status # "Cancelled"
           /\ kind # "Market" => orders'[o].status = "Pending"
           /\ \A q \in Stored' : Legs[orders'[q].kind] = 0 =>
                                      orders'[q].children = {}
<1>1. /\ Stored' = Stored \cup {o}
      /\ orders'[o] = NewOrder(kind, terms, parent)
      /\ \A q \in Stored : orders'[q] = orders[q]
  BY InsertKeeps
<1>2. /\ orders'[o].kind = kind /\ orders'[o].children = {}
      /\ orders'[o].status # "Cancelled"
      /\ kind # "Market" => orders'[o].status = "Pending"
  BY <1>1 DEF NewOrder
<1>3. QED
  BY <1>1, <1>2 DEF ParentsOnly

\* What the lemmas on the actions start from.
StepContext ==
    /\ IInv /\ ParentsOnly /\ AloneInv /\ FinalKept
    /\ alone' = (alone /\ OneAtATime')

\* Legs that are settled stay so.
LEMMA SettledKept ==
    ASSUME StepContext, Stored \subseteq Stored', NEW o \in Stored, LegsSettled(o),
           orders'[o].children = orders[o].children
    PROVE  LegsSettled(o)'
<1>1. \A c \in orders[o].children : c \in Stored
  BY DEF StepContext, IInv, ListComplete, AreLegsOf
<1>2. QED
  BY <1>1 DEF LegsSettled, Pending, StepContext, FinalKept

\* A handler moves: no other one is in progress before or after.
LEMMA MoveAlone ==
    ASSUME StepContext, NEW h \in Handler, NEW state, Goto(h, state),
           handlers[h].at # "idle" \/ state.at # "idle",
           alone' => CancelledParentHasNoListedLeg' /\ AloneHeld(h)'
    PROVE  AloneInv'
<1> SUFFICES ASSUME alone'
             PROVE  /\ OneAtATime'
                    /\ CancelledParentHasNoListedLeg'
                    /\ \A g \in Handler : AloneHeld(g)'
  BY DEF AloneInv
<1>1. alone /\ OneAtATime'
  BY DEF StepContext
<1>2. OneAtATime
  BY <1>1 DEF StepContext, AloneInv
<1>3. handlers'[h] = state /\ \A g \in Handler \ {h} : handlers'[g] = handlers[g]
  BY HandlerMoves DEF StepContext
<1>4. ASSUME NEW g \in Handler \ {h} PROVE handlers'[g].at = "idle"
  BY <1>1, <1>2, <1>3 DEF OneAtATime, Busy
<1>5. \A g \in Handler \ {h} : AloneHeld(g)'
  BY <1>4 DEF AloneHeld
<1>6. QED
  BY <1>1, <1>5

\* No parent's list changes and no order is cancelled.
LEMMA CancelledKept ==
    ASSUME StepContext, alone, Stored \subseteq Stored',
           \A o \in Stored' : orders'[o].status = "Cancelled" =>
              /\ o \in Stored
              /\ orders[o].status = "Cancelled" \/ LegsSettled(o)
              /\ orders'[o].children = orders[o].children
    PROVE  CancelledParentHasNoListedLeg'
<1> SUFFICES ASSUME NEW o \in Stored', orders'[o].status = "Cancelled"
             PROVE  LegsSettled(o)'
  BY DEF CancelledParentHasNoListedLeg, LegsSettled
<1>1. /\ o \in Stored /\ orders'[o].children = orders[o].children
      /\ orders[o].status = "Cancelled" \/ LegsSettled(o)
  OBVIOUS
<1>2. LegsSettled(o)
  BY <1>1 DEF StepContext, AloneInv, CancelledParentHasNoListedLeg, LegsSettled
<1>3. QED
  BY <1>1, <1>2, SettledKept

\* A placement goes on or ends: what it holds is of a kind with legs.
LEMMA ParentsKept ==
    ASSUME StepContext, NEW h \in Handler, NEW state, Goto(h, state),
           \A o \in Stored : o \in Stored' /\ orders'[o].kind = orders[o].kind,
           \A o \in Stored' : Legs[orders'[o].kind] = 0 => orders'[o].children = {},
           state.at \in {"legs", "link"} => Legs[orders'[state.order].kind] > 0
    PROVE  ParentsOnly'
<1>1. handlers'[h] = state /\ \A g \in Handler \ {h} : handlers'[g] = handlers[g]
  BY HandlerMoves DEF StepContext
<1>2. ASSUME NEW g \in Handler \ {h}, handlers[g].at \in {"legs", "link"}
      PROVE  Legs[orders'[handlers[g].order].kind] > 0
  <2>1. handlers[g].order \in Stored
    BY <1>2 DEF StepContext, IInv, PlacementHeld
  <2>2. QED
    BY <1>2, <2>1 DEF StepContext, ParentsOnly
<1>3. QED
  BY <1>1, <1>2 DEF ParentsOnly

-----------------------------------------------------------------------------
LEMMA PlaceSimpleAlone ==
    ASSUME StepContext, NEW kind \in Kind, NEW terms \in Terms,
           PlaceSimple(kind, terms)
    PROVE  ParentsOnly' /\ AloneInv'
<1>1. PICK o \in OrderId \ Stored :
          orders' = [orders EXCEPT ![o] = NewOrder(kind, terms, None)]
  BY DEF PlaceSimple
<1>2. UNCHANGED handlers
  BY DEF PlaceSimple
<1>3. /\ Stored' = Stored \cup {o}
      /\ \A q \in Stored : orders'[q] = orders[q]
      /\ orders'[o].status # "Cancelled"
      /\ \A q \in Stored' : Legs[orders'[q].kind] = 0 => orders'[q].children = {}
  BY <1>1, InsertOrders DEF StepContext
<1>4. ParentsOnly'
  BY <1>2, <1>3 DEF StepContext, ParentsOnly, IInv, PlacementHeld
<1>5. AloneInv'
  <2> SUFFICES ASSUME alone'
               PROVE  /\ OneAtATime'
                      /\ CancelledParentHasNoListedLeg'
                      /\ \A h \in Handler : AloneHeld(h)'
    BY DEF AloneInv
  <2>1. alone /\ OneAtATime'
    BY DEF StepContext
  <2>2. CancelledParentHasNoListedLeg'
    BY <1>3, <2>1, CancelledKept
  <2>3. ASSUME NEW h \in Handler PROVE AloneHeld(h)'
    <3>1. AloneHeld(h) /\ PlacementHeld(h) /\ UpdateHeld(h)
      BY <2>1 DEF StepContext, AloneInv, IInv
    <3>2. \A q \in Stored : LegsSettled(q) => LegsSettled(q)'
      BY <1>3, SettledKept
    <3>3. QED
      BY <1>2, <1>3, <3>1, <3>2 DEF AloneHeld, PlacementHeld, UpdateHeld, LegsSettled
  <2>4. QED
    BY <2>1, <2>2, <2>3
<1>6. QED
  BY <1>4, <1>5

LEMMA PlaceParentAlone ==
    ASSUME StepContext, NEW h \in Handler, NEW kind \in Kind, NEW terms \in Terms,
           PlaceParent(h, kind, terms)
    PROVE  ParentsOnly' /\ AloneInv'
<1>1. PICK o \in OrderId \ Stored :
          /\ orders' = [orders EXCEPT ![o] = NewOrder(kind, terms, None)]
          /\ Goto(h, [Idle EXCEPT !.at = "legs", !.order = o, !.terms = terms])
  BY DEF PlaceParent
<1> DEFINE state == [Idle EXCEPT !.at = "legs", !.order = o, !.terms = terms]
<1>2. Goto(h, state) /\ state.at = "legs" /\ state.order = o
  BY <1>1 DEF Idle
<1>3. Legs[kind] > 0 /\ kind # "Market"
  BY DEF PlaceParent, Legs
<1> HIDE DEF state
<1>4. /\ Stored' = Stored \cup {o}
      /\ \A q \in Stored : orders'[q] = orders[q]
      /\ orders'[o].status = "Pending" /\ orders'[o].kind = kind
      /\ \A q \in Stored' : Legs[orders'[q].kind] = 0 => orders'[q].children = {}
  BY <1>1, <1>3, InsertOrders DEF StepContext
<1>5. ParentsOnly'
  BY <1>2, <1>3, <1>4, ParentsKept
<1>6. handlers'[h] = state
  BY <1>2, HandlerMoves DEF StepContext
<1>7. AloneHeld(h)'
  BY <1>2, <1>4, <1>6 DEF AloneHeld
<1>8. alone' => CancelledParentHasNoListedLeg'
  BY <1>4, CancelledKept DEF StepContext
<1>9. QED
  BY <1>2, <1>5, <1>7, <1>8, MoveAlone

LEMMA SaveLegAlone ==
    ASSUME StepContext, NEW h \in Handler, SaveLeg(h)
    PROVE  ParentsOnly' /\ AloneInv'
<1> DEFINE parent == handlers[h].order
<1>1. PICK o \in OrderId \ Stored :
        LET legs == handlers[h].legs \cup {o}
            all == Cardinality(legs) = Legs[orders[parent].kind]
        IN  /\ orders' = [orders EXCEPT
                  ![o] = NewOrder("Simple", handlers[h].terms, parent)]
            /\ Goto(h, [handlers[h] EXCEPT
                  !.legs = legs,
                  !.at = IF all THEN "link" ELSE @])
  BY DEF SaveLeg
<1> DEFINE legs == handlers[h].legs \cup {o}
           all == Cardinality(legs) = Legs[orders[parent].kind]
           state == [handlers[h] EXCEPT !.legs = legs,
                                        !.at = IF all THEN "link" ELSE @]
<1>2. /\ handlers[h] \in HandlerState /\ handlers[h].at = "legs"
      /\ parent \in Stored /\ parent \in OrderId
  BY DEF SaveLeg, StepContext, IInv, TypeOK, PlacementHeld, Stored
<1>3. /\ Goto(h, state) /\ state.order = parent
      /\ state.at \in {"legs", "link"}
  BY <1>1, <1>2 DEF HandlerState
<1>4. "Simple" \in Kind /\ handlers[h].terms \in Terms
  BY <1>2 DEF Kind, HandlerState
<1> HIDE DEF state
<1>5. /\ Stored' = Stored \cup {o}
      /\ \A q \in Stored : orders'[q] = orders[q]
      /\ orders'[o].status # "Cancelled"
      /\ \A q \in Stored' : Legs[orders'[q].kind] = 0 => orders'[q].children = {}
  BY <1>1, <1>2, <1>4, InsertOrders DEF StepContext
<1>6. ParentsOnly'
  <2>1. Legs[orders[parent].kind] > 0
    BY <1>2 DEF StepContext, ParentsOnly
  <2>2. QED
    BY <1>2, <1>3, <1>5, <2>1, ParentsKept
<1>7. handlers'[h] = state
  BY <1>3, HandlerMoves DEF StepContext
<1>8. alone' => AloneHeld(h)'
  <2>1. alone' => orders[parent].status = "Pending"
    BY <1>2 DEF StepContext, AloneInv, AloneHeld
  <2>2. QED
    BY <1>2, <1>3, <1>5, <1>7, <2>1 DEF AloneHeld
<1>9. alone' => CancelledParentHasNoListedLeg'
  BY <1>5, CancelledKept DEF StepContext
<1>10. QED
  BY <1>2, <1>3, <1>6, <1>8, <1>9, MoveAlone

LEMMA LinkLegsAlone ==
    ASSUME StepContext, NEW h \in Handler, LinkLegs(h)
    PROVE  ParentsOnly' /\ AloneInv'
<1> DEFINE p == handlers[h].order
<1>1. /\ p \in Stored /\ Stored' = Stored /\ Goto(h, Idle) /\ Idle.at = "idle"
      /\ orders'[p].kind = orders[p].kind /\ orders'[p].status = orders[p].status
      /\ \A o \in Stored \ {p} : orders'[o] = orders[o]
  BY LinkLegsOrders DEF StepContext, Idle
<1>2. handlers[h].at = "link" /\ Legs[orders[p].kind] > 0
  BY DEF LinkLegs, StepContext, ParentsOnly
<1>3. ParentsOnly'
  <2>1. \A o \in Stored' : Legs[orders'[o].kind] = 0 => orders'[o].children = {}
    BY <1>1, <1>2 DEF StepContext, ParentsOnly
  <2>2. QED
    BY <1>1, <2>1, ParentsKept
<1>4. handlers'[h].at = "idle"
  BY <1>1, HandlerMoves DEF StepContext
<1>5. AloneHeld(h)'
  BY <1>4 DEF AloneHeld
<1>6. ASSUME alone' PROVE CancelledParentHasNoListedLeg'
  <2>1. alone /\ orders[p].status = "Pending"
    BY <1>2, <1>6 DEF StepContext, AloneInv, AloneHeld
  <2>2. \A o \in Stored' : orders'[o].status = "Cancelled" =>
            o \in Stored /\ o # p
    BY <1>1, <2>1
  <2>3. QED
    BY <1>1, <2>1, <2>2, CancelledKept
<1>7. QED
  BY <1>1, <1>2, <1>3, <1>5, <1>6, MoveAlone

LEMMA ReadAlone ==
    ASSUME StepContext, NEW h \in Handler, NEW state, Goto(h, state),
           UNCHANGED orders, handlers[h].at # "idle" \/ state.at # "idle",
           state.at \notin {"legs", "link"}, alone' => AloneHeld(h)'
    PROVE  ParentsOnly' /\ AloneInv'
<1>1. Stored' = Stored
  BY DEF Stored
<1>2. ParentsOnly'
  <2>1. \A o \in Stored' : Legs[orders'[o].kind] = 0 => orders'[o].children = {}
    BY <1>1 DEF StepContext, ParentsOnly
  <2>2. QED
    BY <1>1, <2>1, ParentsKept
<1>3. alone' => CancelledParentHasNoListedLeg'
  BY <1>1, CancelledKept DEF StepContext
<1>4. QED
  BY <1>2, <1>3, MoveAlone

LEMMA ReadToCancelAlone ==
    ASSUME StepContext, NEW h \in Handler, NEW o \in OrderId, ReadToCancel(h, o)
    PROVE  ParentsOnly' /\ AloneInv'
<1> DEFINE state == [Idle EXCEPT
                        !.at = IF orders[o].children = {} THEN "cancelOrder"
                                                          ELSE "cancelLegs",
                        !.order = o, !.legs = orders[o].children]
<1>1. Goto(h, state) /\ UNCHANGED orders
  BY DEF ReadToCancel
<1>2. /\ state.order = o /\ state.legs = orders[o].children
      /\ state.at \in {"cancelOrder", "cancelLegs"}
      /\ state.at = "cancelOrder" => orders[o].children = {}
  BY DEF Idle
<1>3. handlers'[h] = state
  BY <1>1, HandlerMoves DEF StepContext
<1> HIDE DEF state
<1>4. AloneHeld(h)'
  BY <1>1, <1>2, <1>3 DEF AloneHeld, LegsSettled
<1>5. QED
  BY <1>1, <1>2, <1>4, ReadAlone

LEMMA ReadToModifyAlone ==
    ASSUME StepContext, NEW h \in Handler, NEW o \in OrderId, NEW terms \in Terms,
           ReadToModify(h, o, terms)
    PROVE  ParentsOnly' /\ AloneInv'
<1> DEFINE state == [Idle EXCEPT !.at = "modify", !.order = o, !.terms = terms]
<1>1. Goto(h, state) /\ UNCHANGED orders /\ state.at = "modify"
  BY DEF ReadToModify, Idle
<1>2. handlers'[h] = state
  BY <1>1, HandlerMoves DEF StepContext
<1> HIDE DEF state
<1>3. AloneHeld(h)'
  BY <1>1, <1>2 DEF AloneHeld
<1>4. QED
  BY <1>1, <1>3, ReadAlone

LEMMA AbortAlone ==
    ASSUME StepContext, NEW h \in Handler, Abort(h)
    PROVE  ParentsOnly' /\ AloneInv'
<1>1. Goto(h, Idle) /\ UNCHANGED orders /\ handlers[h].at # "idle" /\ Idle.at = "idle"
  BY DEF Abort, Idle
<1>2. AloneHeld(h)'
  BY <1>1, HandlerMoves DEF StepContext, AloneHeld
<1>3. QED
  BY <1>1, <1>2, ReadAlone

LEMMA CancelLegsAlone ==
    ASSUME StepContext, NEW h \in Handler, CancelLegs(h)
    PROVE  ParentsOnly' /\ AloneInv'
<1> DEFINE state == [handlers[h] EXCEPT !.at = "cancelOrder"]
           p == handlers[h].order
<1>1. /\ handlers[h] \in HandlerState /\ handlers[h].at = "cancelLegs"
      /\ p \in Stored
  BY DEF CancelLegs, StepContext, IInv, TypeOK, UpdateHeld
<1>2. Goto(h, state) /\ state.at = "cancelOrder" /\ state.order = p
  BY <1>1 DEF CancelLegs, HandlerState
<1> HIDE DEF state
<1>3. /\ Stored' = Stored
      /\ \A o \in Stored :
            /\ orders'[o].children = orders[o].children
            /\ orders'[o].kind = orders[o].kind
            /\ o \in handlers[h].legs =>
                  orders'[o].status = "Cancelled" /\ orders[o].kind = "Simple"
            /\ o \notin handlers[h].legs => orders'[o] = orders[o]
  BY CancelLegsOrders DEF StepContext
<1>4. ParentsOnly'
  <2>1. \A o \in Stored' : Legs[orders'[o].kind] = 0 => orders'[o].children = {}
    BY <1>3 DEF StepContext, ParentsOnly
  <2>2. QED
    BY <1>2, <1>3, <2>1, ParentsKept
<1>5. handlers'[h] = state
  BY <1>2, HandlerMoves DEF StepContext
<1>6. ASSUME alone' PROVE AloneHeld(h)' /\ CancelledParentHasNoListedLeg'
  <2>1. alone /\ handlers[h].legs = orders[p].children
    BY <1>1, <1>6 DEF StepContext, AloneInv, AloneHeld
  <2>2. \A c \in handlers[h].legs : c \in Stored
    BY <1>1 DEF StepContext, IInv, UpdateHeld, AreLegsOf
  <2>3. \A c \in orders'[p].children : orders'[c].status = "Cancelled"
    BY <1>1, <1>3, <2>1, <2>2
  <2>4. AloneHeld(h)'
    BY <1>2, <1>5, <2>3 DEF AloneHeld, LegsSettled, Pending
  <2>5. \A o \in handlers[h].legs : orders[o].children = {}
    <3>1. Legs["Simple"] = 0
      BY DEF Legs
    <3>2. QED
      BY <1>3, <2>2, <3>1 DEF StepContext, ParentsOnly
  <2>6. \A o \in Stored' : orders'[o].status = "Cancelled" =>
            orders[o].status = "Cancelled" \/ LegsSettled(o)
    BY <1>3, <2>5 DEF LegsSettled
  <2>7. CancelledParentHasNoListedLeg'
    BY <1>3, <2>1, <2>6, CancelledKept
  <2>8. QED
    BY <2>4, <2>7
<1>7. QED
  BY <1>1, <1>2, <1>4, <1>6, MoveAlone

LEMMA UpdateAlone ==
    ASSUME StepContext, NEW h \in Handler, CancelOrder(h) \/ ModifyOrder(h)
    PROVE  ParentsOnly' /\ AloneInv'
<1> DEFINE p == handlers[h].order
<1>1. /\ p \in Stored /\ Stored' = Stored /\ Goto(h, Idle) /\ Idle.at = "idle"
      /\ orders'[p].children = orders[p].children /\ orders'[p].kind = orders[p].kind
      /\ ModifyOrder(h) => orders'[p].status = orders[p].status
      /\ \A o \in Stored \ {p} : orders'[o] = orders[o]
  BY UpdateOrders DEF StepContext, Idle
<1>2. handlers[h].at # "idle"
  BY DEF CancelOrder, ModifyOrder
<1>3. ParentsOnly'
  <2>1. \A o \in Stored' : Legs[orders'[o].kind] = 0 => orders'[o].children = {}
    BY <1>1 DEF StepContext, ParentsOnly
  <2>2. QED
    BY <1>1, <2>1, ParentsKept
<1>4. AloneHeld(h)'
  BY <1>1, HandlerMoves DEF StepContext, AloneHeld
<1>5. ASSUME alone' PROVE CancelledParentHasNoListedLeg'
  <2>1. alone /\ (CancelOrder(h) => LegsSettled(p))
    BY <1>5 DEF StepContext, AloneInv, AloneHeld, CancelOrder
  <2>2. \A o \in Stored' : orders'[o].status = "Cancelled" =>
            /\ orders'[o].children = orders[o].children
            /\ orders[o].status = "Cancelled" \/ LegsSettled(o)
    BY <1>1, <2>1
  <2>3. QED
    BY <1>1, <2>1, <2>2, CancelledKept
<1>6. QED
  BY <1>1, <1>2, <1>3, <1>4, <1>5, MoveAlone

LEMMA NextAlone ==
    IInv /\ ParentsOnly /\ AloneInv /\ [AloneNext]_<<vars, alone>>
        => ParentsOnly' /\ AloneInv'
<1> SUFFICES ASSUME IInv, ParentsOnly, AloneInv, [AloneNext]_<<vars, alone>>
             PROVE  ParentsOnly' /\ AloneInv'
  OBVIOUS
<1>1. CASE UNCHANGED <<vars, alone>>
  BY <1>1 DEF vars, ParentsOnly, AloneInv, OneAtATime, Busy, AloneHeld, LegsSettled,
     CancelledParentHasNoListedLeg, Pending, Stored
<1>2. CASE AloneNext
  <2>1. StepContext
    BY <1>2, NextFinalKept DEF StepContext, AloneNext
  <2>2. ASSUME NEW kind \in Kind, NEW terms \in Terms, PlaceSimple(kind, terms)
        PROVE  ParentsOnly' /\ AloneInv'
    BY <2>1, <2>2, PlaceSimpleAlone
  <2>3. ASSUME NEW h \in Handler, Request(h) PROVE ParentsOnly' /\ AloneInv'
    BY <2>1, <2>3, PlaceParentAlone, ReadToCancelAlone, ReadToModifyAlone DEF Request
  <2>4. ASSUME NEW h \in Handler, Continue(h) PROVE ParentsOnly' /\ AloneInv'
    BY <2>1, <2>4, SaveLegAlone, LinkLegsAlone, CancelLegsAlone, UpdateAlone
       DEF Continue
  <2>5. ASSUME NEW h \in Handler, Abort(h) PROVE ParentsOnly' /\ AloneInv'
    BY <2>1, <2>5, AbortAlone
  <2>6. QED
    BY <1>2, <2>2, <2>3, <2>4, <2>5 DEF AloneNext, Next
<1>3. QED
  BY <1>1, <1>2

\* As long as requests come one at a time, whichever of them fail between the
\* update of the legs and that of the parent, no leg that a cancelled parent
\* lists is left pending (cancelOrder).
THEOREM CancelledWithLegs == AloneSpec => []CancelledWithLegsAlone
<1>1. MCInit => IInv
  BY InitIInv DEF MCInit
<1>2. IInv /\ [AloneNext]_<<vars, alone>> => IInv'
  BY NextIInv DEF AloneNext, vars
<1>3. AloneInv => CancelledWithLegsAlone
  BY DEF AloneInv, CancelledWithLegsAlone
<1>4. QED
  BY <1>1, <1>2, <1>3, InitAlone, NextAlone, PTL DEF AloneSpec
=============================================================================
