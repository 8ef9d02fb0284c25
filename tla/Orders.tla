------------------------------- MODULE Orders -------------------------------
(***************************************************************************)
(* The orders of the trading service (OrdersService) from placement to     *)
(* cancellation.  An OCO or bracket order is a parent and its legs, saved  *)
(* by several database calls; cancelling is two updates and modifying one, *)
(* each made after reading the order in a call of its own.  Nothing in the *)
(* service executes a pending order; a market order is executed when it is *)
(* first saved, and goes on in the Positions module.                       *)
(*                                                                         *)
(* As in Positions, a Handler is one request in progress, an action is the *)
(* code up to and including its next database call, and save() writes only *)
(* the fields changed in memory.                                           *)
(*                                                                         *)
(* Abstractions: the fields modifyOrder may change are one value, terms;   *)
(* validation errors before the first save change nothing and are left     *)
(* out; all orders are of the user who makes the requests.                 *)
(***************************************************************************)
EXTENDS Naturals, FiniteSets

CONSTANTS
    OrderId,   \* the ids of the trades collection (bounds the orders)
    Handler,   \* the requests that may be in progress together
    Terms,     \* prices and quantities an order may carry
    None       \* no document, no id

\* Limit, stop, trailing, iceberg, TWAP and VWAP orders are saved alike.
Kind == {"Market", "Simple", "OCO", "Bracket"}

\* The number of legs of a parent order.
Legs == [Market |-> 0, Simple |-> 0, OCO |-> 2, Bracket |-> 3]

Status == {"Pending", "Executed", "Cancelled"}

OrderDoc == [kind : Kind, status : Status, terms : Terms,
             parent : OrderId \cup {None}, children : SUBSET OrderId]

ASSUME OrdersAssumption ==
    /\ None \notin OrderDoc \cup OrderId
    /\ Terms # {}

VARIABLES
    orders,    \* the trades collection
    handlers   \* where each request in progress is and what it has read

vars == <<orders, handlers>>

Stage == {"idle", "legs", "link", "cancelLegs", "cancelOrder", "modify"}

HandlerState ==
    [at : Stage,                     \* the database call it makes next
     order : OrderId \cup {None},    \* the order it works on
     legs : SUBSET OrderId,          \* legs it has saved, or has read
     terms : Terms]                  \* the terms it writes

Idle == [at |-> "idle", order |-> None, legs |-> {},
         terms |-> CHOOSE x \in Terms : TRUE]

TypeOK ==
    /\ orders \in [OrderId -> OrderDoc \cup {None}]
    /\ handlers \in [Handler -> HandlerState]

Init ==
    /\ orders = [o \in OrderId |-> None]
    /\ handlers = [h \in Handler |-> Idle]

Stored == {o \in OrderId : orders[o] # None}

Pending(o) == o \in Stored /\ orders[o].status = "Pending"

Goto(h, state) == handlers' = [handlers EXCEPT ![h] = state]

NewOrder(kind, terms, parent) ==
    [kind |-> kind, terms |-> terms, parent |-> parent, children |-> {},
     status |-> IF kind = "Market" THEN "Executed" ELSE "Pending"]

-----------------------------------------------------------------------------
(* Placing                                                                 *)

\* placeOrder of an order that is one document.
PlaceSimple(kind, terms) ==
    /\ Legs[kind] = 0
    /\ \E o \in OrderId \ Stored :
            orders' = [orders EXCEPT ![o] = NewOrder(kind, terms, None)]
    /\ UNCHANGED handlers

\* placeOCOOrder and placeBracketOrder save the parent ...
PlaceParent(h, kind, terms) ==
    /\ handlers[h].at = "idle"
    /\ Legs[kind] > 0
    /\ \E o \in OrderId \ Stored :
          /\ orders' = [orders EXCEPT ![o] = NewOrder(kind, terms, None)]
          /\ Goto(h, [Idle EXCEPT !.at = "legs", !.order = o, !.terms = terms])

\* Slip: the parent is linked as soon as one leg is saved.
SaveOneLeg(h) ==
    /\ handlers[h].at = "legs"
    /\ \E o \in OrderId \ Stored :
          /\ orders' = [orders EXCEPT
                ![o] = NewOrder("Simple", handlers[h].terms, handlers[h].order)]
          /\ Goto(h, [handlers[h] EXCEPT !.legs = @ \cup {o}, !.at = "link"])

\* ... then the legs, copies of the parent in memory, in any order ...
SaveLeg(h) ==
    LET parent == handlers[h].order
    IN  /\ handlers[h].at = "legs"
        /\ \E o \in OrderId \ Stored :
              LET legs == handlers[h].legs \cup {o}
                  all == Cardinality(legs) = Legs[orders[parent].kind]
              IN  /\ orders' = [orders EXCEPT
                        ![o] = NewOrder("Simple", handlers[h].terms, parent)]
                  /\ Goto(h, [handlers[h] EXCEPT
                        !.legs = legs,
                        !.at = IF all THEN "link" ELSE @])

\* Slip: the parent is written back whole, as it was when it was placed.
LinkLegsWhole(h) ==
    LET parent == handlers[h].order
    IN  /\ handlers[h].at = "link"
        /\ orders' = [orders EXCEPT
              ![parent] = [NewOrder(@.kind, handlers[h].terms, None)
                            EXCEPT !.children = handlers[h].legs]]
        /\ Goto(h, Idle)

\* ... and, when all are saved, the parent again, with the ids of its legs.
LinkLegs(h) ==
    /\ handlers[h].at = "link"
    /\ orders' = [orders EXCEPT ![handlers[h].order].children = handlers[h].legs]
    /\ Goto(h, Idle)

-----------------------------------------------------------------------------
(* Cancelling and modifying                                                *)

\* Slip: the legs are left out.
ReadToCancelOrderOnly(h, o) ==
    /\ handlers[h].at = "idle"
    /\ Pending(o)
    /\ Goto(h, [Idle EXCEPT !.at = "cancelOrder", !.order = o])
    /\ UNCHANGED orders

\* cancelOrder reads the order; only a pending one goes on.
ReadToCancel(h, o) ==
    /\ handlers[h].at = "idle"
    /\ Pending(o)
    /\ Goto(h, [Idle EXCEPT
                  !.at = IF orders[o].children = {} THEN "cancelOrder"
                                                    ELSE "cancelLegs",
                  !.order = o, !.legs = orders[o].children])
    /\ UNCHANGED orders

\* updateMany on the legs that were read, whatever their status is by now ...
CancelLegs(h) ==
    /\ handlers[h].at = "cancelLegs"
    /\ orders' = [o \in OrderId |->
                    IF o \in handlers[h].legs \cap Stored
                    THEN [orders[o] EXCEPT !.status = "Cancelled"]
                    ELSE orders[o]]
    /\ Goto(h, [handlers[h] EXCEPT !.at = "cancelOrder"])

\* Slip: a status that is not one of the enumeration.
CancelOrderMisspelt(h) ==
    /\ handlers[h].at = "cancelOrder"
    /\ orders' = [orders EXCEPT ![handlers[h].order].status = "Canceled"]
    /\ Goto(h, Idle)

\* ... then the order itself, by id.
CancelOrder(h) ==
    /\ handlers[h].at = "cancelOrder"
    /\ orders' = [orders EXCEPT ![handlers[h].order].status = "Cancelled"]
    /\ Goto(h, Idle)

\* modifyOrder reads the order; only a pending one goes on ...
ReadToModify(h, o, terms) ==
    /\ handlers[h].at = "idle"
    /\ Pending(o)
    /\ Goto(h, [Idle EXCEPT !.at = "modify", !.order = o, !.terms = terms])
    /\ UNCHANGED orders

\* ... and is updated by id.
ModifyOrder(h) ==
    /\ handlers[h].at = "modify"
    /\ orders' = [orders EXCEPT ![handlers[h].order].terms = handlers[h].terms]
    /\ Goto(h, Idle)

\* A database call rejects or the process dies: what was saved stays saved.
Abort(h) ==
    /\ handlers[h].at # "idle"
    /\ Goto(h, Idle)
    /\ UNCHANGED orders

-----------------------------------------------------------------------------
Request(h) ==
    \/ \E kind \in Kind, terms \in Terms : PlaceParent(h, kind, terms)
    \/ \E o \in OrderId : ReadToCancel(h, o)
    \/ \E o \in OrderId, terms \in Terms : ReadToModify(h, o, terms)

Continue(h) ==
    SaveLeg(h) \/ LinkLegs(h) \/ CancelLegs(h) \/ CancelOrder(h) \/ ModifyOrder(h)

Next ==
    \/ \E kind \in Kind, terms \in Terms : PlaceSimple(kind, terms)
    \/ \E h \in Handler : Request(h) \/ Continue(h) \/ Abort(h)

Spec == Init /\ [][Next]_vars

-----------------------------------------------------------------------------
(* Properties under any interleaving and any failure                       *)

\* A parent that lists legs lists all of them: each is stored and names it as
\* its parent (placeOCOOrder, placeBracketOrder save the list last, after all
\* legs), so no order is a leg of two parents.
LinkedLegsComplete ==
    \A o \in Stored :
        orders[o].children # {} =>
            /\ Cardinality(orders[o].children) = Legs[orders[o].kind]
            /\ \A c \in orders[o].children : c \in Stored /\ orders[c].parent = o

\* An order that is executed or cancelled stays so, also when a request that
\* read it before goes on to write it (placement's second save of the parent,
\* modifyOrder, another cancelOrder).
FinalStatusKept ==
    [][\A o \in Stored :
          orders[o].status # "Pending" => orders'[o].status = orders[o].status]_vars

-----------------------------------------------------------------------------
(* Properties of requests that do not overlap                              *)

\* 'If it's a parent order (OCO, Bracket), cancel child orders too'
\* (orders.service.ts:125): no leg a cancelled parent lists is still pending.
CancelledParentHasNoListedLeg ==
    \A o \in Stored :
        orders[o].status = "Cancelled" =>
            \A c \in orders[o].children : ~Pending(c)
=============================================================================
