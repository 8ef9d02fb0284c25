---------------------------- MODULE PositionBook ----------------------------
(***************************************************************************)
(* What the trading service promises about positions, with no database and *)
(* no interleaving: per user and symbol the book holds at most one         *)
(* position, and an executed trade takes effect once, whole, on the        *)
(* position as it is at that moment.  The Positions module is checked      *)
(* against this one.                                                       *)
(***************************************************************************)
EXTENDS Integers

CONSTANTS
    User,         \* the platform's users
    Symbol,       \* the instruments
    TradeId,      \* the ids of trades
    MaxQuantity,  \* the largest quantity of one request
    Flat          \* the entry of a user and symbol with no open position

Side == {"Buy", "Sell"}

Key == User \X Symbol

VARIABLES
    book,    \* Key -> Flat or a record of side and quantity
    applied  \* TradeId -> Flat or the side and quantity it was applied with

Init ==
    /\ book = [k \in Key |-> Flat]
    /\ applied = [t \in TradeId |-> Flat]

\* A trade on the side of the holding adds to it; one on the other side
\* reduces it, and one of at least its quantity flattens it: the excess is
\* not turned into a holding of the other side.
Settle(holding, trade) ==
    IF holding = Flat THEN trade
    ELSE IF holding.side = trade.side
         THEN [holding EXCEPT !.quantity = @ + trade.quantity]
         ELSE IF trade.quantity >= holding.quantity
              THEN Flat
              ELSE [holding EXCEPT !.quantity = @ - trade.quantity]

Apply(t, k, side, n) ==
    LET trade == [side |-> side, quantity |-> n]
    IN  /\ applied[t] = Flat
        /\ applied' = [applied EXCEPT ![t] = trade]
        /\ book' = [book EXCEPT ![k] = Settle(@, trade)]

\* A market order.
Order(t, k) == \E side \in Side, n \in 1..MaxQuantity : Apply(t, k, side, n)

\* Closing n of a holding: a trade of at most its quantity on its other side.
\* A negative one adds to the holding, and one of the whole quantity leaves
\* either nothing or, when the quantity was given as a string, a holding of 0.
Close(t, k) ==
    LET holding == book[k]
    IN  /\ holding # Flat
        /\ applied[t] = Flat
        /\ \E side \in Side \ {holding.side}, n \in (-MaxQuantity)..holding.quantity :
              /\ applied' = [applied EXCEPT ![t] = [side |-> side, quantity |-> n]]
              /\ \/ book' = [book EXCEPT ![k].quantity = @ - n]
                 \/ n = holding.quantity /\ book' = [book EXCEPT ![k] = Flat]

Next == \E t \in TradeId, k \in Key : Order(t, k) \/ Close(t, k)

Spec == Init /\ [][Next]_<<book, applied>>
=============================================================================
