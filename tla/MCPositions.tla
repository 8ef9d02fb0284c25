---------------------------- MODULE MCPositions -----------------------------
(***************************************************************************)
(* Positions on small instances.  The ids and the handlers are             *)
(* interchangeable; users, symbols and sides are not permuted.             *)
(* `alone` says whether the requests have come one at a time so far: some  *)
(* properties are promised only then.  To bound the instance, more than    *)
(* MaxMixed trades are made on one symbol only, and more than              *)
(* MaxOverlapping one at a time.                                           *)
(***************************************************************************)
EXTENDS Positions, TLC

CONSTANTS
    MaxMixed,       \* the trades made on several symbols
    MaxOverlapping  \* the trades made while requests overlap

\* Closings of the whole, of some, and of a negative quantity.
MCCloseInput == {-1, 0, 1}

VARIABLE alone

Busy == {h \in Handler : handlers[h].at # "idle"}

MCInit == Init /\ alone = TRUE

OneAtATime == \A g, h \in Busy : g = h

Watch == alone' = (alone /\ OneAtATime')

AloneSpec == MCInit /\ [][Next /\ Watch]_<<vars, alone>>

Bounded ==
    /\ Cardinality(Executed) > MaxOverlapping => alone
    /\ Cardinality(Executed) > MaxMixed =>
          \A t, u \in Executed : trades[t].symbol = trades[u].symbol

MCSpec == MCInit /\ [][Next /\ Watch /\ Bounded']_<<vars, alone>>

MCFaultFreeSpec == MCInit /\ [][FaultFreeNext /\ Watch /\ Bounded']_<<vars, alone>>

Symmetry == Permutations(TradeId) \cup Permutations(PositionId)
                \cup Permutations(Handler)

\* As long as requests come one at a time, they implement the position book,
\* and a request that fails half-way has had its effect or none: every step
\* is one trade of the book, or changes nothing in it.
ImplementsBookAlone ==
    /\ Account!Init
    /\ [][alone' /\ <<Book, Applied>>' # <<Book, Applied>> => Account!Next]_vars

\* As long as requests come one at a time, an open position's quantity is the
\* net of its trades (orders.service.ts:297-314).
QuantityIsNetAlone == alone => OpenQuantityIsNet

\* As long as requests come one at a time, no more is closed than was traded
\* onto the position (positions.service.ts:56).
ClosingsWithinAlone == alone => ClosingsWithinPosition
=============================================================================
