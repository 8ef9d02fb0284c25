------------------------------ MODULE MCOrders ------------------------------
(***************************************************************************)
(* Orders on small instances.  Ids and handlers are interchangeable.       *)
(* `alone` says whether the requests have come one at a time so far: some  *)
(* properties are promised only then.  To bound the instance, requests may *)
(* overlap only while all orders are on the same terms.                    *)
(***************************************************************************)
EXTENDS Orders, TLC

VARIABLE alone

Busy == {h \in Handler : handlers[h].at # "idle"}

TermsUsed == {orders[o].terms : o \in Stored}
                \cup {handlers[h].terms : h \in Busy}

MCInit == Init /\ alone = TRUE

OneAtATime == \A g, h \in Busy : g = h

AloneNext == Next /\ alone' = (alone /\ OneAtATime')

AloneSpec == MCInit /\ [][AloneNext]_<<vars, alone>>

Bounded == alone \/ Cardinality(TermsUsed) <= 1

MCSpec == MCInit /\ [][AloneNext /\ Bounded']_<<vars, alone>>

Symmetry == Permutations(OrderId) \cup Permutations(Handler)

\* As long as requests come one at a time, cancelling a parent order cancels
\* the legs it lists, whatever fails half-way (orders.service.ts:125).
CancelledWithLegsAlone == alone => CancelledParentHasNoListedLeg
=============================================================================
