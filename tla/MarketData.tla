----------------------------- MODULE MarketData -----------------------------
(***************************************************************************)
(* Market prices: the client's market slice keeps the symbols a page chose *)
(* and their latest data, its middleware tells the server, and the server  *)
(* (MarketDataService) keeps who subscribed to a symbol, the room of each  *)
(* symbol and a cache, and broadcasts every second.                        *)
(*                                                                         *)
(* One server: rooms and subscribers of a connection are on the server it  *)
(* is connected to.  fetchMarketData fills the cache before it yields, but *)
(* its await lets the handlers of other events in between.                 *)
(*                                                                         *)
(* Abstractions: a price is only there or not; a broadcast takes symbols   *)
(* in any order; what is chosen without a connection is not emitted, so it *)
(* is left out.                                                            *)
(***************************************************************************)
EXTENDS Service, Naturals, Sequences

CONSTANTS
    Page,        \* the browser tabs
    Connection,  \* the ids of connections, each used once
    Symbol,      \* the symbols that are traded
    ListChoice,  \* the lists of symbols a page may pass
    MaxQueued    \* bounds the events on their way to the server

\* An event of a page: subscribe:market or unsubscribe:market.
MarketEvent == [subscribe : BOOLEAN, symbols : Seq(Symbol)]

ASSUME MarketDataAssumption ==
    /\ MaxQueued \in Nat
    /\ ListChoice \subseteq Seq(Symbol)
    /\ {None, Deleted} \cap (Symbol \cup Connection \cup {"open"}) = {}

VARIABLES
    subscribedSymbols, \* the ids subscribed to each symbol; {}: no entry
    marketRooms,       \* the connections in the room of each symbol
    marketDataCache,   \* the symbols with cached data
    subscribes,        \* the subscribe() calls that have yielded
    broadcasting,      \* what broadcastMarketData has yet to send
    broadcastAt,       \* the symbol for which it has yielded
    pages,             \* the client in each tab
    connections,       \* the connections: None, "open" or Deleted
    pricesSent         \* history: the symbols whose data a connection was
                       \* sent since it subscribed

marketVars == <<subscribedSymbols, marketRooms, marketDataCache, subscribes,
                broadcasting, broadcastAt, pages, connections, pricesSent>>

PageState ==
    [line : Connection \cup {None},  \* its connection, when there is one
     symbols : SUBSET Symbol,        \* of the slice's subscribedSymbols, those
                                     \* chosen on this connection
     events : Seq(MarketEvent)]      \* emitted, not handled yet

Subscribe == [line : Connection \cup {None}, todo : Seq(Symbol)]

NoSubscribe == [line |-> None, todo |-> <<>>]

MarketTypeOK ==
    /\ subscribedSymbols \in [Symbol -> SUBSET Connection]
    /\ marketRooms \in [Symbol -> SUBSET Connection]
    /\ marketDataCache \subseteq Symbol
    /\ subscribes \in [Handler -> Subscribe]
    /\ broadcasting \subseteq Symbol
    /\ broadcastAt \in Symbol \cup {None}
    /\ pages \in [Page -> PageState]
    /\ connections \in [Connection -> {None, "open", Deleted}]
    /\ pricesSent \in [Connection -> SUBSET Symbol]

MarketInit ==
    /\ subscribedSymbols = [x \in Symbol |-> {}]
    /\ marketRooms = [x \in Symbol |-> {}]
    /\ marketDataCache = {}
    /\ subscribes = [h \in Handler |-> NoSubscribe]
    /\ broadcasting = {}
    /\ broadcastAt = None
    /\ pages = [p \in Page |-> [line |-> None, symbols |-> {},
                                events |-> <<>>]]
    /\ connections = [c \in Connection |-> None]
    /\ pricesSent = [c \in Connection |-> {}]

serverVars == <<subscribedSymbols, marketRooms, marketDataCache, subscribes,
                broadcasting, broadcastAt>>

SetOf(list) == {list[i] : i \in DOMAIN list}

-----------------------------------------------------------------------------
(* The page                                                                *)

\* subscribeToSymbols; the middleware emits when the connection is open.
Choose(p, list) ==
    /\ pages[p].line # None
    /\ Len(pages[p].events) < MaxQueued
    /\ pages' = [pages EXCEPT ![p] = [pages[p] EXCEPT
            !.symbols = @ \cup SetOf(list),
            !.events = Append(@, [subscribe |-> TRUE, symbols |-> list])]]
    /\ UNCHANGED <<serverVars, connections, pricesSent>>

\* unsubscribeFromSymbols.
Unchoose(p, list) ==
    /\ Len(pages[p].events) < MaxQueued
    /\ pages' = [pages EXCEPT ![p] = [pages[p] EXCEPT
            !.symbols = @ \ SetOf(list),
            !.events = IF pages[p].line = None THEN @
                       ELSE Append(@, [subscribe |-> FALSE, symbols |-> list])]]
    /\ UNCHANGED <<serverVars, connections, pricesSent>>

\* clearMarketData tells the server nothing.
ClearMarketData(p) ==
    /\ pages' = [pages EXCEPT ![p].symbols = {}]
    /\ UNCHANGED <<serverVars, connections, pricesSent>>

\* A connection opens: nothing is emitted then.
OpenLine(p) ==
    /\ pages[p].line = None
    /\ \E c \in UnusedIn(connections) :
          /\ connections' = [connections EXCEPT ![c] = "open"]
          /\ pages' = [pages EXCEPT ![p].line = c]
    /\ UNCHANGED <<serverVars, pricesSent>>

\* It breaks or is left: it leaves its rooms, and its id stays subscribed.
CloseLine(p) ==
    LET c == pages[p].line
    IN  /\ c # None
        /\ connections' = [connections EXCEPT ![c] = Deleted]
        /\ marketRooms' = [x \in Symbol |-> marketRooms[x] \ {c}]
        /\ pricesSent' = [pricesSent EXCEPT ![c] = {}]
        /\ pages' = [pages EXCEPT ![p] = [pages[p] EXCEPT
                        !.line = None, !.events = <<>>, !.symbols = {}]]
        /\ UNCHANGED <<subscribedSymbols, marketDataCache, subscribes,
                       broadcasting, broadcastAt>>

-----------------------------------------------------------------------------
(* subscribe() and unsubscribe()                                           *)

\* The call handles the first n of the list before it yields: up to the first
\* symbol that is not cached, all of it when there is none.
BeforeYield(list, n) ==
    /\ \A i \in 1..(n - 1) : list[i] \in marketDataCache
    /\ n = Len(list) \/ (n > 0 /\ list[n] \notin marketDataCache)

\* c is added to the symbols of now, joins their rooms (unless it is closed)
\* and is sent what the call has got; todo is what is left when it yields.
SubscribeTo(h, c, now, extra, todo) ==
    LET isOpen == connections[c] = "open"
    IN  /\ subscribedSymbols' = [x \in Symbol |->
              IF x \in now THEN subscribedSymbols[x] \cup {c}
                           ELSE subscribedSymbols[x]]
        /\ marketRooms' = [x \in Symbol |->
              IF x \in now /\ isOpen THEN marketRooms[x] \cup {c}
                                     ELSE marketRooms[x]]
        /\ pricesSent' = IF isOpen
                         THEN [pricesSent EXCEPT
                                ![c] = @ \cup extra \cup (now \cap marketDataCache)]
                         ELSE pricesSent
        /\ marketDataCache' = marketDataCache \cup now
        /\ subscribes' = [subscribes EXCEPT ![h] =
              IF now \subseteq marketDataCache THEN NoSubscribe
                                               ELSE [line |-> c, todo |-> todo]]

\* The loop over the list from its head to its next yield; extra is what the
\* call has just sent.
SubscribeLoop(h, c, list, extra) ==
    \E n \in 0..Len(list) :
        /\ BeforeYield(list, n)
        /\ SubscribeTo(h, c, {list[i] : i \in 1..n}, extra,
                       SubSeq(list, n, Len(list)))

\* The handler of subscribe:market.
ServeSubscribe(p, h) ==
    /\ pages[p].events # <<>>
    /\ Head(pages[p].events).subscribe
    /\ subscribes[h] = NoSubscribe
    /\ SubscribeLoop(h, pages[p].line, Head(pages[p].events).symbols, {})
    /\ pages' = [pages EXCEPT ![p].events = Tail(@)]
    /\ UNCHANGED <<broadcasting, broadcastAt, connections>>

\* ... goes on after its await: the data is sent if it is still cached.
ResumeSubscribe(h) ==
    LET todo == subscribes[h].todo
    IN  /\ subscribes[h] # NoSubscribe
        /\ SubscribeLoop(h, subscribes[h].line, Tail(todo),
                         {Head(todo)} \cap marketDataCache)
        /\ UNCHANGED <<pages, broadcasting, broadcastAt, connections>>

\* Slip: the entry goes although others are subscribed.
LeaveAll(c, these) ==
    subscribedSymbols' = [x \in Symbol |->
        IF x \in these THEN {} ELSE subscribedSymbols[x]]

Leave(c, these) ==
    subscribedSymbols' = [x \in Symbol |->
        IF x \in these THEN subscribedSymbols[x] \ {c} ELSE subscribedSymbols[x]]

\* The handler of unsubscribe:market, which does not yield.  With the last
\* subscriber of a symbol its cached data goes.
ServeUnsubscribe(p) ==
    LET c == pages[p].line
        these == SetOf(Head(pages[p].events).symbols)
    IN  /\ pages[p].events # <<>>
        /\ ~Head(pages[p].events).subscribe
        /\ Leave(c, these)
        /\ marketDataCache' = marketDataCache \
              {x \in these : subscribedSymbols[x] # {} /\ subscribedSymbols'[x] = {}}
        /\ marketRooms' = [x \in Symbol |->
              IF x \in these THEN marketRooms[x] \ {c} ELSE marketRooms[x]]
        /\ pricesSent' = [pricesSent EXCEPT ![c] = @ \ these]
        /\ pages' = [pages EXCEPT ![p].events = Tail(@)]
        /\ UNCHANGED <<subscribes, broadcasting, broadcastAt, connections>>

-----------------------------------------------------------------------------
(* Broadcasts                                                              *)

\* A message to the room of x.
EmitTo(x) ==
    pricesSent' = [c \in Connection |->
        IF c \in marketRooms[x] THEN pricesSent[c] \cup {x} ELSE pricesSent[c]]

\* broadcastMarketData starts, every second, with the symbols of that moment.
StartBroadcast ==
    /\ broadcasting = {} /\ broadcastAt = None
    /\ broadcasting' = {x \in Symbol : subscribedSymbols[x] # {}}
    /\ UNCHANGED <<subscribedSymbols, marketRooms, marketDataCache, subscribes,
                   broadcastAt, pages, connections, pricesSent>>

\* It fetches the data of a symbol, subscribed to or no longer, and yields.
BroadcastFetch ==
    /\ broadcastAt = None
    /\ \E x \in broadcasting :
          /\ marketDataCache' = marketDataCache \cup {x}
          /\ broadcastAt' = x
          /\ broadcasting' = broadcasting \ {x}
    /\ UNCHANGED <<subscribedSymbols, marketRooms, subscribes, pages,
                   connections, pricesSent>>

\* It goes on: the data that is still cached is sent to the room.
BroadcastEmit ==
    /\ broadcastAt # None
    /\ IF broadcastAt \in marketDataCache THEN EmitTo(broadcastAt)
                                          ELSE UNCHANGED pricesSent
    /\ broadcastAt' = None
    /\ UNCHANGED <<subscribedSymbols, marketRooms, marketDataCache, subscribes,
                   broadcasting, pages, connections>>

\* updateMarketData, for a feed of an exchange.
UpdateMarketData(x) ==
    /\ marketDataCache' = marketDataCache \cup {x}
    /\ EmitTo(x)
    /\ UNCHANGED <<subscribedSymbols, marketRooms, subscribes, broadcasting,
                   broadcastAt, pages, connections>>

-----------------------------------------------------------------------------
PageStep(p) ==
    \/ \E list \in ListChoice : Choose(p, list) \/ Unchoose(p, list)
    \/ ClearMarketData(p)
    \/ OpenLine(p)
    \/ CloseLine(p)

MarketNext ==
    \/ \E p \in Page : PageStep(p)
    \/ \E p \in Page : ServeUnsubscribe(p)
    \/ \E p \in Page, h \in Handler : ServeSubscribe(p, h)
    \/ \E h \in Handler : ResumeSubscribe(h)
    \/ StartBroadcast
    \/ BroadcastFetch
    \/ BroadcastEmit
    \/ \E x \in Symbol : UpdateMarketData(x)

MarketSpec == MarketInit /\ [][MarketNext]_marketVars

-----------------------------------------------------------------------------
(* Properties                                                              *)

\* What a page chose on a connection is served, once its events are handled
\* and no subscribe() of the connection is waiting: the connection is in the
\* room, the symbol has an entry, so that broadcasts fetch it, and the data of
\* the moment was sent, whatever other pages subscribe and unsubscribe during
\* the awaits (subscribe, unsubscribe).
ChosenIsServed ==
    \A p \in Page :
        LET c == pages[p].line
        IN  /\ c # None
            /\ pages[p].events = <<>>
            /\ \A h \in Handler : subscribes[h].line # c
            => \A x \in pages[p].symbols :
                  /\ c \in marketRooms[x] \cap subscribedSymbols[x]
                  /\ x \in pricesSent[c]
=============================================================================
