-------------------------------- MODULE Push --------------------------------
(***************************************************************************)
(* Pushing orders, positions and notifications to the browser: an update   *)
(* is published through Redis; each Socket.IO server passes it on to the   *)
(* room of its user, if that user has subscribed there; the client's       *)
(* middleware puts it into the store.                                      *)
(*                                                                         *)
(* OrderService, PositionService and NotificationService do the same on    *)
(* channels, rooms and sets of their own and share nothing, so a behaviour *)
(* follows one of them: the stream chosen at first.                        *)
(*                                                                         *)
(* A socket is one connection.  Redis pub/sub keeps nothing for a server   *)
(* that does not listen, and a lost connection takes along what is on its  *)
(* way.  Stopping all services on SIGTERM is one action.                   *)
(***************************************************************************)
EXTENDS Service, Counting, Integers

CONSTANTS
    Server,    \* the Socket.IO server processes
    SocketId,  \* the ids of connections
    Tab,       \* the browser tabs with the client
    Viewer,    \* the users
    MessageId  \* the updates that are published

Stream == {"orders", "positions", "notifications"}

Update == [id : MessageId, user : Viewer]

SocketDoc ==
    [server : Server,
     user : Viewer,
     inRoom : BOOLEAN,  \* it is in the room of its user
     left : BOOLEAN]    \* history: it unsubscribed

ASSUME PushAssumption ==
    {None, Deleted} \cap (SocketDoc \cup SocketId \cup Viewer) = {}

VARIABLES
    stream,     \* the stream that is followed
    servers,    \* the server processes
    sockets,    \* the connections as the servers know them
    subscribed, \* subscribedUsers of the stream's service, at each server
    tabs,       \* the client in each tab
    bus,        \* what Redis has yet to hand to each server
    wire,       \* what is on its way over each connection
    published,  \* the updates published
    silenced    \* history: users unsubscribed since they last subscribed

pushVars == <<stream, servers, sockets, subscribed, tabs, bus, wire, published,
              silenced>>

\* A server listens before its service is subscribed to the channel, and goes on
\* when the service cannot be; it is closed when it was told to end and waits
\* for its connections.
Phase == {"down", "listening", "serving", "closed"}

ServerState ==
    [phase : Phase,
     adapter : BOOLEAN]  \* its rooms reach over servers (the Redis adapter)

ShownNote == [id : MessageId, read : BOOLEAN]

TabState ==
    [user : Viewer \cup {None},       \* who is logged in
     socket : SocketId \cup {None},   \* the connection, when there is one
     emits : BOOLEAN,                 \* a subscribe event is not handled yet
     lost : BOOLEAN,                  \* history: a connection broke since log-in
     notes : Seq(ShownNote),          \* notificationSlice: notifications
     unread : Nat]                    \* notificationSlice: unreadCount

PushTypeOK ==
    /\ stream \in Stream
    /\ servers \in [Server -> ServerState]
    /\ sockets \in [SocketId -> SocketDoc \cup {None, Deleted}]
    /\ subscribed \in [Server -> SUBSET Viewer]
    /\ tabs \in [Tab -> TabState]
    /\ bus \in [Server -> Seq(Update)]
    /\ wire \in [SocketId -> Seq(Update)]
    /\ published \subseteq MessageId
    /\ silenced \in [Server -> SUBSET Viewer]

PushInit ==
    /\ stream \in Stream
    /\ servers = [srv \in Server |-> [phase |-> "down", adapter |-> FALSE]]
    /\ sockets = [s \in SocketId |-> None]
    /\ subscribed = [srv \in Server |-> {}]
    /\ tabs = [t \in Tab |-> [user |-> None, socket |-> None, emits |-> FALSE,
                              lost |-> FALSE, notes |-> <<>>, unread |-> 0]]
    /\ bus = [srv \in Server |-> <<>>]
    /\ wire = [s \in SocketId |-> <<>>]
    /\ published = {}
    /\ silenced = [srv \in Server |-> {}]

Connected == StoredIn(sockets)

SocketsOf(srv) == {s \in Connected : sockets[s].server = srv}

\* The server forgets a connection and its rooms; the disconnect handler of
\* index.ts leaves the subscribed users as they are.
CloseSockets(S) ==
    /\ sockets' = [s \in SocketId |-> IF s \in S THEN Deleted ELSE sockets[s]]
    /\ wire' = [s \in SocketId |-> IF s \in S THEN <<>> ELSE wire[s]]

-----------------------------------------------------------------------------
(* Server processes                                                        *)

EntersPhase(srv, phase) == servers' = [servers EXCEPT ![srv].phase = phase]

\* startServer: without Redis the adapter is left out, and it listens all the
\* same, before any of its services has started.
StartListening(srv) ==
    /\ servers[srv].phase = "down"
    /\ \E adapter \in BOOLEAN :
          servers' = [servers EXCEPT ![srv] =
                        [phase |-> "listening", adapter |-> adapter]]
    /\ UNCHANGED <<stream, sockets, subscribed, tabs, bus, wire, published, silenced>>

\* start subscribes to the channel; an error is logged and the server listens
\* as before.
Start(srv) ==
    /\ servers[srv].phase = "listening"
    /\ EntersPhase(srv, "serving")
    /\ UNCHANGED <<stream, sockets, subscribed, tabs, bus, wire, published, silenced>>

\* stop, on SIGTERM; then the server takes no new connection and waits for
\* the others to end.
Stop(srv) ==
    /\ servers[srv].phase \in {"listening", "serving"}
    /\ EntersPhase(srv, "closed")
    /\ bus' = [bus EXCEPT ![srv] = <<>>]
    /\ UNCHANGED <<stream, sockets, subscribed, tabs, wire, published, silenced>>

\* The process ends, with its sets: told to, or as it crashes.
EndProcess(srv) ==
    LET broken == SocketsOf(srv)
    IN  /\ servers[srv].phase # "down"
        /\ EntersPhase(srv, "down")
        /\ CloseSockets(broken)
        /\ tabs' = [t \in Tab |->
              IF tabs[t].socket \in broken
              THEN [tabs[t] EXCEPT !.socket = None, !.emits = FALSE, !.lost = TRUE]
              ELSE tabs[t]]
        /\ subscribed' = [subscribed EXCEPT ![srv] = {}]
        /\ silenced' = [silenced EXCEPT ![srv] = {}]
        /\ bus' = [bus EXCEPT ![srv] = <<>>]
        /\ UNCHANGED <<stream, published>>

-----------------------------------------------------------------------------
(* Connections                                                             *)

\* auth/setCredentials: the middleware leaves the old connection, makes a new
\* one and emits a subscribe event for every stream, kept until it is open.
LogIn(t, u) ==
    /\ CloseSockets({tabs[t].socket} \ {None})
    /\ tabs' = [tabs EXCEPT ![t] = [@ EXCEPT
                    !.user = u, !.socket = None, !.emits = TRUE, !.lost = FALSE]]
    /\ UNCHANGED <<stream, servers, subscribed, bus, published, silenced>>

\* The connection opens at one of the servers, at first or again, once
\* authMiddleware has found the user in its token.
OpenConnection(t) ==
    /\ tabs[t].user # None
    /\ tabs[t].socket = None
    /\ \E s \in UnusedIn(sockets), srv \in Server :
          /\ servers[srv].phase \notin {"down", "closed"}
          /\ sockets' = [sockets EXCEPT ![s] =
                [server |-> srv, user |-> tabs[t].user, inRoom |-> FALSE,
                 left |-> FALSE]]
          /\ tabs' = [tabs EXCEPT ![t].socket = s]
    /\ UNCHANGED <<stream, servers, subscribed, bus, wire, published, silenced>>

\* Slip: a user whose connection breaks is no longer subscribed.
LoseConnectionAndUser(t) ==
    LET s == tabs[t].socket
    IN  /\ s # None
        /\ CloseSockets({s})
        /\ tabs' = [tabs EXCEPT ![t] = [@ EXCEPT
                        !.socket = None, !.emits = FALSE, !.lost = TRUE]]
        /\ subscribed' = [subscribed EXCEPT ![sockets[s].server] =
                            @ \ {sockets[s].user}]
        /\ UNCHANGED <<stream, servers, bus, published, silenced>>

\* The connection breaks.  socket.io opens another; nothing is emitted then.
LoseConnection(t) ==
    /\ tabs[t].socket # None
    /\ CloseSockets({tabs[t].socket})
    /\ tabs' = [tabs EXCEPT ![t] = [@ EXCEPT
                    !.socket = None, !.emits = FALSE, !.lost = TRUE]]
    /\ UNCHANGED <<stream, servers, subscribed, bus, published, silenced>>

\* auth/clearCredentials: the middleware disconnects; the store is kept.
LogOut(t) ==
    /\ tabs[t].user # None
    /\ CloseSockets({tabs[t].socket} \ {None})
    /\ tabs' = [tabs EXCEPT ![t] = [@ EXCEPT
                    !.user = None, !.socket = None, !.emits = FALSE]]
    /\ UNCHANGED <<stream, servers, subscribed, bus, published, silenced>>

-----------------------------------------------------------------------------
(* Subscribing and updates, at a server                                    *)

\* The handler of the subscribe event: the user is added, the connection joins
\* the room.
HandleSubscribe(srv) ==
    \E t \in Tab :
        LET s == tabs[t].socket
        IN  /\ s \in SocketsOf(srv)
            /\ tabs[t].emits
            /\ subscribed' = [subscribed EXCEPT ![srv] = @ \cup {sockets[s].user}]
            /\ silenced' = [silenced EXCEPT ![srv] = @ \ {sockets[s].user}]
            /\ sockets' = [sockets EXCEPT ![s].inRoom = TRUE]
            /\ tabs' = [tabs EXCEPT ![t].emits = FALSE]
            /\ UNCHANGED <<stream, servers, bus, wire, published>>

\* The handler of the unsubscribe event, which other clients than this one may
\* emit: the user is removed, whatever other sockets are in the room.
HandleUnsubscribe(srv) ==
    \E s \in SocketsOf(srv) :
        /\ subscribed' = [subscribed EXCEPT ![srv] = @ \ {sockets[s].user}]
        /\ silenced' = [silenced EXCEPT ![srv] = @ \cup {sockets[s].user}]
        /\ sockets' = [sockets EXCEPT ![s].inRoom = FALSE, ![s].left = TRUE]
        /\ UNCHANGED <<stream, servers, tabs, bus, wire, published>>

\* Another service publishes an update through Redis: the servers that are
\* subscribed to the channel get it.  (publishOrderUpdate of a server cannot:
\* its client is in subscriber mode, which refuses the command.)
Publish(m) ==
    /\ m.id \notin published
    /\ published' = published \cup {m.id}
    /\ bus' = [srv \in Server |->
                IF servers[srv].phase = "serving" THEN Append(bus[srv], m)
                                                  ELSE bus[srv]]
    /\ UNCHANGED <<stream, servers, sockets, subscribed, tabs, wire, silenced>>

\* The sockets in the room of u that a message from srv reaches.
RoomFrom(srv, u) ==
    {s \in Connected :
        /\ sockets[s].user = u
        /\ sockets[s].inRoom
        /\ \/ sockets[s].server = srv
           \/ servers[srv].adapter /\ servers[sockets[s].server].adapter}

\* handleOrderUpdate and its like: a server where the user has subscribed
\* emits to the whole room.
Relay(srv) ==
    LET m == Head(bus[srv])
    IN  /\ bus[srv] # <<>>
        /\ bus' = [bus EXCEPT ![srv] = Tail(@)]
        /\ wire' = [s \in SocketId |->
              IF m.user \in subscribed[srv] /\ s \in RoomFrom(srv, m.user)
              THEN Append(wire[s], m) ELSE wire[s]]
        /\ UNCHANGED <<stream, servers, sockets, subscribed, tabs, published, silenced>>

ServiceStep(srv) ==
    \/ Start(srv)
    \/ HandleSubscribe(srv)
    \/ HandleUnsubscribe(srv)
    \/ Relay(srv)
    \/ Stop(srv)

\* The three services.
OrderService(srv) == stream = "orders" /\ ServiceStep(srv)

PositionService(srv) == stream = "positions" /\ ServiceStep(srv)

NotificationService(srv) == stream = "notifications" /\ ServiceStep(srv)

-----------------------------------------------------------------------------
(* Updates, at the client                                                  *)

\* The tab with these notifications and this count.
Holding(tab, notes, unread) == [tab EXCEPT !.notes = notes, !.unread = unread]

\* addNotification puts it first and counts it: all that are pushed are unread.
AddNotification(tab, id) ==
    Holding(tab, <<[id |-> id, read |-> FALSE]>> \o tab.notes, tab.unread + 1)

\* What comes over the connection of a tab, with what becomes of the tab.
Receive(t, tab) ==
    LET s == tabs[t].socket
    IN  /\ s # None
        /\ wire[s] # <<>>
        /\ wire' = [wire EXCEPT ![s] = Tail(@)]
        /\ tabs' = [tabs EXCEPT ![t] = tab]
        /\ UNCHANGED <<stream, servers, sockets, subscribed, bus, published, silenced>>

Notified(t) == AddNotification(tabs[t], Head(wire[tabs[t].socket]).id)

\* The handler of order:update: a notification for an order that is filled,
\* cancelled or rejected; none for another.
ReceiveOrder(t) ==
    /\ stream = "orders"
    /\ Receive(t, Notified(t)) \/ Receive(t, tabs[t])

\* The handler of position:update.
ReceivePosition(t) ==
    /\ stream = "positions"
    /\ Receive(t, tabs[t])

\* The handler of notification.
ReceiveNotification(t) ==
    /\ stream = "notifications"
    /\ Receive(t, Notified(t))

-----------------------------------------------------------------------------
(* The reader                                                              *)

UnreadIn(notes) == {i \in DOMAIN notes : ~notes[i].read}

\* The position of the first notification with the id, or 0.
FirstOf(notes, id) ==
    LET found == {i \in DOMAIN notes : notes[i].id = id}
    IN  IF found = {} THEN 0
        ELSE CHOOSE i \in found : \A j \in found : i <= j

IsUnread(notes, i) == i # 0 /\ ~notes[i].read

\* markAsRead, of the first with the id.
Read(tab, id) ==
    LET i == FirstOf(tab.notes, id)
    IN  IF IsUnread(tab.notes, i)
        THEN Holding(tab, [tab.notes EXCEPT ![i].read = TRUE], tab.unread - 1)
        ELSE tab

\* Slip: the count is reset, the notifications stay as they are.
ReadAllCountOnly(tab) == [tab EXCEPT !.unread = 0]

\* markAllAsRead.
ReadAll(tab) ==
    Holding(tab,
            [i \in DOMAIN tab.notes |-> [tab.notes[i] EXCEPT !.read = TRUE]], 0)

\* The positions of the notifications with another id.
OtherThan(notes, id) == {i \in DOMAIN notes : notes[i].id # id}

\* Slip: one that was read is counted down again.
RemoveCounted(tab, id) ==
    Holding(tab, PickFrom(tab.notes, OtherThan(tab.notes, id)),
            IF FirstOf(tab.notes, id) # 0 THEN tab.unread - 1 ELSE tab.unread)

\* removeNotification: all with the id go, the first is counted.
Remove(tab, id) ==
    Holding(tab, PickFrom(tab.notes, OtherThan(tab.notes, id)),
            IF IsUnread(tab.notes, FirstOf(tab.notes, id))
            THEN tab.unread - 1 ELSE tab.unread)

\* clearNotifications.
Clear(tab) == Holding(tab, <<>>, 0)

\* The user reads or removes notifications.
UserReads(t) ==
    /\ tabs[t].notes # <<>>
    /\ \/ \E id \in MessageId :
             \/ tabs' = [tabs EXCEPT ![t] = Read(@, id)]
             \/ tabs' = [tabs EXCEPT ![t] = Remove(@, id)]
       \/ tabs' = [tabs EXCEPT ![t] = ReadAll(@)]
       \/ tabs' = [tabs EXCEPT ![t] = Clear(@)]
    /\ UNCHANGED <<stream, servers, sockets, subscribed, bus, wire, published, silenced>>

-----------------------------------------------------------------------------
TabStep(t) ==
    \/ \E u \in Viewer : LogIn(t, u)
    \/ OpenConnection(t)
    \/ LoseConnection(t)
    \/ LogOut(t)
    \/ ReceiveOrder(t)
    \/ ReceivePosition(t)
    \/ ReceiveNotification(t)
    \/ UserReads(t)

ServerStep(srv) ==
    \/ StartListening(srv)
    \/ OrderService(srv)
    \/ PositionService(srv)
    \/ NotificationService(srv)
    \/ EndProcess(srv)

PushNext ==
    \/ \E t \in Tab : TabStep(t)
    \/ \E srv \in Server : ServerStep(srv)
    \/ \E m \in Update : Publish(m)

PushSpec == PushInit /\ [][PushNext]_pushVars

-----------------------------------------------------------------------------
(* Properties                                                              *)

\* A tab that has not lost its connection since the log-in is subscribed once
\* its event is handled, although the event was emitted before there was a
\* connection (websocketMiddleware.ts:76-79): it is in the room of its user, who
\* is among the users its server relays to, whatever other connections of the
\* user came and went (the disconnect handler of index.ts), unless this or
\* another of them unsubscribed (subscribe, unsubscribe).  That the server has
\* its own subscription at Redis is not said: it listens without.
LoggedInIsServed ==
    \A t \in Tab :
        LET s == tabs[t].socket
        IN  /\ s # None
            /\ ~tabs[t].lost
            /\ ~tabs[t].emits
            /\ ~sockets[s].left
            => /\ sockets[s].inRoom
               /\ sockets[s].user \in subscribed[sockets[s].server]
                                        \cup silenced[sockets[s].server]

\* The badge never hides a notification: the unread count is at least the
\* number of unread notifications, although several servers may deliver the
\* same one twice (addNotification, markAsRead, removeNotification).
NoUnreadHidden ==
    \A t \in Tab : Cardinality(UnreadIn(tabs[t].notes)) <= tabs[t].unread
=============================================================================
