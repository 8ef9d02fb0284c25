-------------------------- MODULE Services_proofs ---------------------------
(***************************************************************************)
(* Proofs about the smaller services, for any users, documents, limits and *)
(* requests in progress.                                                   *)
(***************************************************************************)
EXTENDS MCServices, Realtime_proofs, Counting_proofs, TLAPS

(***************************************************************************)
(* Accounts: what a request relies on between two updates.                 *)
(***************************************************************************)

\* A request that has begun carries what it is about.
RequestCarries(h) ==
    LET r == requests[h]
    IN  /\ r.at = "insert" =>
              r.email \in Email /\ r.phone \in Phone /\ r.password \in Password
        /\ r.at \in {"verify", "device", "token"} => r.session \in Session
        /\ r.at \notin {"idle", "insert"} => r.user \in UserId /\ users[r.user] # None

\* A log-in that has yet to store its token has recorded the device, unless the
\* user was removed meanwhile.
DeviceFirst(h) ==
    LET r == requests[h]
    IN  r.at = "token" /\ r.user \in User => r.session \in users[r.user].devices

AccountsIInv == /\ AccountsTypeOK
        /\ SessionIsRecorded
        /\ \A h \in Handler : RequestCarries(h) /\ DeviceFirst(h)

LEMMA NoRequestType == NoRequest \in RequestState
  BY DEF NoRequest, RequestState, RequestStage

LEMMA UsersNotNone ==
    /\ \A d \in UserDoc : d # None /\ d # Deleted
    /\ None \notin Session
  BY AccountsAssumption

LEMMA AccountsInitIInv == AccountsInit => AccountsIInv
<1> SUFFICES ASSUME AccountsInit PROVE AccountsIInv
  OBVIOUS
<1>1. AccountsTypeOK
  BY NoRequestType DEF AccountsInit, AccountsTypeOK
<1>2. User = {}
  BY DEF AccountsInit, User, StoredIn
<1>3. \A h \in Handler : requests[h].at = "idle"
  BY DEF AccountsInit, NoRequest
<1>4. QED
  BY <1>1, <1>2, <1>3 DEF AccountsIInv, SessionIsRecorded, RequestCarries, DeviceFirst

-----------------------------------------------------------------------------
(* What no update undoes.                                                  *)

\* A stored user was stored before or is new without a session; no device is
\* forgotten, and no removed user comes back.
UsersKept ==
    /\ users' \in [UserId -> UserDoc \cup {None, Deleted}]
    /\ \A u \in UserId :
          /\ users[u] # None => users'[u] # None
          /\ u \in User /\ u \in User' => users[u].devices \subseteq users'[u].devices
          /\ users[u] = Deleted => users'[u] = Deleted

LEMMA SameUsers == ASSUME AccountsIInv, UNCHANGED users PROVE UsersKept
  BY DEF AccountsIInv, AccountsTypeOK, UsersKept, User, StoredIn

\* What a request that does not move relies on stays.
LEMMA RequestKept ==
    ASSUME AccountsIInv, UsersKept, NEW h \in Handler, requests'[h] = requests[h]
    PROVE  RequestCarries(h)' /\ DeviceFirst(h)'
<1>1. RequestCarries(h) /\ DeviceFirst(h)
  BY DEF AccountsIInv
<1>2. RequestCarries(h)'
  BY <1>1 DEF RequestCarries, UsersKept
<1>3. DeviceFirst(h)'
  <2> SUFFICES ASSUME requests[h].at = "token", requests[h].user \in User'
               PROVE  requests[h].session \in users'[requests[h].user].devices
    BY DEF DeviceFirst
  <2>1. requests[h].user \in UserId /\ users[requests[h].user] # None
    BY <1>1 DEF RequestCarries
  <2>2. requests[h].user \in User
    BY <2>1 DEF UsersKept, User, StoredIn, AccountsIInv, AccountsTypeOK
  <2>3. QED
    BY <1>1, <2>1, <2>2 DEF DeviceFirst, UsersKept
<1>4. QED
  BY <1>2, <1>3

\* No request moves.
LEMMA NoRequestMoves ==
    ASSUME AccountsIInv, UNCHANGED requests, UsersKept, SessionIsRecorded'
    PROVE  AccountsIInv'
<1>1. AccountsTypeOK'
  BY DEF AccountsIInv, AccountsTypeOK, UsersKept
<1>2. \A h \in Handler : RequestCarries(h)' /\ DeviceFirst(h)'
  BY RequestKept
<1>3. QED
  BY <1>1, <1>2 DEF AccountsIInv

\* A request moves to a state of which the two facts hold.
LEMMA RequestMoves ==
    ASSUME AccountsIInv, NEW h \in Handler, NEW state \in RequestState,
           RequestGoes(h, state), UsersKept, SessionIsRecorded',
           RequestCarries(h)', DeviceFirst(h)'
    PROVE  AccountsIInv'
<1>1. requests' = [requests EXCEPT ![h] = state]
  BY DEF RequestGoes
<1>2. AccountsTypeOK'
  BY <1>1 DEF AccountsIInv, AccountsTypeOK, UsersKept
<1>3. ASSUME NEW g \in Handler PROVE RequestCarries(g)' /\ DeviceFirst(g)'
  <2>1. CASE g = h
    BY <2>1
  <2>2. CASE g # h
    <3>1. requests'[g] = requests[g]
      BY <1>1, <2>2 DEF AccountsIInv, AccountsTypeOK
    <3>2. QED
      BY <3>1, RequestKept
  <2>3. QED
    BY <2>1, <2>2
<1>4. QED
  BY <1>2, <1>3 DEF AccountsIInv

\* A request that ends relies on nothing.
LEMMA RequestEnds ==
    ASSUME AccountsIInv, NEW h \in Handler, RequestGoes(h, NoRequest), UsersKept,
           SessionIsRecorded'
    PROVE  AccountsIInv'
<1>1. requests'[h] = NoRequest
  BY DEF RequestGoes, AccountsIInv, AccountsTypeOK
<1>2. RequestCarries(h)' /\ DeviceFirst(h)'
  BY <1>1 DEF RequestCarries, DeviceFirst, NoRequest
<1>3. QED
  BY <1>2, RequestMoves, NoRequestType

LEMMA SameSessions == ASSUME AccountsIInv, UNCHANGED users PROVE SessionIsRecorded'
  BY DEF AccountsIInv, SessionIsRecorded, User, StoredIn, Refreshes

-----------------------------------------------------------------------------
(* Updates of one user.                                                    *)

\* A document that keeps the devices, and has only a token that is recorded,
\* takes the place of another.
LEMMA UserReplaced ==
    ASSUME AccountsIInv, NEW u \in User, NEW doc \in UserDoc,
           users' = [users EXCEPT ![u] = doc],
           users[u].devices \subseteq doc.devices,
           doc.refreshToken \in doc.devices \cup {None}
    PROVE  UsersKept /\ SessionIsRecorded'
<1>1. u \in UserId /\ users[u] \in UserDoc
  BY DEF AccountsIInv, AccountsTypeOK, User, StoredIn
<1>2. \A v \in UserId : users'[v] = IF v = u THEN doc ELSE users[v]
  BY DEF AccountsIInv, AccountsTypeOK
<1>3. UsersKept
  BY <1>1, <1>2, UsersNotNone DEF AccountsIInv, AccountsTypeOK, UsersKept, User, StoredIn
<1>4. SessionIsRecorded'
  BY <1>1, <1>2, UsersNotNone
     DEF AccountsIInv, AccountsTypeOK, SessionIsRecorded, User, StoredIn, Refreshes
<1>5. QED
  BY <1>3, <1>4

\* The token of a stored user is among its devices.
LEMMA TokenRecorded ==
    ASSUME AccountsIInv, NEW u \in User
    PROVE  /\ u \in UserId
           /\ users[u] \in UserDoc
           /\ users[u].refreshToken \in users[u].devices \cup {None}
<1>1. u \in UserId /\ users[u] \in UserDoc
  BY DEF AccountsIInv, AccountsTypeOK, User, StoredIn
<1>2. users[u].refreshToken \in Session \cup {None}
  BY <1>1 DEF UserDoc
<1>3. QED
  BY <1>1, <1>2 DEF AccountsIInv, SessionIsRecorded, Refreshes

\* Nothing of the sessions changes: the same by id, where there is a user.
LEMMA UserUpdatedById ==
    ASSUME AccountsIInv, NEW u \in UserId, NEW doc, UpdateById(u, doc),
           u \in User => /\ doc \in UserDoc
                         /\ users[u].devices \subseteq doc.devices
                         /\ doc.refreshToken \in doc.devices \cup {None}
    PROVE  UsersKept /\ SessionIsRecorded'
<1>1. CASE u \in User
  BY <1>1, UserReplaced DEF UpdateById
<1>2. CASE u \notin User
  BY <1>2, SameUsers, SameSessions DEF UpdateById
<1>3. QED
  BY <1>1, <1>2

-----------------------------------------------------------------------------
(* The steps.                                                              *)

\* What is known of a request and of the user it is about.
LEMMA InRequest ==
    ASSUME AccountsIInv, NEW h \in Handler, requests[h].at \notin {"idle", "insert"}
    PROVE  /\ requests[h] \in RequestState
           /\ requests[h].user \in UserId
           /\ users[requests[h].user] # None
           /\ RequestCarries(h) /\ DeviceFirst(h)
  BY DEF AccountsIInv, AccountsTypeOK, RequestCarries

\* A request begins, with nothing changed.
LEMMA RequestBegins ==
    ASSUME AccountsIInv, NEW h \in Handler, NEW state \in RequestState,
           RequestGoes(h, state), UNCHANGED users,
           state.at \in {"insert", "verify", "device", "setSecret", "enable", "clear"},
           state.at = "insert" =>
              state.email \in Email /\ state.phone \in Phone
                /\ state.password \in Password,
           state.at \in {"verify", "device"} => state.session \in Session,
           state.at # "insert" => state.user \in User
    PROVE  AccountsIInv'
<1>1. UsersKept /\ SessionIsRecorded'
  BY SameUsers, SameSessions
<1>2. \A u \in User : u \in UserId /\ users[u] # None
  BY DEF User, StoredIn, AccountsIInv, AccountsTypeOK
<1>3. requests'[h] = state
  BY DEF RequestGoes, AccountsIInv, AccountsTypeOK
<1>4. RequestCarries(h)' /\ DeviceFirst(h)'
  BY <1>2, <1>3 DEF RequestCarries, DeviceFirst
<1>5. QED
  BY <1>1, <1>4, RequestMoves

LEMMA RequestStartsStep ==
    ASSUME AccountsIInv, NEW h \in Handler, RequestStarts(h) PROVE AccountsIInv'
<1>0. User \subseteq UserId
  BY DEF User, StoredIn, AccountsIInv, AccountsTypeOK
<1>1. ASSUME NEW email \in Email, NEW phone \in Phone, NEW password \in Password,
             FindToCreate(h, email, phone, password)
      PROVE  AccountsIInv'
  <2> DEFINE state == [NoRequest EXCEPT !.at = "insert", !.email = email,
                                      !.phone = phone, !.password = password]
  <2>1. state \in RequestState
    BY NoRequestType DEF NoRequest, RequestState, RequestStage
  <2>2. RequestGoes(h, state) /\ UNCHANGED users
    BY <1>1 DEF FindToCreate
  <2>3. state.at = "insert" /\ state.email = email /\ state.phone = phone
          /\ state.password = password
    BY DEF NoRequest
  <2> HIDE DEF state
  <2>4. QED
    BY <2>1, <2>2, <2>3, <1>0, RequestBegins
<1>2. ASSUME NEW u \in UserId, NEW password \in Password, NEW code \in Secret,
             NEW session \in Session, Login(h, u, password, code, session)
      PROVE  AccountsIInv'
  <2> DEFINE state == [NoRequest EXCEPT
                          !.at = IF users[u].enabled THEN "verify" ELSE "device",
                          !.user = u, !.code = code, !.session = session]
  <2>1. state \in RequestState
    BY NoRequestType DEF NoRequest, RequestState, RequestStage
  <2>2. RequestGoes(h, state) /\ UNCHANGED users /\ u \in User
    BY <1>2 DEF Login
  <2>3. state.at \in {"verify", "device"} /\ state.user = u
          /\ state.session = session
    BY DEF NoRequest
  <2> HIDE DEF state
  <2>4. QED
    BY <2>1, <2>2, <2>3, <1>0, RequestBegins
<1>3. ASSUME NEW u \in UserId, ReadToEnable2FA(h, u)
      PROVE  AccountsIInv'
  <2> DEFINE state == [NoRequest EXCEPT !.at = "setSecret", !.user = u]
  <2>1. state \in RequestState
    BY NoRequestType DEF NoRequest, RequestState, RequestStage
  <2>2. RequestGoes(h, state) /\ UNCHANGED users /\ u \in User
    BY <1>3 DEF ReadToEnable2FA
  <2>3. state.at = "setSecret" /\ state.user = u
    BY DEF NoRequest
  <2> HIDE DEF state
  <2>4. QED
    BY <2>1, <2>2, <2>3, <1>0, RequestBegins
<1>4. ASSUME NEW u \in UserId, NEW code \in Secret, ReadToVerify2FA(h, u, code)
      PROVE  AccountsIInv'
  <2> DEFINE state == [NoRequest EXCEPT !.at = "enable", !.user = u]
  <2>1. state \in RequestState
    BY NoRequestType DEF NoRequest, RequestState, RequestStage
  <2>2. RequestGoes(h, state) /\ UNCHANGED users /\ u \in User
    BY <1>4 DEF ReadToVerify2FA
  <2>3. state.at = "enable" /\ state.user = u
    BY DEF NoRequest
  <2> HIDE DEF state
  <2>4. QED
    BY <2>1, <2>2, <2>3, <1>0, RequestBegins
<1>5. ASSUME NEW u \in UserId, NEW code \in Secret, ReadToDisable2FA(h, u, code)
      PROVE  AccountsIInv'
  <2> DEFINE state == [NoRequest EXCEPT !.at = "clear", !.user = u]
  <2>1. state \in RequestState
    BY NoRequestType DEF NoRequest, RequestState, RequestStage
  <2>2. RequestGoes(h, state) /\ UNCHANGED users /\ u \in User
    BY <1>5 DEF ReadToDisable2FA
  <2>3. state.at = "clear" /\ state.user = u
    BY DEF NoRequest
  <2> HIDE DEF state
  <2>4. QED
    BY <2>1, <2>2, <2>3, <1>0, RequestBegins
<1>6. QED
  BY <1>1, <1>2, <1>3, <1>4, <1>5 DEF RequestStarts

LEMMA InsertUserStep ==
    ASSUME AccountsIInv, NEW h \in Handler, InsertUser(h) PROVE AccountsIInv'
<1> DEFINE doc == NewUser(requests[h].email, requests[h].phone, requests[h].password)
<1>1. doc \in UserDoc /\ doc.refreshToken = None
  BY DEF AccountsIInv, InsertUser, RequestCarries, NewUser, UserDoc
<1>2. PICK u \in UnusedIn(users) :
          users' = IF Clash(u, doc) THEN users ELSE [users EXCEPT ![u] = doc]
  BY DEF InsertUser
<1>3. UsersKept /\ SessionIsRecorded'
  <2>1. CASE Clash(u, doc)
    BY <1>2, <2>1, SameUsers, SameSessions
  <2>2. CASE ~Clash(u, doc)
    <3>1. u \in UserId /\ users[u] = None
      BY DEF UnusedIn, AccountsIInv, AccountsTypeOK
    <3>2. \A v \in UserId : users'[v] = IF v = u THEN doc ELSE users[v]
      BY <1>2, <2>2 DEF AccountsIInv, AccountsTypeOK
    <3>3. users' \in [UserId -> UserDoc \cup {None, Deleted}]
      BY <1>1, <1>2, <2>2 DEF AccountsIInv, AccountsTypeOK
    <3>4. UsersKept
      BY <1>1, <3>1, <3>2, <3>3, UsersNotNone, ServiceAssumption
         DEF UsersKept, User, StoredIn
    <3>5. SessionIsRecorded'
      BY <1>1, <3>1, <3>2, <3>3, UsersNotNone
         DEF AccountsIInv, AccountsTypeOK, SessionIsRecorded, User, StoredIn, Refreshes
    <3>6. QED
      BY <3>4, <3>5
  <2>3. QED
    BY <2>1, <2>2
<1>4. QED
  BY <1>3, RequestEnds DEF InsertUser

LEMMA VerifyInLoginStep ==
    ASSUME AccountsIInv, NEW h \in Handler, VerifyInLogin(h) PROVE AccountsIInv'
<1>1. UsersKept /\ SessionIsRecorded'
  BY SameUsers, SameSessions DEF VerifyInLogin
<1>2. CASE RequestGoes(h, NoRequest)
  BY <1>1, <1>2, RequestEnds
<1>3. CASE RequestGoes(h, [requests[h] EXCEPT !.at = "enable"])
  <2> DEFINE state == [requests[h] EXCEPT !.at = "enable"]
  <2>1. state \in RequestState
    BY InRequest DEF VerifyInLogin, RequestState, RequestStage
  <2>2. requests'[h] = state
    BY <1>3 DEF RequestGoes, AccountsIInv, AccountsTypeOK
  <2>3. RequestCarries(h)' /\ DeviceFirst(h)'
    BY <2>1, <2>2, InRequest
       DEF VerifyInLogin, RequestCarries, DeviceFirst, RequestState
  <2>4. QED
    BY <1>1, <1>3, <2>1, <2>3, RequestMoves
<1>4. QED
  BY <1>2, <1>3 DEF VerifyInLogin

LEMMA RecordDeviceStep ==
    ASSUME AccountsIInv, NEW h \in Handler, RecordDevice(h) PROVE AccountsIInv'
<1> DEFINE r == requests[h]
           doc == [users[r.user] EXCEPT !.devices = @ \cup {r.session}]
           state == [r EXCEPT !.at = "token"]
<1>1. r \in RequestState /\ r.user \in UserId /\ r.session \in Session
        /\ users[r.user] # None
  BY InRequest DEF RecordDevice, RequestCarries
<1>2. r.user \in User =>
          /\ doc \in UserDoc
          /\ users[r.user].devices \subseteq doc.devices
          /\ doc.refreshToken \in doc.devices \cup {None}
          /\ r.session \in doc.devices
  BY <1>1, TokenRecorded DEF UserDoc
<1>3. UpdateById(r.user, doc)
  BY DEF RecordDevice
<1>4. UsersKept /\ SessionIsRecorded'
  BY <1>1, <1>2, <1>3, UserUpdatedById
<1>5. state \in RequestState
  BY <1>1 DEF RequestState, RequestStage
<1>6. requests'[h] = state
  BY DEF RecordDevice, RequestGoes, AccountsIInv, AccountsTypeOK
<1>7. RequestCarries(h)'
  BY <1>1, <1>4, <1>6 DEF RequestCarries, UsersKept, RequestState
<1>8. DeviceFirst(h)'
  <2>1. requests'[h].user = r.user /\ requests'[h].session = r.session
    BY <1>1, <1>6 DEF RequestState
  <2>2. CASE r.user \in User
    BY <1>1, <1>2, <1>3, <2>1, <2>2 DEF UpdateById, DeviceFirst, AccountsIInv, AccountsTypeOK
  <2>3. CASE r.user \notin User
    BY <1>1, <1>3, <2>1, <2>3 DEF UpdateById, DeviceFirst, User, StoredIn
  <2>4. QED
    BY <2>2, <2>3
<1>9. QED
  BY <1>4, <1>5, <1>7, <1>8, RequestMoves DEF RecordDevice

LEMMA StoreRefreshTokenStep ==
    ASSUME AccountsIInv, NEW h \in Handler, StoreRefreshToken(h) PROVE AccountsIInv'
<1> DEFINE r == requests[h]
           doc == [users[r.user] EXCEPT !.refreshToken = r.session]
<1>1. r.user \in UserId /\ r.session \in Session
        /\ (r.user \in User => r.session \in users[r.user].devices)
  BY InRequest DEF StoreRefreshToken, RequestCarries, DeviceFirst
<1>2. r.user \in User =>
          /\ doc \in UserDoc
          /\ users[r.user].devices \subseteq doc.devices
          /\ doc.refreshToken \in doc.devices \cup {None}
  BY <1>1, TokenRecorded DEF UserDoc
<1>3. UpdateById(r.user, doc) /\ RequestGoes(h, NoRequest)
  BY DEF StoreRefreshToken
<1>4. QED
  BY <1>1, <1>2, <1>3, UserUpdatedById, RequestEnds

LEMMA SetSecretStep ==
    ASSUME AccountsIInv, NEW h \in Handler, SetSecret(h) PROVE AccountsIInv'
<1> DEFINE u == requests[h].user
           doc(secret) == [users[u] EXCEPT !.secret = secret]
<1>1. u \in UserId
  BY InRequest DEF SetSecret
<1>2. PICK secret \in Secret : UpdateById(u, doc(secret))
  BY DEF SetSecret
<1>3. u \in User =>
          /\ doc(secret) \in UserDoc
          /\ users[u].devices \subseteq doc(secret).devices
          /\ doc(secret).refreshToken \in doc(secret).devices \cup {None}
  BY TokenRecorded DEF UserDoc
<1>4. UsersKept /\ SessionIsRecorded'
  BY <1>1, <1>2, <1>3, UserUpdatedById
<1>5. QED
  BY <1>4, RequestEnds DEF SetSecret

LEMMA SetEnabledStep ==
    ASSUME AccountsIInv, NEW h \in Handler, SetEnabled(h) PROVE AccountsIInv'
<1> DEFINE r == requests[h]
           doc == [users[r.user] EXCEPT !.enabled = TRUE]
           state == [r EXCEPT !.at = "device"]
<1>1. r \in RequestState /\ r.user \in UserId /\ users[r.user] # None
  BY InRequest DEF SetEnabled
<1>2. r.user \in User =>
          /\ doc \in UserDoc
          /\ users[r.user].devices \subseteq doc.devices
          /\ doc.refreshToken \in doc.devices \cup {None}
  BY TokenRecorded DEF UserDoc
<1>3. UpdateById(r.user, doc)
  BY DEF SetEnabled
<1>4. UsersKept /\ SessionIsRecorded'
  BY <1>1, <1>2, <1>3, UserUpdatedById
<1>5. CASE r.session = None
  BY <1>4, <1>5, RequestEnds DEF SetEnabled
<1>6. CASE r.session # None
  <2>1. state \in RequestState /\ r.session \in Session
    BY <1>1, <1>6 DEF RequestState, RequestStage
  <2>2. requests'[h] = state /\ RequestGoes(h, state)
    BY <1>6 DEF SetEnabled, RequestGoes, AccountsIInv, AccountsTypeOK
  <2>3. RequestCarries(h)' /\ DeviceFirst(h)'
    BY <1>1, <1>4, <2>1, <2>2 DEF RequestCarries, DeviceFirst, UsersKept, RequestState
  <2>4. QED
    BY <1>4, <2>1, <2>2, <2>3, RequestMoves
<1>7. QED
  BY <1>5, <1>6

LEMMA Clear2FAStep ==
    ASSUME AccountsIInv, NEW h \in Handler, Clear2FA(h) PROVE AccountsIInv'
<1> DEFINE u == requests[h].user
           doc == [users[u] EXCEPT !.enabled = FALSE, !.secret = None]
<1>1. u \in UserId
  BY InRequest DEF Clear2FA
<1>2. u \in User =>
          /\ doc \in UserDoc
          /\ users[u].devices \subseteq doc.devices
          /\ doc.refreshToken \in doc.devices \cup {None}
  BY TokenRecorded DEF UserDoc
<1>3. UpdateById(u, doc) /\ RequestGoes(h, NoRequest)
  BY DEF Clear2FA
<1>4. QED
  BY <1>1, <1>2, <1>3, UserUpdatedById, RequestEnds

LEMMA AbandonRequestStep ==
    ASSUME AccountsIInv, NEW h \in Handler, AbandonRequest(h) PROVE AccountsIInv'
  BY SameUsers, SameSessions, RequestEnds DEF AbandonRequest

LEMMA RemoveUserStep ==
    ASSUME AccountsIInv, NEW u \in UserId, RemoveUser(u) PROVE AccountsIInv'
<1>1. u \in User /\ \A v \in UserId : users'[v] = IF v = u THEN Deleted ELSE users[v]
  BY DEF RemoveUser, AccountsIInv, AccountsTypeOK
<1>2. users' \in [UserId -> UserDoc \cup {None, Deleted}]
  BY DEF RemoveUser, AccountsIInv, AccountsTypeOK
<1>3. UsersKept
  BY <1>1, <1>2, ServiceAssumption DEF UsersKept, User, StoredIn
<1>4. SessionIsRecorded'
  BY <1>1, <1>2 DEF AccountsIInv, AccountsTypeOK, SessionIsRecorded, User, StoredIn, Refreshes
<1>5. QED
  BY <1>3, <1>4, NoRequestMoves DEF RemoveUser

\* The other requests of one call replace the document of a stored user.
LEMMA ReplacedInOneCall ==
    ASSUME AccountsIInv, UNCHANGED requests, NEW u \in User, NEW doc \in UserDoc,
           users' = [users EXCEPT ![u] = doc],
           users[u].devices = doc.devices,
           doc.refreshToken \in {users[u].refreshToken, None}
    PROVE  AccountsIInv'
  BY UserReplaced, TokenRecorded, NoRequestMoves

LEMMA OneCallStep ==
    ASSUME AccountsIInv, RequestOfOneCall PROVE AccountsIInv'
<1>1. ASSUME NEW u \in UserId, NEW email \in Email, NEW phone \in Phone,
             UpdateUser(u, email, phone)
      PROVE  AccountsIInv'
  <2> DEFINE doc == [users[u] EXCEPT !.email = email, !.phone = phone]
  <2>1. u \in User /\ users' = [users EXCEPT ![u] = doc] /\ UNCHANGED requests
    BY <1>1 DEF UpdateUser
  <2>2. doc \in UserDoc /\ users[u].devices = doc.devices
          /\ doc.refreshToken = users[u].refreshToken
    BY <2>1, TokenRecorded DEF UserDoc
  <2> HIDE DEF doc
  <2>3. QED
    BY <2>1, <2>2, ReplacedInOneCall
<1>2. ASSUME NEW u \in UserId, NEW password \in Password, UpdatePassword(u, password)
      PROVE  AccountsIInv'
  <2> DEFINE doc == [users[u] EXCEPT !.password = password]
  <2>1. u \in User /\ users' = [users EXCEPT ![u] = doc] /\ UNCHANGED requests
    BY <1>2 DEF UpdatePassword
  <2>2. doc \in UserDoc /\ users[u].devices = doc.devices
          /\ doc.refreshToken = users[u].refreshToken
    BY <2>1, TokenRecorded DEF UserDoc
  <2> HIDE DEF doc
  <2>3. QED
    BY <2>1, <2>2, ReplacedInOneCall
<1>3. ASSUME NEW u \in UserId, Logout(u)
      PROVE  AccountsIInv'
  <2> DEFINE doc == [users[u] EXCEPT !.refreshToken = None]
  <2>1. u \in User /\ users' = [users EXCEPT ![u] = doc] /\ UNCHANGED requests
    BY <1>3 DEF Logout
  <2>2. doc \in UserDoc /\ users[u].devices = doc.devices /\ doc.refreshToken = None
    BY <2>1, TokenRecorded DEF UserDoc
  <2> HIDE DEF doc
  <2>3. QED
    BY <2>1, <2>2, ReplacedInOneCall
<1>4. ASSUME NEW u \in UserId, CreateApiKey(u)
      PROVE  AccountsIInv'
  <2>1. PICK key \in ApiKey : users' = [users EXCEPT ![u].apiKeys = @ \cup {key}]
    BY <1>4 DEF CreateApiKey
  <2> DEFINE doc == [users[u] EXCEPT !.apiKeys = @ \cup {key}]
  <2>2. u \in User /\ users' = [users EXCEPT ![u] = doc] /\ UNCHANGED requests
    BY <1>4, <2>1 DEF CreateApiKey
  <2>3. doc \in UserDoc /\ users[u].devices = doc.devices
          /\ doc.refreshToken = users[u].refreshToken
    BY <2>2, TokenRecorded DEF UserDoc
  <2> HIDE DEF doc
  <2>4. QED
    BY <2>2, <2>3, ReplacedInOneCall
<1>5. ASSUME NEW u \in UserId, NEW key \in ApiKey, DeleteApiKey(u, key)
      PROVE  AccountsIInv'
  <2> DEFINE doc == [users[u] EXCEPT !.apiKeys = @ \ {key}]
  <2>1. u \in User /\ users' = [users EXCEPT ![u] = doc] /\ UNCHANGED requests
    BY <1>5 DEF DeleteApiKey
  <2>2. doc \in UserDoc /\ users[u].devices = doc.devices
          /\ doc.refreshToken = users[u].refreshToken
    BY <2>1, TokenRecorded DEF UserDoc
  <2> HIDE DEF doc
  <2>3. QED
    BY <2>1, <2>2, ReplacedInOneCall
<1>6. QED
  BY <1>1, <1>2, <1>3, <1>4, <1>5, RemoveUserStep DEF RequestOfOneCall

LEMMA AccountsNextIInv == AccountsIInv /\ [AccountsNext]_accountsVars => AccountsIInv'
<1> SUFFICES ASSUME AccountsIInv, [AccountsNext]_accountsVars PROVE AccountsIInv'
  OBVIOUS
<1>1. CASE RequestOfOneCall
  BY <1>1, OneCallStep
<1>2. ASSUME NEW h \in Handler, RequestStarts(h) PROVE AccountsIInv'
  BY <1>2, RequestStartsStep
<1>3. ASSUME NEW h \in Handler, RequestContinues(h) PROVE AccountsIInv'
  BY <1>3, InsertUserStep, VerifyInLoginStep, RecordDeviceStep,
     StoreRefreshTokenStep, SetSecretStep, SetEnabledStep, Clear2FAStep
     DEF RequestContinues
<1>4. ASSUME NEW h \in Handler, AbandonRequest(h) PROVE AccountsIInv'
  BY <1>4, AbandonRequestStep
<1>5. CASE UNCHANGED accountsVars
  BY <1>5, SameUsers, SameSessions, NoRequestMoves DEF accountsVars
<1>6. QED
  BY <1>1, <1>2, <1>3, <1>4, <1>5 DEF AccountsNext

LEMMA AccountsInvariance == AccountsSpec => []AccountsIInv
  BY AccountsInitIInv, AccountsNextIInv, PTL DEF AccountsSpec

\* The users and the requests in progress keep their types, whatever the order
\* of the calls (users.service.ts, auth.service.ts).
THEOREM AccountsTypeCorrect == AccountsSpec => []AccountsTypeOK
<1>1. AccountsIInv => AccountsTypeOK
  BY DEF AccountsIInv
<1>2. QED
  BY <1>1, AccountsInvariance, PTL

\* Whoever can refresh a session has its log-in among the devices, for any
\* number of log-ins at once (updateLastLogin, updateRefreshToken).
THEOREM RefreshableIsRecorded == AccountsSpec => []SessionIsRecorded
<1>1. AccountsIInv => SessionIsRecorded
  BY DEF AccountsIInv
<1>2. QED
  BY <1>1, AccountsInvariance, PTL

-----------------------------------------------------------------------------
(* Accounts, while no two requests overlap.                                *)

\* Whoever is about to enable the second factor has seen a secret, and nothing
\* can have removed it since.
SecretSeen ==
    /\ EnabledHasSecret
    /\ \A h \in Handler :
          LET r == requests[h]
          IN  r.at = "enable" /\ r.user \in User => users[r.user].secret # None

AloneIInv == alone => ~Overlap /\ SecretSeen

\* The one request that moves finds the others idle, and leaves them so.
LEMMA OthersIdle ==
    ASSUME AccountsIInv, ~Overlap, ~Overlap', NEW h \in Handler, NEW state,
           RequestGoes(h, state), requests[h].at # "idle" \/ state.at # "idle"
    PROVE  /\ requests'[h] = state
           /\ \A g \in Handler \ {h} :
                 requests'[g] = requests[g] /\ requests[g].at = "idle"
<1>1. requests' = [requests EXCEPT ![h] = state] /\ DOMAIN requests = Handler
  BY DEF RequestGoes, AccountsIInv, AccountsTypeOK
<1>2. QED
  BY <1>1 DEF Overlap

\* An update of a user whose flag, if it is set, comes with a secret.
LEMMA EnabledKept ==
    ASSUME AccountsIInv, EnabledHasSecret, NEW u \in UserId, NEW doc,
           users' = users \/ users' = [users EXCEPT ![u] = doc],
           doc \in {None, Deleted} \/ (doc.enabled => doc.secret # None)
    PROVE  EnabledHasSecret'
<1>1. CASE users' = users
  BY <1>1 DEF EnabledHasSecret, User, StoredIn
<1>2. CASE users' = [users EXCEPT ![u] = doc]
  <2>1. \A v \in UserId : users'[v] = IF v = u THEN doc ELSE users[v]
    BY <1>2 DEF AccountsIInv, AccountsTypeOK
  <2>2. DOMAIN users' = UserId /\ DOMAIN users = UserId
    BY <1>2 DEF AccountsIInv, AccountsTypeOK
  <2>3. QED
    BY <2>1, <2>2 DEF EnabledHasSecret, User, StoredIn
<1>3. QED
  BY <1>1, <1>2

\* The flag and the secret of a stored user.
LEMMA SecretOf ==
    ASSUME AccountsIInv, SecretSeen, NEW u \in User
    PROVE  /\ u \in UserId
           /\ users[u] \in UserDoc
           /\ users[u].enabled => users[u].secret # None
  BY DEF AccountsIInv, AccountsTypeOK, User, StoredIn, SecretSeen, EnabledHasSecret

\* No request moves, and the one user that changes keeps flag and secret.
LEMMA SecretSame ==
    ASSUME AccountsIInv, SecretSeen, UNCHANGED requests, NEW u \in User, NEW doc,
           users' = [users EXCEPT ![u] = doc],
           \/ doc = Deleted
           \/ doc.enabled = users[u].enabled /\ doc.secret = users[u].secret
    PROVE  SecretSeen'
<1>1. EnabledHasSecret'
  BY SecretOf, EnabledKept DEF SecretSeen
<1>2. \A v \in UserId : users'[v] = IF v = u THEN doc ELSE users[v]
  BY DEF AccountsIInv, AccountsTypeOK
<1>3. DOMAIN users' = UserId /\ DOMAIN users = UserId
  BY DEF AccountsIInv, AccountsTypeOK
<1>4. ASSUME NEW h \in Handler, requests[h].at = "enable", requests[h].user \in User'
      PROVE  users'[requests[h].user].secret # None
  <2>1. requests[h].user \in User
    BY <1>2, <1>3, <1>4, SecretOf DEF User, StoredIn
  <2>2. users[requests[h].user].secret # None
    BY <1>4, <2>1 DEF SecretSeen
  <2>3. QED
    BY <1>2, <1>3, <1>4, <2>1, <2>2 DEF User, StoredIn
<1>5. QED
  BY <1>1, <1>4 DEF SecretSeen

LEMMA OneCallSecret ==
    ASSUME AccountsIInv, SecretSeen, RequestOfOneCall PROVE SecretSeen'
<1>1. ASSUME NEW u \in UserId, NEW email \in Email, NEW phone \in Phone,
             UpdateUser(u, email, phone)
      PROVE  SecretSeen'
  <2> DEFINE doc == [users[u] EXCEPT !.email = email, !.phone = phone]
  <2>1. u \in User /\ users' = [users EXCEPT ![u] = doc] /\ UNCHANGED requests
    BY <1>1 DEF UpdateUser
  <2>2. doc.enabled = users[u].enabled /\ doc.secret = users[u].secret
    BY <2>1, SecretOf DEF UserDoc
  <2> HIDE DEF doc
  <2>3. QED
    BY <2>1, <2>2, SecretSame
<1>2. ASSUME NEW u \in UserId, NEW password \in Password, UpdatePassword(u, password)
      PROVE  SecretSeen'
  <2> DEFINE doc == [users[u] EXCEPT !.password = password]
  <2>1. u \in User /\ users' = [users EXCEPT ![u] = doc] /\ UNCHANGED requests
    BY <1>2 DEF UpdatePassword
  <2>2. doc.enabled = users[u].enabled /\ doc.secret = users[u].secret
    BY <2>1, SecretOf DEF UserDoc
  <2> HIDE DEF doc
  <2>3. QED
    BY <2>1, <2>2, SecretSame
<1>3. ASSUME NEW u \in UserId, Logout(u)
      PROVE  SecretSeen'
  <2> DEFINE doc == [users[u] EXCEPT !.refreshToken = None]
  <2>1. u \in User /\ users' = [users EXCEPT ![u] = doc] /\ UNCHANGED requests
    BY <1>3 DEF Logout
  <2>2. doc.enabled = users[u].enabled /\ doc.secret = users[u].secret
    BY <2>1, SecretOf DEF UserDoc
  <2> HIDE DEF doc
  <2>3. QED
    BY <2>1, <2>2, SecretSame
<1>4. ASSUME NEW u \in UserId, CreateApiKey(u)
      PROVE  SecretSeen'
  <2>1. PICK key \in ApiKey : users' = [users EXCEPT ![u].apiKeys = @ \cup {key}]
    BY <1>4 DEF CreateApiKey
  <2> DEFINE doc == [users[u] EXCEPT !.apiKeys = @ \cup {key}]
  <2>2. u \in User /\ users' = [users EXCEPT ![u] = doc] /\ UNCHANGED requests
    BY <1>4, <2>1 DEF CreateApiKey
  <2>3. doc.enabled = users[u].enabled /\ doc.secret = users[u].secret
    BY <2>2, SecretOf DEF UserDoc
  <2> HIDE DEF doc
  <2>4. QED
    BY <2>2, <2>3, SecretSame
<1>5. ASSUME NEW u \in UserId, NEW key \in ApiKey, DeleteApiKey(u, key)
      PROVE  SecretSeen'
  <2> DEFINE doc == [users[u] EXCEPT !.apiKeys = @ \ {key}]
  <2>1. u \in User /\ users' = [users EXCEPT ![u] = doc] /\ UNCHANGED requests
    BY <1>5 DEF DeleteApiKey
  <2>2. doc.enabled = users[u].enabled /\ doc.secret = users[u].secret
    BY <2>1, SecretOf DEF UserDoc
  <2> HIDE DEF doc
  <2>3. QED
    BY <2>1, <2>2, SecretSame
<1>6. ASSUME NEW u \in UserId, RemoveUser(u)
      PROVE  SecretSeen'
  BY <1>6, SecretSame DEF RemoveUser
<1>7. QED
  BY <1>1, <1>2, <1>3, <1>4, <1>5, <1>6 DEF RequestOfOneCall

\* The one request in progress is not about to enable the second factor, or is
\* and has just seen the secret.
LEMMA SecretInHand ==
    ASSUME AccountsIInv, ~Overlap, ~Overlap', NEW h \in Handler, NEW state,
           RequestGoes(h, state), requests[h].at # "idle" \/ state.at # "idle",
           EnabledHasSecret',
           \/ state.at # "enable"
           \/ state.user \in User /\ users[state.user].secret # None
                /\ UNCHANGED users
    PROVE  SecretSeen'
<1>1. /\ requests'[h] = state
      /\ \A g \in Handler \ {h} : requests'[g].at = "idle"
  BY OthersIdle
<1>2. QED
  BY <1>1 DEF SecretSeen, User, StoredIn

LEMMA StartsSecret ==
    ASSUME AccountsIInv, SecretSeen, ~Overlap, ~Overlap', NEW h \in Handler,
           RequestStarts(h)
    PROVE  SecretSeen'
<1>1. UNCHANGED users /\ EnabledHasSecret'
  BY EnabledKept
     DEF RequestStarts, FindToCreate, Login, ReadToEnable2FA, ReadToVerify2FA,
         ReadToDisable2FA, SecretSeen, EnabledHasSecret, User, StoredIn
<1>2. ASSUME NEW state, RequestGoes(h, state), state.at \notin {"idle", "enable"}
      PROVE  SecretSeen'
  BY <1>1, <1>2, SecretInHand
<1>3. ASSUME NEW email \in Email, NEW phone \in Phone, NEW password \in Password,
             FindToCreate(h, email, phone, password)
      PROVE  SecretSeen'
  <2> DEFINE state == [NoRequest EXCEPT !.at = "insert", !.email = email,
                                      !.phone = phone, !.password = password]
  <2>1. RequestGoes(h, state)
    BY <1>3 DEF FindToCreate
  <2>2. state.at = "insert"
    BY DEF NoRequest
  <2> HIDE DEF state
  <2>3. QED
    BY <1>2, <2>1, <2>2
<1>4. ASSUME NEW u \in UserId, NEW password \in Password, NEW code \in Secret,
             NEW session \in Session, Login(h, u, password, code, session)
      PROVE  SecretSeen'
  <2> DEFINE state == [NoRequest EXCEPT
                          !.at = IF users[u].enabled THEN "verify" ELSE "device",
                          !.user = u, !.code = code, !.session = session]
  <2>1. RequestGoes(h, state)
    BY <1>4 DEF Login
  <2>2. state.at \in {"verify", "device"}
    BY DEF NoRequest
  <2> HIDE DEF state
  <2>3. QED
    BY <1>2, <2>1, <2>2
<1>5. ASSUME NEW u \in UserId, ReadToEnable2FA(h, u)
      PROVE  SecretSeen'
  <2> DEFINE state == [NoRequest EXCEPT !.at = "setSecret", !.user = u]
  <2>1. RequestGoes(h, state)
    BY <1>5 DEF ReadToEnable2FA
  <2>2. state.at = "setSecret"
    BY DEF NoRequest
  <2> HIDE DEF state
  <2>3. QED
    BY <1>2, <2>1, <2>2
<1>6. ASSUME NEW u \in UserId, NEW code \in Secret, ReadToVerify2FA(h, u, code)
      PROVE  SecretSeen'
  <2> DEFINE state == [NoRequest EXCEPT !.at = "enable", !.user = u]
  <2>1. RequestGoes(h, state) /\ u \in User /\ users[u].secret # None
    BY <1>6, AccountsAssumption DEF ReadToVerify2FA
  <2>2. state.at = "enable" /\ state.user = u
    BY DEF NoRequest
  <2> HIDE DEF state
  <2>3. QED
    BY <1>1, <2>1, <2>2, SecretInHand
<1>7. ASSUME NEW u \in UserId, NEW code \in Secret, ReadToDisable2FA(h, u, code)
      PROVE  SecretSeen'
  <2> DEFINE state == [NoRequest EXCEPT !.at = "clear", !.user = u]
  <2>1. RequestGoes(h, state)
    BY <1>7 DEF ReadToDisable2FA
  <2>2. state.at = "clear"
    BY DEF NoRequest
  <2> HIDE DEF state
  <2>3. QED
    BY <1>2, <2>1, <2>2
<1>8. QED
  BY <1>3, <1>4, <1>5, <1>6, <1>7 DEF RequestStarts

\* A request updates the user it is about, and goes on or ends.
LEMMA SecretUpdated ==
    ASSUME AccountsIInv, SecretSeen, ~Overlap, ~Overlap', NEW h \in Handler,
           NEW state, RequestGoes(h, state), requests[h].at \notin {"idle", "insert"},
           state.at # "enable", NEW doc, UpdateById(requests[h].user, doc),
           requests[h].user \in User => (doc.enabled => doc.secret # None)
    PROVE  SecretSeen'
<1>1. EnabledHasSecret'
  <2>1. CASE requests[h].user \in User
    BY <2>1, InRequest, EnabledKept DEF UpdateById, SecretSeen
  <2>2. CASE requests[h].user \notin User
    BY <2>2 DEF UpdateById, SecretSeen, EnabledHasSecret, User, StoredIn
  <2>3. QED
    BY <2>1, <2>2
<1>2. QED
  BY <1>1, SecretInHand

LEMMA ContinuesSecret ==
    ASSUME AccountsIInv, SecretSeen, ~Overlap, ~Overlap', NEW h \in Handler,
           RequestContinues(h)
    PROVE  SecretSeen'
<1> DEFINE r == requests[h]
<1>1. NoRequest.at = "idle"
  BY DEF NoRequest
<1>2. CASE InsertUser(h)
  <2> DEFINE doc == NewUser(r.email, r.phone, r.password)
  <2>1. PICK u \in UnusedIn(users) :
            users' = IF Clash(u, doc) THEN users ELSE [users EXCEPT ![u] = doc]
    BY <1>2 DEF InsertUser
  <2>2. u \in UserId
    BY DEF UnusedIn, AccountsIInv, AccountsTypeOK
  <2>3. ~doc.enabled
    BY DEF NewUser
  <2> HIDE DEF doc
  <2>4. EnabledHasSecret'
    BY <2>1, <2>2, <2>3, EnabledKept DEF SecretSeen
  <2>5. QED
    BY <1>1, <1>2, <2>4, SecretInHand DEF InsertUser
<1>3. CASE VerifyInLogin(h)
  <2>1. EnabledHasSecret' /\ UNCHANGED users
    BY <1>3 DEF VerifyInLogin, SecretSeen, EnabledHasSecret, User, StoredIn
  <2>2. CASE RequestGoes(h, NoRequest)
    BY <1>1, <1>3, <2>1, <2>2, SecretInHand DEF VerifyInLogin
  <2>3. CASE ~RequestGoes(h, NoRequest)
    <3> DEFINE state == [r EXCEPT !.at = "enable"]
    <3>1. RequestGoes(h, state) /\ r.user \in User /\ users[r.user].secret # None
      BY <1>3, <2>3 DEF VerifyInLogin
    <3>2. state.at = "enable" /\ state.user = r.user
      BY <1>3, InRequest DEF VerifyInLogin, RequestState
    <3> HIDE DEF state
    <3>3. QED
      BY <2>1, <3>1, <3>2, SecretInHand
  <2>4. QED
    BY <2>2, <2>3
<1>4. CASE RecordDevice(h)
  <2> DEFINE state == [r EXCEPT !.at = "token"]
             doc == [users[r.user] EXCEPT !.devices = @ \cup {r.session}]
  <2>1. RequestGoes(h, state) /\ UpdateById(r.user, doc) /\ r.at = "device"
    BY <1>4 DEF RecordDevice
  <2>2. state.at = "token"
    BY <2>1, InRequest DEF RequestState
  <2>3. r.user \in User => (doc.enabled => doc.secret # None)
    BY SecretOf DEF UserDoc
  <2> HIDE DEF state, doc
  <2>4. QED
    BY <2>1, <2>2, <2>3, SecretUpdated
<1>5. CASE StoreRefreshToken(h)
  <2> DEFINE doc == [users[r.user] EXCEPT !.refreshToken = r.session]
  <2>1. RequestGoes(h, NoRequest) /\ UpdateById(r.user, doc) /\ r.at = "token"
    BY <1>5 DEF StoreRefreshToken
  <2>2. r.user \in User => (doc.enabled => doc.secret # None)
    BY SecretOf DEF UserDoc
  <2> HIDE DEF doc
  <2>3. QED
    BY <1>1, <2>1, <2>2, SecretUpdated
<1>6. CASE SetSecret(h)
  <2>1. PICK secret \in Secret :
            UpdateById(r.user, [users[r.user] EXCEPT !.secret = secret])
    BY <1>6 DEF SetSecret
  <2> DEFINE doc == [users[r.user] EXCEPT !.secret = secret]
  <2>2. RequestGoes(h, NoRequest) /\ UpdateById(r.user, doc) /\ r.at = "setSecret"
    BY <1>6, <2>1 DEF SetSecret
  <2>3. r.user \in User => (doc.enabled => doc.secret # None)
    BY SecretOf, AccountsAssumption DEF UserDoc
  <2> HIDE DEF doc
  <2>4. QED
    BY <1>1, <2>2, <2>3, SecretUpdated
<1>7. CASE SetEnabled(h)
  <2> DEFINE state == [r EXCEPT !.at = "device"]
             doc == [users[r.user] EXCEPT !.enabled = TRUE]
  <2>1. /\ RequestGoes(h, NoRequest) \/ RequestGoes(h, state)
        /\ UpdateById(r.user, doc) /\ r.at = "enable"
    BY <1>7 DEF SetEnabled
  <2>2. state.at = "device"
    BY <2>1, InRequest DEF RequestState
  <2>3. r.user \in User => doc.secret # None
    BY <2>1, SecretOf DEF UserDoc, SecretSeen
  <2> HIDE DEF state, doc
  <2>4. QED
    BY <1>1, <2>1, <2>2, <2>3, SecretUpdated
<1>8. CASE Clear2FA(h)
  <2> DEFINE doc == [users[r.user] EXCEPT !.enabled = FALSE, !.secret = None]
  <2>1. RequestGoes(h, NoRequest) /\ UpdateById(r.user, doc) /\ r.at = "clear"
    BY <1>8 DEF Clear2FA
  <2>2. r.user \in User => ~doc.enabled
    BY SecretOf DEF UserDoc
  <2> HIDE DEF doc
  <2>3. QED
    BY <1>1, <2>1, <2>2, SecretUpdated
<1>9. QED
  BY <1>2, <1>3, <1>4, <1>5, <1>6, <1>7, <1>8 DEF RequestContinues

LEMMA AbandonSecret ==
    ASSUME AccountsIInv, SecretSeen, ~Overlap, ~Overlap', NEW h \in Handler,
           AbandonRequest(h)
    PROVE  SecretSeen'
<1>1. EnabledHasSecret'
  BY DEF AbandonRequest, SecretSeen, EnabledHasSecret, User, StoredIn
<1>2. NoRequest.at = "idle"
  BY DEF NoRequest
<1>3. QED
  BY <1>1, <1>2, SecretInHand DEF AbandonRequest

LEMMA AloneStep ==
    ASSUME AccountsIInv, AloneIInv, AccountsNext, alone' = (alone /\ ~Overlap')
    PROVE  AloneIInv'
<1> SUFFICES ASSUME alone, ~Overlap' PROVE SecretSeen'
  BY DEF AloneIInv
<1>1. SecretSeen /\ ~Overlap
  BY DEF AloneIInv
<1>2. QED
  BY <1>1, OneCallSecret, StartsSecret, ContinuesSecret, AbandonSecret
     DEF AccountsNext

\* While no two requests overlap, an account with the second factor enabled has
\* a secret, whatever is removed, refused or abandoned in between (login,
\* verify2FA, enable2FA, disable2FA).
THEOREM EnabledHasSecretInTurn == MCSpec => []EnabledHasSecretAlone
<1> DEFINE I == AccountsIInv /\ AloneIInv
<1>1. MCInit => I
  <2> SUFFICES ASSUME MCInit PROVE AloneIInv
    BY AccountsInitIInv DEF MCInit
  <2>1. User = {} /\ \A h \in Handler : requests[h].at = "idle"
    BY DEF MCInit, AccountsInit, User, StoredIn, NoRequest
  <2>2. QED
    BY <2>1 DEF AloneIInv, Overlap, SecretSeen, EnabledHasSecret
<1>2. I /\ [MCNext]_MCVars => I'
  <2> SUFFICES ASSUME I, [MCNext]_MCVars PROVE I'
    OBVIOUS
  <2>1. CASE AccountsNext /\ alone' = (alone /\ ~Overlap')
    BY <2>1, AccountsNextIInv, AloneStep
  <2>2. CASE UNCHANGED accountsVars /\ UNCHANGED alone
    <3>1. UNCHANGED <<users, requests>> /\ UNCHANGED alone
      BY <2>2 DEF accountsVars
    <3>2. AccountsIInv'
      BY <2>2, AccountsNextIInv
    <3>3. AloneIInv'
      BY <3>1 DEF AloneIInv, Overlap, SecretSeen, EnabledHasSecret, User, StoredIn
    <3>4. QED
      BY <3>2, <3>3
  <2>3. QED
    BY <2>1, <2>2 DEF MCNext, MCVars
<1>3. I => EnabledHasSecretAlone
  BY DEF AloneIInv, SecretSeen, EnabledHasSecretAlone
<1>4. QED
  BY <1>1, <1>2, <1>3, PTL DEF MCSpec

-----------------------------------------------------------------------------
(***************************************************************************)
(* Risk.  Which request has yet to raise what is the heart of it: unless   *)
(* the user is excused, every limit that the last report reached has its   *)
(* alert, or some request in progress is still going to see to it.         *)
(***************************************************************************)

\* What a request in progress relies on.
WatcherHeld(h) ==
    LET u == watchers[h].user
    IN  watchers[h].at # "idle" =>
            /\ u \in Trader
            /\ watchers[h].at \in {"insert", "save"} => watchers[h].limits \in Levels
            /\ watchers[h].at # "insert" => profiles[u] # None
            /\ watchers[h].at \in {"look", "raise"} => watchers[h].todo # <<>>

\* Alerts that were closed at a report stay closed.
ClosedStay ==
    \A u \in Trader : \A a \in closedThen[u] : a \in Alert /\ ~IsOpen(a)

Breached(u) == {m \in Metric : profiles[u].status[m] >= profiles[u].limits[m]}

\* There is an alert that was not closed before the last report.
Alerted(u, m) ==
    \E a \in Alert \ closedThen[u] : alerts[a].user = u /\ alerts[a].type = m

IsIn(m, list) == \E i \in 1..Len(list) : list[i] = m

\* The request in state w checks u and will see to all that is not alerted yet.
WillAlert(w, u) ==
    /\ w.user = u
    /\ \/ w.at = "check"
       \/ /\ w.at \in {"look", "raise"}
          /\ \A m \in Breached(u) : Alerted(u, m) \/ IsIn(m, w.todo)

ChecksCover ==
    \A u \in Trader \ excused :
        profiles[u] # None =>
            \/ \A m \in Breached(u) : Alerted(u, m)
            \/ \E h \in Handler : WillAlert(watchers[h], u)

RiskIInv == /\ RiskTypeOK
            /\ \A h \in Handler : WatcherHeld(h)
            /\ ClosedStay
            /\ StatusAsReported
            /\ ChecksCover

LEMMA DocsNotNone ==
    /\ \A d \in ProfileDoc : d # None
    /\ \A d \in AlertDoc : d # None /\ d # Deleted
    /\ \A d \in Levels : d # None
  BY RiskAssumption

LEMMA NoWatcherType == NoWatcher \in Watcher /\ NoWatcher.at = "idle"
  BY DEF NoWatcher, Watcher, WatcherStage

LEMMA ZeroType == Zero \in Levels
  BY RiskAssumption DEF Zero, Levels

\* An alert is a document that is there.
LEMMA AlertIs ==
    ASSUME RiskTypeOK
    PROVE  Alert = {a \in AlertId : alerts[a] # None}
           /\ \A a \in Alert : alerts[a] \in AlertDoc
<1>1. alerts \in [AlertId -> AlertDoc \cup {None}]
  BY DEF RiskTypeOK
<1>2. \A a \in AlertId : alerts[a] # None => alerts[a] \in AlertDoc
  BY <1>1
<1>3. QED
  BY <1>1, <1>2, DocsNotNone DEF Alert, StoredIn

LEMMA ConcatIn ==
    ASSUME NEW s \in Seq(Metric), NEW t \in Seq(Metric), NEW m,
           IsIn(m, s) \/ IsIn(m, t)
    PROVE  IsIn(m, s \o t)
<1>1. s \o t \in Seq(Metric) /\ Len(s \o t) = Len(s) + Len(t)
  OBVIOUS
<1>2. CASE IsIn(m, s)
  <2>1. PICK i \in 1..Len(s) : s[i] = m
    BY <1>2 DEF IsIn
  <2>2. i \in 1..Len(s \o t) /\ (s \o t)[i] = m
    BY <1>1, <2>1
  <2>3. QED
    BY <2>2 DEF IsIn
<1>3. CASE IsIn(m, t)
  <2>1. PICK i \in 1..Len(t) : t[i] = m
    BY <1>3 DEF IsIn
  <2>2. Len(s) + i \in 1..Len(s \o t) /\ (s \o t)[Len(s) + i] = m
    BY <1>1, <2>1
  <2>3. QED
    BY <2>2 DEF IsIn
<1>4. QED
  BY <1>2, <1>3

\* The list of breaches has all of them.
LEMMA BreachesAll ==
    ASSUME NEW p \in ProfileDoc
    PROVE  /\ Breaches(p) \in Seq(Metric)
           /\ \A m \in Metric : p.status[m] >= p.limits[m] => IsIn(m, Breaches(p))
<1>1. ASSUME NEW m \in Metric
      PROVE  /\ Breach(p, m) \in Seq(Metric)
             /\ p.status[m] >= p.limits[m] => IsIn(m, Breach(p, m))
  <2>1. <<m>> \in Seq(Metric) /\ Len(<<m>>) = 1 /\ <<m>>[1] = m /\ 1 \in 1..1
    OBVIOUS
  <2>2. IsIn(m, <<m>>)
    BY <2>1 DEF IsIn
  <2>3. <<>> \in Seq(Metric)
    OBVIOUS
  <2>4. QED
    BY <2>1, <2>2, <2>3 DEF Breach
<1> DEFINE one == Breach(p, "DailyLoss")
           two == Breach(p, "Drawdown")
           three == Breach(p, "OpenPositions")
<1>2. one \in Seq(Metric) /\ two \in Seq(Metric) /\ three \in Seq(Metric)
  BY <1>1 DEF Metric
<1>3. Breaches(p) = (one \o two) \o three
  BY DEF Breaches
<1>4. one \o two \in Seq(Metric)
  BY <1>2
<1>5. Breaches(p) \in Seq(Metric)
  BY <1>2, <1>3, <1>4
<1>6. ASSUME NEW m \in Metric, p.status[m] >= p.limits[m] PROVE IsIn(m, Breaches(p))
  <2>1. \/ m = "DailyLoss" /\ IsIn(m, one)
        \/ m = "Drawdown" /\ IsIn(m, two)
        \/ m = "OpenPositions" /\ IsIn(m, three)
    BY <1>1, <1>6 DEF Metric
  <2> HIDE DEF one, two, three
  <2>2. IsIn(m, one) \/ IsIn(m, two) => IsIn(m, one \o two)
    BY <1>2, ConcatIn
  <2>3. IsIn(m, one \o two) \/ IsIn(m, three) => IsIn(m, (one \o two) \o three)
    BY <1>2, <1>4, ConcatIn
  <2>4. QED
    BY <1>3, <2>1, <2>2, <2>3
<1>7. QED
  BY <1>5, <1>6

\* A list without its head.
LEMMA TailIn ==
    ASSUME NEW s \in Seq(Metric), s # <<>>
    PROVE  /\ Tail(s) \in Seq(Metric) /\ Head(s) \in Metric
           /\ \A m : IsIn(m, s) => m = Head(s) \/ IsIn(m, Tail(s))
<1>1. Tail(s) \in Seq(Metric) /\ Head(s) \in Metric /\ Len(Tail(s)) = Len(s) - 1
      /\ Len(s) \in Nat \ {0} /\ Head(s) = s[1]
  OBVIOUS
<1>2. ASSUME NEW m, NEW i \in 1..Len(s), s[i] = m, i # 1
      PROVE  IsIn(m, Tail(s))
  <2>1. i - 1 \in 1..Len(Tail(s)) /\ Tail(s)[i - 1] = m
    BY <1>1, <1>2
  <2>2. QED
    BY <2>1 DEF IsIn
<1>3. QED
  BY <1>1, <1>2 DEF IsIn

LEMMA RiskInitIInv == RiskInit => RiskIInv
<1> SUFFICES ASSUME RiskInit PROVE RiskIInv
  OBVIOUS
<1>1. RiskTypeOK
  BY NoWatcherType DEF RiskInit, RiskTypeOK
<1>2. \A h \in Handler : WatcherHeld(h)
  BY NoWatcherType DEF RiskInit, WatcherHeld
<1>3. ClosedStay /\ StatusAsReported /\ ChecksCover
  BY DEF RiskInit, ClosedStay, StatusAsReported, ChecksCover
<1>4. QED
  BY <1>1, <1>2, <1>3 DEF RiskIInv

-----------------------------------------------------------------------------
(* What a step leaves as it is.                                            *)

LEMMA WatcherMoves ==
    ASSUME RiskIInv, NEW h \in Handler, NEW state \in Watcher, WatcherGoes(h, state)
    PROVE  /\ watchers' \in [Handler -> Watcher]
           /\ watchers'[h] = state
           /\ \A g \in Handler \ {h} : watchers'[g] = watchers[g]
  BY DEF WatcherGoes, RiskIInv, RiskTypeOK

\* Profiles stay: the other requests hold what they held.
LEMMA WatchersKept ==
    ASSUME RiskIInv, NEW h \in Handler, NEW state \in Watcher, WatcherGoes(h, state),
           \A u \in Trader : profiles[u] # None => profiles'[u] # None,
           WatcherHeld(h)'
    PROVE  \A g \in Handler : WatcherHeld(g)'
<1>1. SUFFICES ASSUME NEW g \in Handler \ {h} PROVE WatcherHeld(g)'
  OBVIOUS
<1>2. watchers'[g] = watchers[g]
  BY WatcherMoves
<1>3. QED
  BY <1>2 DEF RiskIInv, WatcherHeld

\* Alerts stay, with their user and type, and closed ones stay closed.
AlertsGrow ==
    \A a \in Alert : /\ a \in Alert'
                     /\ alerts'[a].user = alerts[a].user
                     /\ alerts'[a].type = alerts[a].type
                     /\ ~IsOpen(a) => ~IsOpen(a)'

LEMMA AlertedKept ==
    ASSUME AlertsGrow, NEW u, closedThen'[u] = closedThen[u], NEW m, Alerted(u, m)
    PROVE  Alerted(u, m)'
  BY DEF AlertsGrow, Alerted

LEMMA ClosedKept ==
    ASSUME RiskIInv, AlertsGrow, UNCHANGED closedThen PROVE ClosedStay'
  BY DEF RiskIInv, ClosedStay, AlertsGrow

\* The checks of u still cover it, if the one that moves does its part.
CoverOf(u) ==
    \/ \A m \in Breached(u) : Alerted(u, m)
    \/ \E h \in Handler : WillAlert(watchers[h], u)

LEMMA CoverKept ==
    ASSUME RiskIInv, AlertsGrow, NEW h \in Handler, NEW state \in Watcher,
           WatcherGoes(h, state), NEW u \in Trader \ excused, profiles[u] # None,
           Breached(u)' = Breached(u), closedThen'[u] = closedThen[u],
           WillAlert(watchers[h], u) =>
              \/ \A m \in Breached(u) : Alerted(u, m)'
              \/ WillAlert(state, u)'
    PROVE  CoverOf(u)'
<1>1. /\ watchers'[h] = state
      /\ \A g \in Handler \ {h} : watchers'[g] = watchers[g]
  BY WatcherMoves
<1>2. \A m : Alerted(u, m) => Alerted(u, m)'
  BY AlertedKept
<1>3. ASSUME NEW w, WillAlert(w, u) PROVE WillAlert(w, u)'
  BY <1>2, <1>3 DEF WillAlert
<1>4. CASE \A m \in Breached(u) : Alerted(u, m)
  BY <1>2, <1>4 DEF CoverOf
<1>5. ASSUME NEW g \in Handler, WillAlert(watchers[g], u) PROVE CoverOf(u)'
  <2>1. CASE g = h
    <3>1. CASE \A m \in Breached(u) : Alerted(u, m)'
      BY <3>1 DEF CoverOf
    <3>2. CASE WillAlert(state, u)'
      <4>1. WillAlert(watchers[h], u)'
        BY <1>1, <3>2 DEF WillAlert
      <4>2. QED
        BY <4>1 DEF CoverOf
    <3>3. QED
      BY <1>5, <2>1, <3>1, <3>2
  <2>2. CASE g # h
    <3>1. watchers'[g] = watchers[g]
      BY <1>1, <2>2
    <3>2. WillAlert(watchers[g], u)'
      BY <1>2, <1>5, <3>1 DEF WillAlert
    <3>3. QED
      BY <3>2 DEF CoverOf
  <2>3. QED
    BY <2>1, <2>2
<1>6. QED
  BY <1>4, <1>5 DEF RiskIInv, ChecksCover, CoverOf

\* A request only reads, or goes on: profiles and history stay.
LEMMA MoveIInv ==
    ASSUME RiskIInv, NEW h \in Handler, NEW state \in Watcher,
           WatcherGoes(h, state),
           UNCHANGED <<profiles, reported, closedThen, excused>>,
           alerts' \in [AlertId -> AlertDoc \cup {None}], AlertsGrow,
           WatcherHeld(h)',
           \A u \in Trader \ excused :
              profiles[u] # None /\ WillAlert(watchers[h], u) =>
                  \/ \A m \in Breached(u) : Alerted(u, m)'
                  \/ WillAlert(state, u)'
    PROVE  RiskIInv'
<1>1. RiskTypeOK'
  BY WatcherMoves DEF RiskIInv, RiskTypeOK
<1>2. \A g \in Handler : WatcherHeld(g)'
  BY WatchersKept
<1>3. ClosedStay'
  BY ClosedKept
<1>4. StatusAsReported'
  BY DEF RiskIInv, StatusAsReported
<1>5. ASSUME NEW u \in Trader \ excused, profiles[u] # None PROVE CoverOf(u)'
  <2>1. Breached(u)' = Breached(u) /\ closedThen'[u] = closedThen[u]
    BY DEF Breached
  <2>2. QED
    BY <1>5, <2>1, CoverKept
<1>6. ChecksCover'
  BY <1>5 DEF ChecksCover, CoverOf
<1>7. QED
  BY <1>1, <1>2, <1>3, <1>4, <1>6 DEF RiskIInv

LEMMA AlertsSame ==
    ASSUME RiskIInv, UNCHANGED alerts
    PROVE  AlertsGrow /\ alerts' \in [AlertId -> AlertDoc \cup {None}]
  BY DEF AlertsGrow, Alert, StoredIn, IsOpen, RiskIInv, RiskTypeOK

-----------------------------------------------------------------------------
(* The profile                                                             *)

LEMMA ReadToCreateProfileIInv ==
    ASSUME RiskIInv, NEW h \in Handler, NEW u \in Trader, NEW limits \in LimitChoice,
           ReadToCreateProfile(h, u, limits)
    PROVE  RiskIInv'
<1> DEFINE state == [NoWatcher EXCEPT !.at = "insert", !.user = u, !.limits = limits]
<1>1. /\ watchers[h].at = "idle" /\ WatcherGoes(h, state)
      /\ UNCHANGED <<profiles, alerts, reported, closedThen, excused>>
  BY DEF ReadToCreateProfile
<1>2. limits \in Levels
  BY RiskAssumption
<1>3. /\ state \in Watcher /\ state.at = "insert" /\ state.user = u
      /\ state.limits = limits
  BY <1>2, NoWatcherType DEF NoWatcher, Watcher, WatcherStage
<1> HIDE DEF state
<1>4. WatcherHeld(h)'
  BY <1>1, <1>2, <1>3, WatcherMoves DEF WatcherHeld
<1>5. \A v : ~WillAlert(watchers[h], v)
  BY <1>1 DEF WillAlert
<1>6. QED
  BY <1>1, <1>3, <1>4, <1>5, AlertsSame, MoveIInv

LEMMA ReadToUpdateProfileIInv ==
    ASSUME RiskIInv, NEW h \in Handler, NEW u \in Trader, NEW limits \in LimitChoice,
           ReadToUpdateProfile(h, u, limits)
    PROVE  RiskIInv'
<1> DEFINE changed == {m \in Metric : limits[m] # profiles[u].limits[m]}
           state == [NoWatcher EXCEPT !.at = "save", !.user = u, !.limits = limits,
                                      !.changed = changed]
<1>1. /\ watchers[h].at = "idle" /\ WatcherGoes(h, state) /\ profiles[u] # None
      /\ UNCHANGED <<profiles, alerts, reported, closedThen, excused>>
  BY DEF ReadToUpdateProfile
<1>2. limits \in Levels /\ changed \subseteq Metric
  BY RiskAssumption
<1> HIDE DEF changed
<1>3. /\ state \in Watcher /\ state.at = "save" /\ state.user = u
      /\ state.limits = limits
  BY <1>2, NoWatcherType DEF NoWatcher, Watcher, WatcherStage
<1> HIDE DEF state
<1>4. WatcherHeld(h)'
  BY <1>1, <1>2, <1>3, WatcherMoves DEF WatcherHeld
<1>5. \A v : ~WillAlert(watchers[h], v)
  BY <1>1 DEF WillAlert
<1>6. QED
  BY <1>1, <1>3, <1>4, <1>5, AlertsSame, MoveIInv

\* A profile is written and its user excused.
LEMMA ExcuseIInv ==
    ASSUME RiskIInv, NEW h \in Handler, WatcherGoes(h, NoWatcher), UNCHANGED alerts,
           UNCHANGED closedThen, NEW u \in Trader,
           \/ excused' = excused \cup {u}
           \/ UNCHANGED <<excused, profiles>>,
           profiles' \in [Trader -> ProfileDoc \cup {None}],
           reported' \in [Trader -> Levels \cup {None}],
           \A v \in Trader : profiles[v] # None => profiles'[v] # None,
           \A v \in Trader \ {u} : profiles'[v] = profiles[v],
           StatusAsReported',
           \A v : WillAlert(watchers[h], v) => v \in excused'
    PROVE  RiskIInv'
<1>1. /\ watchers' \in [Handler -> Watcher] /\ watchers'[h] = NoWatcher
  BY WatcherMoves, NoWatcherType
<1>2. RiskTypeOK'
  BY <1>1, AlertsSame DEF RiskIInv, RiskTypeOK
<1>3. \A g \in Handler : WatcherHeld(g)'
  <2>1. WatcherHeld(h)'
    BY <1>1, NoWatcherType DEF WatcherHeld
  <2>2. QED
    BY <2>1, WatchersKept, NoWatcherType
<1>4. ClosedStay'
  BY ClosedKept, AlertsSame
<1>5. ASSUME NEW v \in Trader \ excused', profiles'[v] # None PROVE CoverOf(v)'
  <2>1. v \notin excused /\ profiles'[v] = profiles[v]
    BY <1>5
  <2>2. Breached(v)' = Breached(v) /\ closedThen'[v] = closedThen[v]
    BY <2>1 DEF Breached
  <2>3. QED
    BY <1>5, <2>1, <2>2, CoverKept, AlertsSame, NoWatcherType
<1>6. ChecksCover'
  BY <1>5 DEF ChecksCover, CoverOf
<1>7. QED
  BY <1>2, <1>3, <1>4, <1>6 DEF RiskIInv

LEMMA InsertProfileIInv ==
    ASSUME RiskIInv, NEW h \in Handler, InsertProfile(h) PROVE RiskIInv'
<1> DEFINE u == watchers[h].user
           doc == [limits |-> watchers[h].limits, status |-> Zero]
<1>1. /\ watchers[h].at = "insert" /\ u \in Trader /\ watchers[h].limits \in Levels
      /\ WatcherGoes(h, NoWatcher) /\ UNCHANGED <<alerts, closedThen>>
  BY DEF InsertProfile, RiskIInv, WatcherHeld
<1>2. doc \in ProfileDoc /\ doc.status = Zero
  BY <1>1, ZeroType DEF ProfileDoc
<1>3. doc # None
  BY <1>2, DocsNotNone
<1>4. \A v : ~WillAlert(watchers[h], v)
  BY <1>1 DEF WillAlert
<1> HIDE DEF doc
<1>5. CASE UNCHANGED <<profiles, reported, excused>>
  <2>1. /\ profiles' \in [Trader -> ProfileDoc \cup {None}]
        /\ reported' \in [Trader -> Levels \cup {None}]
        /\ StatusAsReported'
    BY <1>5 DEF RiskIInv, RiskTypeOK, StatusAsReported
  <2>2. PICK v : v = u
    OBVIOUS
  <2>3. QED
    BY <1>1, <1>4, <1>5, <2>1, <2>2, ExcuseIInv
<1>6. CASE /\ profiles[u] = None
           /\ profiles' = [profiles EXCEPT ![u] = doc]
           /\ reported' = [reported EXCEPT ![u] = Zero]
           /\ excused' = excused \cup {u}
  <2>1. PICK v \in Trader : v = u
    BY <1>1
  <2>2. /\ profiles' \in [Trader -> ProfileDoc \cup {None}]
        /\ reported' \in [Trader -> Levels \cup {None}]
    BY <1>2, <1>6, ZeroType DEF RiskIInv, RiskTypeOK
  <2>3. StatusAsReported'
    BY <1>1, <1>2, <1>6 DEF RiskIInv, RiskTypeOK, StatusAsReported
  <2>4. /\ \A w \in Trader : profiles[w] # None => profiles'[w] # None
        /\ \A w \in Trader \ {v} : profiles'[w] = profiles[w]
    BY <1>3, <1>6, <2>1 DEF RiskIInv, RiskTypeOK
  <2>5. QED
    BY <1>1, <1>4, <1>6, <2>1, <2>2, <2>3, <2>4, ExcuseIInv
<1>7. QED
  BY <1>5, <1>6 DEF InsertProfile, doc

LEMMA SaveProfileIInv ==
    ASSUME RiskIInv, NEW h \in Handler, SaveProfile(h) PROVE RiskIInv'
<1> DEFINE u == watchers[h].user
           merged == [m \in Metric |-> IF m \in watchers[h].changed
                                       THEN watchers[h].limits[m]
                                       ELSE profiles[u].limits[m]]
           doc == [profiles[u] EXCEPT !.limits = merged]
<1>1. /\ watchers[h].at = "save" /\ u \in Trader /\ watchers[h].limits \in Levels
      /\ profiles[u] # None
      /\ WatcherGoes(h, NoWatcher) /\ UNCHANGED <<alerts, reported, closedThen>>
      /\ excused' = excused \cup {u}
  BY DEF SaveProfile, RiskIInv, WatcherHeld
<1>2. profiles[u] \in ProfileDoc
  BY <1>1 DEF RiskIInv, RiskTypeOK
<1>3. merged \in Levels
  BY <1>1, <1>2 DEF ProfileDoc, Levels
<1>4. profiles' = [profiles EXCEPT ![u] = doc]
  BY <1>1 DEF SaveProfile, RiskIInv, RiskTypeOK
<1> HIDE DEF merged
<1>5. doc \in ProfileDoc /\ doc.status = profiles[u].status
  BY <1>2, <1>3 DEF ProfileDoc
<1>6. doc # None
  BY <1>5, DocsNotNone
<1>7. \A v : ~WillAlert(watchers[h], v)
  BY <1>1 DEF WillAlert
<1> HIDE DEF doc
<1>8. PICK v \in Trader : v = u
  BY <1>1
<1>9. /\ profiles' \in [Trader -> ProfileDoc \cup {None}]
      /\ reported' \in [Trader -> Levels \cup {None}]
  BY <1>1, <1>4, <1>5 DEF RiskIInv, RiskTypeOK
<1>10. StatusAsReported'
  BY <1>1, <1>4, <1>5 DEF RiskIInv, RiskTypeOK, StatusAsReported
<1>11. /\ \A w \in Trader : profiles[w] # None => profiles'[w] # None
       /\ \A w \in Trader \ {v} : profiles'[w] = profiles[w]
  BY <1>4, <1>6, <1>8 DEF RiskIInv, RiskTypeOK
<1>12. QED
  BY <1>1, <1>7, <1>8, <1>9, <1>10, <1>11, ExcuseIInv

\* A request fails: if it was a check, its user is excused.
LEMMA AbandonWatchIInv ==
    ASSUME RiskIInv, NEW h \in Handler, AbandonWatch(h) PROVE RiskIInv'
<1>1. /\ watchers[h].at # "idle" /\ watchers[h].user \in Trader
      /\ WatcherGoes(h, NoWatcher)
      /\ UNCHANGED <<profiles, alerts, reported, closedThen>>
  BY DEF AbandonWatch, RiskIInv, WatcherHeld
<1>2. PICK u \in Trader : u = watchers[h].user
  BY <1>1
<1>3. /\ profiles' \in [Trader -> ProfileDoc \cup {None}]
      /\ reported' \in [Trader -> Levels \cup {None}]
      /\ StatusAsReported'
  BY <1>1 DEF RiskIInv, RiskTypeOK, StatusAsReported
<1>4. excused' = excused \cup {u} \/ UNCHANGED <<excused, profiles>>
  BY <1>1, <1>2 DEF AbandonWatch
<1>5. \A v : WillAlert(watchers[h], v) => v \in excused'
  BY DEF AbandonWatch, WillAlert
<1>6. QED
  BY <1>1, <1>2, <1>3, <1>4, <1>5, ExcuseIInv

-----------------------------------------------------------------------------
(* Status and alerts                                                       *)

LEMMA ReportStatusIInv ==
    ASSUME RiskIInv, NEW h \in Handler, NEW u \in Trader, NEW status \in StatusChoice,
           ReportStatus(h, u, status)
    PROVE  RiskIInv'
<1> DEFINE state == [NoWatcher EXCEPT !.at = "check", !.user = u]
           doc == [profiles[u] EXCEPT !.status = status]
<1>1. /\ watchers[h].at = "idle" /\ profiles[u] # None
      /\ reported' = [reported EXCEPT ![u] = status]
      /\ closedThen' = [closedThen EXCEPT ![u] = {a \in Alert : ~IsOpen(a)}]
      /\ excused' = excused \ {u} /\ WatcherGoes(h, state) /\ UNCHANGED alerts
  BY DEF ReportStatus
<1>2. status \in Levels /\ profiles[u] \in ProfileDoc
  BY <1>1, RiskAssumption DEF RiskIInv, RiskTypeOK
<1>3. /\ state \in Watcher /\ state.at = "check" /\ state.user = u
  BY NoWatcherType DEF NoWatcher, Watcher, WatcherStage
<1>4. profiles' = [profiles EXCEPT ![u] = doc]
  BY DEF ReportStatus, RiskIInv, RiskTypeOK
<1>5. doc \in ProfileDoc /\ doc.status = status
  BY <1>2 DEF ProfileDoc
<1>6. doc # None
  BY <1>5, DocsNotNone
<1> HIDE DEF state, doc
<1>7. /\ watchers' \in [Handler -> Watcher] /\ watchers'[h] = state
      /\ \A g \in Handler \ {h} : watchers'[g] = watchers[g]
  BY <1>1, <1>3, WatcherMoves
<1>8. {a \in Alert : ~IsOpen(a)} \subseteq AlertId
  BY AlertIs DEF RiskIInv
<1>9. RiskTypeOK'
  <2>1. /\ profiles' \in [Trader -> ProfileDoc \cup {None}]
        /\ reported' \in [Trader -> Levels \cup {None}]
        /\ closedThen' \in [Trader -> SUBSET AlertId]
        /\ excused' \subseteq Trader
    BY <1>1, <1>2, <1>4, <1>5, <1>8 DEF RiskIInv, RiskTypeOK
  <2>2. QED
    BY <1>7, <2>1, AlertsSame, <1>1 DEF RiskTypeOK
<1>10. /\ \A v \in Trader : profiles[v] # None => profiles'[v] # None
       /\ \A v \in Trader \ {u} : profiles'[v] = profiles[v]
       /\ profiles'[u] # None
  BY <1>4, <1>6 DEF RiskIInv, RiskTypeOK
<1>11. \A g \in Handler : WatcherHeld(g)'
  <2>1. WatcherHeld(h)'
    BY <1>3, <1>7, <1>10 DEF WatcherHeld
  <2>2. QED
    BY <1>1, <1>3, <1>10, <2>1, WatchersKept
<1>12. AlertsGrow
  BY <1>1, AlertsSame
<1>13. ClosedStay'
  <2> SUFFICES ASSUME NEW v \in Trader, NEW a \in closedThen'[v]
               PROVE  a \in Alert' /\ ~IsOpen(a)'
    BY DEF ClosedStay
  <2>1. a \in Alert /\ ~IsOpen(a)
    BY <1>1 DEF RiskIInv, RiskTypeOK, ClosedStay
  <2>2. QED
    BY <1>12, <2>1 DEF AlertsGrow
<1>14. StatusAsReported'
  BY <1>1, <1>4, <1>5 DEF RiskIInv, RiskTypeOK, StatusAsReported
<1>15. ASSUME NEW v \in Trader \ excused', profiles'[v] # None PROVE CoverOf(v)'
  <2>1. CASE v = u
    <3>1. WillAlert(watchers[h], v)'
      BY <1>3, <1>7, <2>1 DEF WillAlert
    <3>2. QED
      BY <3>1 DEF CoverOf
  <2>2. CASE v # u
    <3>1. v \notin excused /\ profiles'[v] = profiles[v]
      BY <1>1, <1>10, <1>15, <2>2
    <3>2. Breached(v)' = Breached(v) /\ closedThen'[v] = closedThen[v]
      BY <1>1, <2>2, <3>1 DEF Breached, RiskIInv, RiskTypeOK
    <3>3. ~WillAlert(watchers[h], v)
      BY <1>1 DEF WillAlert
    <3>4. QED
      BY <1>1, <1>3, <1>12, <1>15, <3>1, <3>2, <3>3, CoverKept
  <2>3. QED
    BY <2>1, <2>2
<1>16. ChecksCover'
  BY <1>15 DEF ChecksCover, CoverOf
<1>17. QED
  BY <1>9, <1>11, <1>13, <1>14, <1>16 DEF RiskIInv

\* What a check goes on to.
LEMMA RaiseNextIs ==
    ASSUME NEW w \in Watcher, NEW todo \in Seq(Metric)
    PROVE  LET next == RaiseNext(w, todo)
           IN  /\ next \in Watcher
               /\ todo = <<>> => next.at = "idle"
               /\ todo # <<>> => /\ next.at = "look" /\ next.user = w.user
                                 /\ next.todo = todo
  BY NoWatcherType DEF RaiseNext, Watcher, WatcherStage

\* A check goes on to the rest of its breaches.
LEMMA RaiseNextIInv ==
    ASSUME RiskIInv, NEW h \in Handler, watchers[h].at # "idle",
           watchers[h].at # "insert", NEW todo \in Seq(Metric),
           WatcherGoes(h, RaiseNext(watchers[h], todo)),
           UNCHANGED <<profiles, reported, closedThen, excused>>,
           alerts' \in [AlertId -> AlertDoc \cup {None}], AlertsGrow,
           \A u \in Trader \ excused :
              profiles[u] # None /\ WillAlert(watchers[h], u) =>
                  \A m \in Breached(u) : Alerted(u, m)' \/ IsIn(m, todo)
    PROVE  RiskIInv'
<1>1. watchers[h] \in Watcher /\ WatcherHeld(h)
  BY DEF RiskIInv, RiskTypeOK
<1>2. PICK next \in Watcher :
          /\ next = RaiseNext(watchers[h], todo)
          /\ todo = <<>> => next.at = "idle"
          /\ todo # <<>> => /\ next.at = "look" /\ next.todo = todo
                            /\ next.user = watchers[h].user
  BY <1>1, RaiseNextIs
<1>3. WatcherGoes(h, next) /\ watchers'[h] = next
  BY <1>2, WatcherMoves
<1>4. WatcherHeld(h)'
  BY <1>1, <1>2, <1>3 DEF WatcherHeld
<1>5. ASSUME NEW u \in Trader \ excused, profiles[u] # None,
             WillAlert(watchers[h], u)
      PROVE  \/ \A m \in Breached(u) : Alerted(u, m)'
             \/ WillAlert(next, u)'
  <2>1. \A m \in Breached(u) : Alerted(u, m)' \/ IsIn(m, todo)
    BY <1>5
  <2>2. Breached(u)' = Breached(u)
    BY DEF Breached
  <2>3. CASE todo = <<>>
    <3>1. \A m : ~IsIn(m, <<>>)
      BY DEF IsIn
    <3>2. QED
      BY <2>1, <2>3, <3>1
  <2>4. CASE todo # <<>>
    <3>1. next.user = u /\ next.at = "look" /\ next.todo = todo
      BY <1>2, <1>5, <2>4 DEF WillAlert
    <3>2. QED
      BY <2>1, <2>2, <3>1 DEF WillAlert
  <2>5. QED
    BY <2>3, <2>4
<1>6. QED
  BY <1>2, <1>3, <1>4, <1>5, MoveIInv

LEMMA ReadToCheckIInv ==
    ASSUME RiskIInv, NEW h \in Handler, ReadToCheck(h) PROVE RiskIInv'
<1> DEFINE todo == Breaches(profiles[watchers[h].user])
<1>1. /\ watchers[h].at = "check" /\ watchers[h].user \in Trader
      /\ profiles[watchers[h].user] \in ProfileDoc
      /\ WatcherGoes(h, RaiseNext(watchers[h], todo))
      /\ UNCHANGED <<profiles, alerts, reported, closedThen, excused>>
  BY DEF ReadToCheck, RiskIInv, RiskTypeOK, WatcherHeld
<1>2. /\ todo \in Seq(Metric)
      /\ \A m \in Breached(watchers[h].user) : IsIn(m, todo)
  BY <1>1, BreachesAll DEF Breached
<1>3. PICK list \in Seq(Metric) : list = todo
  BY <1>2
<1>4. \A u : WillAlert(watchers[h], u) => u = watchers[h].user
  BY DEF WillAlert
<1> HIDE DEF todo
<1>5. QED
  BY <1>1, <1>2, <1>3, <1>4, AlertsSame, RaiseNextIInv

\* An open alert was not closed at any report.
LEMMA OpenAlerted ==
    ASSUME RiskIInv, NEW u \in Trader, NEW m, OpenAlerts(u, m) # {}
    PROVE  Alerted(u, m)
<1>1. PICK a \in Alert : IsOpen(a) /\ alerts[a].user = u /\ alerts[a].type = m
  BY DEF OpenAlerts
<1>2. a \notin closedThen[u]
  BY <1>1 DEF RiskIInv, ClosedStay
<1>3. QED
  BY <1>1, <1>2 DEF Alerted

LEMMA LookForAlertIInv ==
    ASSUME RiskIInv, NEW h \in Handler, LookForAlert(h) PROVE RiskIInv'
<1>1. PICK w \in Watcher : w = watchers[h]
  BY DEF RiskIInv, RiskTypeOK
<1>2. /\ w.at = "look" /\ w.user \in Trader /\ profiles[w.user] # None
      /\ w.todo \in Seq(Metric) /\ w.todo # <<>>
      /\ UNCHANGED <<profiles, alerts, reported, closedThen, excused>>
  BY <1>1 DEF LookForAlert, RiskIInv, WatcherHeld, Watcher
<1>3. /\ Tail(w.todo) \in Seq(Metric) /\ Head(w.todo) \in Metric
      /\ \A m : IsIn(m, w.todo) => m = Head(w.todo) \/ IsIn(m, Tail(w.todo))
  BY <1>2, TailIn
<1>4. CASE /\ OpenAlerts(w.user, Head(w.todo)) = {}
           /\ WatcherGoes(h, [w EXCEPT !.at = "raise"])
  <2> DEFINE next == [w EXCEPT !.at = "raise"]
  <2>1. /\ next \in Watcher /\ next.at = "raise" /\ next.user = w.user
        /\ next.todo = w.todo
    BY DEF Watcher, WatcherStage
  <2>2. WatcherGoes(h, next)
    BY <1>4
  <2> HIDE DEF next
  <2>3. WatcherHeld(h)'
    BY <1>2, <2>1, <2>2, WatcherMoves DEF WatcherHeld
  <2>4. ASSUME NEW u, WillAlert(w, u) PROVE WillAlert(next, u)'
    <3>1. Breached(u)' = Breached(u)
      BY <1>2 DEF Breached
    <3>2. \A m : Alerted(u, m)' <=> Alerted(u, m)
      BY <1>2 DEF Alerted, Alert, StoredIn
    <3>3. QED
      BY <1>2, <2>1, <2>4, <3>1, <3>2 DEF WillAlert
  <2>5. QED
    BY <1>1, <1>2, <2>1, <2>2, <2>3, <2>4, AlertsSame, MoveIInv
<1>5. CASE /\ OpenAlerts(w.user, Head(w.todo)) # {}
           /\ WatcherGoes(h, RaiseNext(w, Tail(w.todo)))
  <2>1. Alerted(w.user, Head(w.todo))
    BY <1>2, <1>5, OpenAlerted
  <2>2. ASSUME NEW u, WillAlert(w, u), NEW m \in Breached(u)
        PROVE  Alerted(u, m)' \/ IsIn(m, Tail(w.todo))
    <3>1. \A k : Alerted(u, k)' <=> Alerted(u, k)
      BY <1>2 DEF Alerted, Alert, StoredIn
    <3>2. w.user = u /\ (Alerted(u, m) \/ IsIn(m, w.todo))
      BY <1>2, <2>2 DEF WillAlert
    <3>3. QED
      BY <1>3, <2>1, <3>1, <3>2
  <2>3. watchers[h].at # "idle" /\ watchers[h].at # "insert"
    BY <1>1, <1>2
  <2>4. QED
    BY <1>1, <1>2, <1>3, <1>5, <2>2, <2>3, AlertsSame, RaiseNextIInv
<1>6. QED
  BY <1>1, <1>4, <1>5 DEF LookForAlert

LEMMA RaiseAlertIInv ==
    ASSUME RiskIInv, NEW h \in Handler, RaiseAlert(h) PROVE RiskIInv'
<1>1. PICK w \in Watcher : w = watchers[h]
  BY DEF RiskIInv, RiskTypeOK
<1>2. /\ w.at = "raise" /\ w.user \in Trader /\ profiles[w.user] # None
      /\ w.todo \in Seq(Metric) /\ w.todo # <<>>
      /\ WatcherGoes(h, RaiseNext(w, Tail(w.todo)))
      /\ UNCHANGED <<profiles, reported, closedThen, excused>>
  BY <1>1 DEF RaiseAlert, RiskIInv, WatcherHeld, Watcher
<1>3. /\ Tail(w.todo) \in Seq(Metric) /\ Head(w.todo) \in Metric
      /\ \A m : IsIn(m, w.todo) => m = Head(w.todo) \/ IsIn(m, Tail(w.todo))
  BY <1>2, TailIn
<1> DEFINE doc == [user |-> w.user, type |-> Head(w.todo),
                   acknowledged |-> FALSE, resolved |-> FALSE]
<1>4. PICK a \in UnusedIn(alerts) : alerts' = [alerts EXCEPT ![a] = doc]
  BY <1>1 DEF RaiseAlert
<1>5. doc \in AlertDoc
  BY <1>2, <1>3 DEF AlertDoc
<1>6. doc # None /\ doc # Deleted /\ doc.user = w.user /\ doc.type = Head(w.todo)
  BY <1>5, DocsNotNone
<1>7. a \in AlertId /\ alerts[a] = None
  BY <1>4 DEF UnusedIn, RiskIInv, RiskTypeOK
<1> HIDE DEF doc
<1>8. /\ alerts' \in [AlertId -> AlertDoc \cup {None}]
      /\ alerts'[a] = doc /\ \A b \in AlertId \ {a} : alerts'[b] = alerts[b]
  BY <1>4, <1>5, <1>7 DEF RiskIInv, RiskTypeOK
<1>9. a \notin Alert /\ a \in Alert' /\ \A b \in Alert : b \in AlertId \ {a}
  BY <1>6, <1>7, <1>8 DEF Alert, StoredIn, RiskIInv, RiskTypeOK
<1>10. AlertsGrow
  <2>1. \A b \in Alert : b \in Alert' /\ alerts'[b] = alerts[b]
    BY <1>8, <1>9 DEF Alert, StoredIn, RiskIInv, RiskTypeOK
  <2>2. QED
    BY <2>1 DEF AlertsGrow, IsOpen
<1>11. Alerted(w.user, Head(w.todo))'
  <2>1. a \notin closedThen'[w.user]
    BY <1>2, <1>9 DEF RiskIInv, ClosedStay
  <2>2. PICK u, m : u = w.user /\ m = Head(w.todo)
    OBVIOUS
  <2>3. Alerted(u, m)'
    BY <1>6, <1>8, <1>9, <2>1, <2>2 DEF Alerted
  <2>4. QED
    BY <2>2, <2>3
<1>12. ASSUME NEW u, WillAlert(w, u), NEW m \in Breached(u)
       PROVE  Alerted(u, m)' \/ IsIn(m, Tail(w.todo))
  <2>1. closedThen'[u] = closedThen[u]
    BY <1>2
  <2>2. Alerted(u, m) => Alerted(u, m)'
    BY <1>10, <2>1, AlertedKept
  <2>3. w.user = u /\ (Alerted(u, m) \/ IsIn(m, w.todo))
    BY <1>2, <1>12 DEF WillAlert
  <2>4. QED
    BY <1>3, <1>11, <2>2, <2>3
<1>13. watchers[h].at # "idle" /\ watchers[h].at # "insert"
  BY <1>1, <1>2
<1>14. QED
  BY <1>1, <1>2, <1>3, <1>8, <1>10, <1>12, <1>13, RaiseNextIInv

\* An alert is acknowledged or resolved: it stays.
LEMMA CloseAlertIInv ==
    ASSUME RiskIInv, NEW a \in AlertId, AcknowledgeAlert(a) \/ ResolveAlert(a)
    PROVE  RiskIInv'
<1>1. /\ a \in Alert /\ alerts[a] \in AlertDoc
      /\ UNCHANGED <<profiles, watchers, reported, closedThen, excused>>
  BY AlertIs DEF AcknowledgeAlert, ResolveAlert, RiskIInv
<1>2. PICK doc \in AlertDoc : /\ alerts' = [alerts EXCEPT ![a] = doc]
                              /\ doc.user = alerts[a].user
                              /\ doc.type = alerts[a].type
                              /\ ~IsOpen(a) => doc.acknowledged \/ doc.resolved
  <2>1. CASE AcknowledgeAlert(a)
    <3> DEFINE doc == [alerts[a] EXCEPT !.acknowledged = TRUE]
    <3>1. alerts' = [alerts EXCEPT ![a] = doc]
      BY <2>1 DEF AcknowledgeAlert, RiskIInv, RiskTypeOK
    <3>2. /\ doc \in AlertDoc /\ doc.user = alerts[a].user
          /\ doc.type = alerts[a].type /\ doc.acknowledged
      BY <1>1 DEF AlertDoc
    <3>3. QED
      BY <3>1, <3>2
  <2>2. CASE ResolveAlert(a)
    <3> DEFINE doc == [alerts[a] EXCEPT !.resolved = TRUE]
    <3>1. alerts' = [alerts EXCEPT ![a] = doc]
      BY <2>2 DEF ResolveAlert, RiskIInv, RiskTypeOK
    <3>2. /\ doc \in AlertDoc /\ doc.user = alerts[a].user
          /\ doc.type = alerts[a].type /\ doc.resolved
      BY <1>1 DEF AlertDoc
    <3>3. QED
      BY <3>1, <3>2
  <2>3. QED
    BY <2>1, <2>2
<1>3. /\ alerts' \in [AlertId -> AlertDoc \cup {None}]
      /\ alerts'[a] = doc /\ \A b \in AlertId \ {a} : alerts'[b] = alerts[b]
  BY <1>2 DEF RiskIInv, RiskTypeOK
<1>4. AlertsGrow
  <2>1. \A b \in Alert : b \in AlertId /\ b \in Alert'
    BY <1>3, DocsNotNone DEF Alert, StoredIn, RiskIInv, RiskTypeOK
  <2>2. a \in Alert' => (~IsOpen(a) => ~IsOpen(a)')
    BY <1>2, <1>3 DEF IsOpen
  <2>3. \A b \in Alert \ {a} : ~IsOpen(b) => ~IsOpen(b)'
    BY <1>3, <2>1 DEF IsOpen
  <2>4. QED
    BY <1>2, <1>3, <2>1, <2>2, <2>3 DEF AlertsGrow
<1>5. RiskTypeOK' /\ StatusAsReported' /\ \A h \in Handler : WatcherHeld(h)'
  BY <1>1, <1>3 DEF RiskIInv, RiskTypeOK, StatusAsReported, WatcherHeld
<1>6. ClosedStay'
  BY <1>1, <1>4, ClosedKept
<1>7. ChecksCover'
  <2> SUFFICES ASSUME NEW u \in Trader \ excused, profiles[u] # None
               PROVE  CoverOf(u)'
    BY <1>1 DEF ChecksCover, CoverOf
  <2>1. Breached(u)' = Breached(u) /\ closedThen'[u] = closedThen[u]
    BY <1>1 DEF Breached
  <2>2. \A m : Alerted(u, m) => Alerted(u, m)'
    BY <1>4, <2>1, AlertedKept
  <2>3. ASSUME NEW w, WillAlert(w, u) PROVE WillAlert(w, u)'
    BY <2>1, <2>2, <2>3 DEF WillAlert
  <2>4. CoverOf(u)
    BY DEF RiskIInv, ChecksCover, CoverOf
  <2>5. QED
    BY <1>1, <2>1, <2>2, <2>3, <2>4 DEF CoverOf
<1>8. QED
  BY <1>5, <1>6, <1>7 DEF RiskIInv

-----------------------------------------------------------------------------
LEMMA RiskNextIInv == RiskIInv /\ [RiskNext]_riskVars => RiskIInv'
<1> SUFFICES ASSUME RiskIInv, [RiskNext]_riskVars PROVE RiskIInv'
  OBVIOUS
<1>1. CASE UNCHANGED riskVars
  BY <1>1 DEF riskVars, RiskIInv, RiskTypeOK, WatcherHeld, ClosedStay, StatusAsReported,
     ChecksCover, Breached, Alerted, WillAlert, Alert, StoredIn, IsOpen
<1>2. ASSUME NEW h \in Handler, WatcherStep(h) PROVE RiskIInv'
  BY <1>2, ReadToCreateProfileIInv, ReadToUpdateProfileIInv, ReportStatusIInv,
     InsertProfileIInv, SaveProfileIInv, ReadToCheckIInv, LookForAlertIInv,
     RaiseAlertIInv, AbandonWatchIInv DEF WatcherStep
<1>3. ASSUME NEW a \in AlertId, AcknowledgeAlert(a) \/ ResolveAlert(a) PROVE RiskIInv'
  BY <1>3, CloseAlertIInv
<1>4. QED
  BY <1>1, <1>2, <1>3 DEF RiskNext

LEMMA RiskInvariance == RiskSpec => []RiskIInv
  BY RiskInitIInv, RiskNextIInv, PTL DEF RiskSpec

\* Profiles, alerts and requests keep their types, whatever overlaps.
THEOREM RiskTypeCorrect == RiskSpec => []RiskTypeOK
<1>1. RiskIInv => RiskTypeOK
  BY DEF RiskIInv
<1>2. QED
  BY <1>1, RiskInvariance, PTL

\* The status of a profile is the one last reported (updateCurrentStatus): a
\* change of the limits that read the profile before does not undo it.
THEOREM StatusIsAsReported == RiskSpec => []StatusAsReported
<1>1. RiskIInv => StatusAsReported
  BY DEF RiskIInv
<1>2. QED
  BY <1>1, RiskInvariance, PTL

\* Once no check of a user is in progress, each limit that the last report
\* reached has an alert that was not closed before it, whichever overlapping
\* check found or raised it (checkAndCreateAlerts, createAlert).
THEOREM BreachesAlerted == RiskSpec => []BreachIsAlerted
<1>1. RiskIInv => BreachIsAlerted
  <2> SUFFICES ASSUME RiskIInv, NEW u \in Trader \ excused, profiles[u] # None,
                      ~InCheck(u), NEW m \in Metric,
                      profiles[u].status[m] >= profiles[u].limits[m]
               PROVE  \E a \in Alert \ closedThen[u] :
                          alerts[a].user = u /\ alerts[a].type = m
    BY DEF BreachIsAlerted
  <2>1. m \in Breached(u)
    BY DEF Breached
  <2>2. \A h \in Handler : ~WillAlert(watchers[h], u)
    BY DEF InCheck, WillAlert
  <2>3. Alerted(u, m)
    BY <2>1, <2>2 DEF RiskIInv, ChecksCover
  <2>4. QED
    BY <2>3 DEF Alerted
<1>2. QED
  BY <1>1, RiskInvariance, PTL

-----------------------------------------------------------------------------
(***************************************************************************)
(* Strategies: what a request is to store.                                 *)
(***************************************************************************)

\* A rating is the average of a finite set of reviews of s.
Averages(rating, count, s, reviews, counted) ==
    /\ counted \subseteq {r \in StoredIn(reviews) : reviews[r].strategy = s}
    /\ IsFiniteSet(counted)
    /\ Cardinality(counted) = count
    /\ rating.over = count
    /\ rating.sum = SumOver([r \in counted |-> reviews[r].rating], counted)

IsAverage(rating, count, s, reviews) ==
    \E counted : Averages(rating, count, s, reviews, counted)

\* So is that of a strategy whose trader wrote neither rating nor count.
Rated(rating, count, s) == s \in written \/ IsAverage(rating, count, s, given)

\* A request between its read and its update has what it is to store.
EditorCarries(h) ==
    LET e == editors[h]
    IN  /\ e.at = "terms" => e.terms \in Terms
        /\ e.at = "status" => e.status \in StrategyStatus
        /\ e.at = "rate" => Rated(e.rating, e.reviewCount, e.strategy)
        /\ e.at = "settings" =>
              e.settings \in Settings /\ e.copy \in CopyId /\ copies[e.copy] # None

StrategiesIInv ==
    /\ StrategiesTypeOK
    /\ \A h \in Handler : EditorCarries(h)
    /\ \A s \in StoredIn(records) : Rated(records[s].rating, records[s].reviewCount, s)

LEMMA NoEditorType == NoEditor \in EditorState /\ NoEditor.at = "idle"
  BY DEF NoEditor, EditorState, Average

LEMMA StrategiesNoneDiffers ==
    /\ None \notin StrategyRecord /\ Deleted \notin StrategyRecord
    /\ None \notin CopyDoc /\ None # Deleted
    /\ None \notin GivenReview /\ Deleted \notin GivenReview
  BY StrategiesAssumption, ServiceAssumption

\* What is there has its type.
LEMMA RecordType ==
    ASSUME StrategiesIInv, NEW s \in StoredIn(records)
    PROVE  /\ s \in StrategyId /\ records[s] \in StrategyRecord
           /\ records[s].rating \in Average /\ records[s].reviewCount \in Nat
           /\ Rated(records[s].rating, records[s].reviewCount, s)
  BY DEF StrategiesIInv, StrategiesTypeOK, StoredIn, StrategyRecord

LEMMA StrategiesInitIInv == StrategiesInit => StrategiesIInv
<1> SUFFICES ASSUME StrategiesInit PROVE StrategiesIInv
  OBVIOUS
<1>1. StrategiesTypeOK
  BY NoEditorType DEF StrategiesInit, StrategiesTypeOK
<1>2. \A h \in Handler : EditorCarries(h)
  BY NoEditorType DEF StrategiesInit, EditorCarries
<1>3. StoredIn(records) = {}
  BY DEF StrategiesInit, StoredIn
<1>4. QED
  BY <1>1, <1>2, <1>3 DEF StrategiesIInv

-----------------------------------------------------------------------------
(* Averages.                                                               *)

\* A new strategy has none.
LEMMA NoReviewsYet ==
    ASSUME NEW s, NEW reviews PROVE Averages([sum |-> 0, over |-> 0], 0, s, reviews, {})
<1>1. SumOver([r \in {} |-> reviews[r].rating], {}) = 0
  BY SumOfNone
<1>2. QED
  BY <1>1, FS_EmptySet DEF Averages

\* It stays one when more reviews are given.
LEMMA AverageKept ==
    ASSUME NEW rating, NEW count, NEW s, NEW old, NEW new, NEW counted,
           Averages(rating, count, s, old, counted),
           \A r \in StoredIn(old) : r \in StoredIn(new) /\ new[r] = old[r]
    PROVE  Averages(rating, count, s, new, counted)
<1>1. \A r \in counted : new[r] = old[r] /\ r \in StoredIn(new) /\ new[r].strategy = s
  BY DEF Averages
<1>2. SumOver([r \in counted |-> new[r].rating], counted)
          = SumOver([r \in counted |-> old[r].rating], counted)
  BY <1>1, SumSame
<1>3. QED
  BY <1>1, <1>2 DEF Averages

\* A review more, of which the average was computed with the others.
LEMMA AverageOfOneMore ==
    ASSUME NEW rating, NEW count, NEW s, NEW reviews, NEW counted,
           Averages(rating, count, s, reviews, counted),
           \A r \in StoredIn(reviews) : reviews[r].rating \in Nat,
           NEW review \in StoredIn(reviews) \ counted, reviews[review].strategy = s
    PROVE  /\ count \in Nat /\ rating.sum \in Nat
           /\ Averages([sum |-> rating.sum + reviews[review].rating, over |-> count + 1],
                       count + 1, s, reviews, counted \cup {review})
<1> DEFINE more == counted \cup {review}
           f == [r \in more |-> reviews[r].rating]
<1>1. \A r \in more : f[r] \in Nat
  BY DEF Averages
<1>2. IsFiniteSet(counted) /\ review \notin counted /\ NatsOn(f, counted) /\ f[review] \in Nat
  BY <1>1 DEF Averages, NatsOn
<1>3. rating.sum = SumOver(f, counted)
  BY SumSame DEF Averages
<1> HIDE DEF f
<1>4. SumOver(f, more) = SumOver(f, counted) + f[review]
  BY <1>2, SumAdd
<1>5. IsFiniteSet(more) /\ Cardinality(more) = Cardinality(counted) + 1 /\ Cardinality(counted) \in Nat
  BY <1>2, FS_AddElement, FS_CardinalityType
<1>6. SumOver(f, counted) \in Nat
  BY <1>2, SumType
<1>7. f[review] = reviews[review].rating
  BY DEF f
<1>8. SumOver(f, more) = SumOver([r \in more |-> reviews[r].rating], more)
  BY DEF f
<1>9. more \subseteq {r \in StoredIn(reviews) : reviews[r].strategy = s}
  BY DEF Averages
<1>10. count = Cardinality(counted)
  BY DEF Averages
<1> HIDE DEF more
<1>11. QED
  BY <1>3, <1>4, <1>5, <1>6, <1>7, <1>8, <1>9, <1>10 DEF Averages, more

LEMMA TotalOf ==
    ASSUME NEW n \in Nat \ {0}, NEW k \in Nat PROVE (k * n) \div n = k
  OBVIOUS
-----------------------------------------------------------------------------
(* Steps.                                                                  *)

GivenKept ==
    \A r \in StoredIn(given) : r \in StoredIn(given') /\ given'[r] = given[r]

LEMMA IsAverageKept ==
    ASSUME NEW rating, NEW count, NEW s, IsAverage(rating, count, s, given), GivenKept
    PROVE  IsAverage(rating, count, s, given')
  BY AverageKept DEF IsAverage, GivenKept

\* What a step has to show: of the strategies, the requests and the
\* subscriptions that it moves.
LEMMA StrategiesMove ==
    ASSUME StrategiesIInv, StrategiesTypeOK', GivenKept, written \subseteq written',
           \A c \in CopyId : copies[c] # None => copies'[c] # None,
           \A s \in StoredIn(records') :
               \/ /\ s \in StoredIn(records)
                  /\ records'[s].rating = records[s].rating
                  /\ records'[s].reviewCount = records[s].reviewCount
               \/ s \in written'
               \/ IsAverage(records'[s].rating, records'[s].reviewCount, s, given),
           \A h \in Handler : editors'[h] = editors[h] \/ EditorCarries(h)'
    PROVE  StrategiesIInv'
<1>1. ASSUME NEW s \in StoredIn(records')
      PROVE  Rated(records[s].rating, records[s].reviewCount, s)'
  <2>1. \/ s \in written'
        \/ IsAverage(records'[s].rating, records'[s].reviewCount, s, given)
    BY <1>1, RecordType DEF Rated
  <2>2. QED
    BY <2>1, IsAverageKept DEF Rated
<1>2. ASSUME NEW h \in Handler, editors'[h] = editors[h] PROVE EditorCarries(h)'
  <2>1. /\ EditorCarries(h)
        /\ editors[h].at = "rate" =>
              \/ editors[h].strategy \in written'
              \/ IsAverage(editors[h].rating, editors[h].reviewCount, editors[h].strategy,
                           given')
    BY IsAverageKept DEF StrategiesIInv, EditorCarries, Rated
  <2>2. QED
    BY <1>2, <2>1 DEF EditorCarries, Rated
<1>3. StoredIn(records)' = StoredIn(records')
  BY DEF StoredIn
<1>4. QED
  BY <1>1, <1>2, <1>3 DEF StrategiesIInv

\* One request moves, and nothing else.
LEMMA EditorMoves ==
    ASSUME StrategiesIInv, NEW h \in Handler, NEW state \in EditorState,
           EditorGoes(h, state), UNCHANGED <<copies, records, written>>,
           given' \in [Review -> GivenReview \cup {None}], GivenKept,
           EditorCarries(h)'
    PROVE  StrategiesIInv'
<1>1. StrategiesTypeOK'
  BY DEF EditorGoes, StrategiesIInv, StrategiesTypeOK
<1>2. \A g \in Handler : editors'[g] = editors[g] \/ EditorCarries(g)'
  BY DEF EditorGoes, StrategiesIInv, StrategiesTypeOK
<1>3. StoredIn(records') = StoredIn(records)
  OBVIOUS
<1>4. QED
  BY <1>1, <1>2, <1>3, StrategiesMove

\* A request ends or none moves; what is stored changes, but for the averages.
LEMMA StoredMoves ==
    ASSUME StrategiesIInv, UNCHANGED given,
           written \subseteq written', written' \subseteq StrategyId,
           \/ UNCHANGED editors
           \/ \E h \in Handler : EditorGoes(h, NoEditor),
           copies' \in [CopyId -> CopyDoc \cup {None}],
           records' \in [StrategyId -> StrategyRecord \cup {None, Deleted}],
           \A c \in CopyId : copies[c] # None => copies'[c] # None,
           \A s \in StoredIn(records') :
               \/ /\ s \in StoredIn(records)
                  /\ records'[s].rating = records[s].rating
                  /\ records'[s].reviewCount = records[s].reviewCount
               \/ s \in written'
               \/ IsAverage(records'[s].rating, records'[s].reviewCount, s, given)
    PROVE  StrategiesIInv'
<1>1. /\ editors' \in [Handler -> EditorState]
      /\ \A g \in Handler : editors'[g] = editors[g] \/ editors'[g] = NoEditor
  BY NoEditorType DEF EditorGoes, StrategiesIInv, StrategiesTypeOK
<1>2. StrategiesTypeOK'
  BY <1>1 DEF StrategiesIInv, StrategiesTypeOK
<1>3. \A g \in Handler : editors'[g] = editors[g] \/ EditorCarries(g)'
  BY <1>1, NoEditorType DEF EditorCarries
<1>4. GivenKept
  BY DEF GivenKept
<1>5. QED
  BY <1>2, <1>3, <1>4, StrategiesMove

\* A document of a strategy is there, with another value.
LEMMA RecordReplaced ==
    ASSUME StrategiesIInv, NEW s \in StrategyId, NEW doc \in StrategyRecord,
           records' = [records EXCEPT ![s] = doc]
    PROVE  /\ records' \in [StrategyId -> StrategyRecord \cup {None, Deleted}]
           /\ records'[s] = doc
           /\ \A r \in StoredIn(records') :
                 r # s => r \in StoredIn(records) /\ records'[r] = records[r]
  BY DEF StrategiesIInv, StrategiesTypeOK, StoredIn

LEMMA CopyReplaced ==
    ASSUME StrategiesIInv, NEW c \in CopyId, NEW doc \in CopyDoc,
           copies' = [copies EXCEPT ![c] = doc]
    PROVE  /\ copies' \in [CopyId -> CopyDoc \cup {None}]
           /\ \A d \in CopyId : copies[d] # None => copies'[d] # None
  BY StrategiesNoneDiffers DEF StrategiesIInv, StrategiesTypeOK
LEMMA NewStrategyIInv ==
    ASSUME StrategiesIInv, NEW s \in StrategyId, NEW terms \in Terms,
           NewStrategy(s, terms)
    PROVE  StrategiesIInv'
<1> DEFINE doc == [terms |-> terms, status |-> "Active",
                   rating |-> [sum |-> 0, over |-> 0], reviewCount |-> 0,
                   measured |-> FALSE, equityCurve |-> 0]
<1>1. doc \in StrategyRecord /\ doc.rating = [sum |-> 0, over |-> 0] /\ doc.reviewCount = 0
  BY StrategiesAssumption DEF StrategyRecord, StrategyStatus, StoredStatus, Average
<1>2. records' = [records EXCEPT ![s] = doc] /\ UNCHANGED <<copies, editors, given, written>>
  BY DEF NewStrategy
<1>3. IsAverage(doc.rating, doc.reviewCount, s, given)
  BY <1>1, NoReviewsYet DEF IsAverage
<1> HIDE DEF doc
<1>4. copies' \in [CopyId -> CopyDoc \cup {None}] /\ written' \subseteq StrategyId
  BY <1>2 DEF StrategiesIInv, StrategiesTypeOK
<1>5. QED
  BY <1>1, <1>2, <1>3, <1>4, RecordReplaced, StoredMoves

LEMMA RemoveStrategyIInv ==
    ASSUME StrategiesIInv, NEW s \in StrategyId, RemoveStrategy(s)
    PROVE  StrategiesIInv'
<1>1. /\ records' = [records EXCEPT ![s] = Deleted]
      /\ UNCHANGED <<copies, editors, given, written>>
  BY DEF RemoveStrategy
<1>2. /\ records' \in [StrategyId -> StrategyRecord \cup {None, Deleted}]
      /\ \A r \in StoredIn(records') : r \in StoredIn(records) /\ records'[r] = records[r]
      /\ copies' \in [CopyId -> CopyDoc \cup {None}] /\ written' \subseteq StrategyId
  BY <1>1 DEF StrategiesIInv, StrategiesTypeOK, StoredIn
<1>3. QED
  BY <1>1, <1>2, StoredMoves

\* An update of a strategy that leaves its average alone.
LEMMA RecordUpdated ==
    ASSUME StrategiesIInv, NEW s \in StoredIn(records), NEW doc \in StrategyRecord,
           records' = [records EXCEPT ![s] = doc],
           doc.rating = records[s].rating, doc.reviewCount = records[s].reviewCount,
           UNCHANGED <<copies, given, written>>,
           \/ UNCHANGED editors
           \/ \E h \in Handler : EditorGoes(h, NoEditor)
    PROVE  StrategiesIInv'
<1>1. s \in StrategyId
  BY RecordType
<1>2. copies' \in [CopyId -> CopyDoc \cup {None}] /\ written' \subseteq StrategyId
  BY DEF StrategiesIInv, StrategiesTypeOK
<1>3. QED
  BY <1>1, <1>2, RecordReplaced, StoredMoves

\* Nothing is stored.
LEMMA NothingStored ==
    ASSUME StrategiesIInv, UNCHANGED <<copies, records, given, written>>,
           NEW h \in Handler, EditorGoes(h, NoEditor)
    PROVE  StrategiesIInv'
<1>1. /\ copies' \in [CopyId -> CopyDoc \cup {None}]
      /\ records' \in [StrategyId -> StrategyRecord \cup {None, Deleted}]
      /\ StoredIn(records') = StoredIn(records) /\ written' \subseteq StrategyId
  BY DEF StrategiesIInv, StrategiesTypeOK
<1>2. QED
  BY <1>1, StoredMoves

\* An update of the terms leaves the average alone or is remembered.
LEMMA SetTermsIInv ==
    ASSUME StrategiesIInv, NEW h \in Handler, SetTerms(h)
    PROVE  StrategiesIInv'
<1> DEFINE s == editors[h].strategy
<1>1. EditorGoes(h, NoEditor) /\ UNCHANGED <<copies, given>> /\ editors[h].terms \in Terms
  BY DEF SetTerms, StrategiesIInv, EditorCarries
<1>2. CASE s \in StoredIn(records)
  <2>1. /\ s \in StrategyId /\ records[s] \in StrategyRecord
        /\ records[s].status \in StoredStatus /\ records[s].rating \in Average
        /\ records[s].reviewCount \in Nat
    BY <1>2, RecordType DEF StrategyRecord
  <2>2. PICK status \in {records[s].status} \cup BodyStatus,
             rating \in {records[s].rating} \cup BodyRating,
             count \in {records[s].reviewCount} \cup BodyCount :
             /\ records' = [records EXCEPT
                   ![s].terms = editors[h].terms, ![s].status = status,
                   ![s].rating = rating, ![s].reviewCount = count]
             /\ written' = IF rating = records[s].rating /\ count = records[s].reviewCount
                           THEN written ELSE written \cup {s}
    BY <1>2, Zenon DEF SetTerms
  <2> HIDE DEF s
  <2>3. status \in StoredStatus /\ rating \in Average /\ count \in Nat
    BY <2>1, StrategiesAssumption
  <2> DEFINE doc == [records[s] EXCEPT !.terms = editors[h].terms, !.status = status,
                                       !.rating = rating, !.reviewCount = count]
  <2>4. doc \in StrategyRecord /\ doc.rating = rating /\ doc.reviewCount = count
    BY <1>1, <2>1, <2>3 DEF StrategyRecord
  <2>5. records' = [records EXCEPT ![s] = doc]
    BY <2>1, <2>2 DEF StrategiesIInv, StrategiesTypeOK
  <2> HIDE DEF doc
  <2>6. /\ written \subseteq written' /\ written' \subseteq StrategyId
        /\ s \in written' \/ (rating = records[s].rating /\ count = records[s].reviewCount)
    BY <2>1, <2>2 DEF StrategiesIInv, StrategiesTypeOK
  <2>7. copies' \in [CopyId -> CopyDoc \cup {None}]
    BY <1>1 DEF StrategiesIInv, StrategiesTypeOK
  <2>8. QED
    BY <1>1, <1>2, <2>1, <2>4, <2>5, <2>6, <2>7, RecordReplaced, StoredMoves
<1>3. CASE s \notin StoredIn(records)
  BY <1>1, <1>3, NothingStored DEF SetTerms
<1>4. QED
  BY <1>2, <1>3

LEMMA SetStatusIInv ==
    ASSUME StrategiesIInv, NEW h \in Handler, SetStatus(h)
    PROVE  StrategiesIInv'
<1>1. PICK s : s = editors[h].strategy
  OBVIOUS
<1>2. EditorGoes(h, NoEditor) /\ UNCHANGED <<copies, given, written>> /\ editors[h].status \in StrategyStatus
  BY DEF SetStatus, StrategiesIInv, EditorCarries
<1>3. CASE s \in StoredIn(records)
  <2> DEFINE doc == [records[s] EXCEPT !.status = editors[h].status]
  <2>1. /\ records' = [records EXCEPT ![s] = doc]
        /\ doc \in StrategyRecord
        /\ doc.rating = records[s].rating /\ doc.reviewCount = records[s].reviewCount
    BY <1>1, <1>2, <1>3, RecordType DEF SetStatus, StrategyRecord, StoredStatus
  <2> HIDE DEF doc
  <2>2. QED
    BY <1>2, <1>3, <2>1, RecordUpdated
<1>4. CASE s \notin StoredIn(records)
  BY <1>1, <1>2, <1>4, NothingStored DEF SetStatus
<1>5. QED
  BY <1>3, <1>4

\* updateRating stores the average that it computed: the one it overwrites may
\* be of other reviews.
LEMMA StoreRatingIInv ==
    ASSUME StrategiesIInv, NEW h \in Handler, StoreRating(h)
    PROVE  StrategiesIInv'
<1>1. PICK s, rating, count :
          /\ s = editors[h].strategy
          /\ rating = editors[h].rating
          /\ count = editors[h].reviewCount
  OBVIOUS
<1>2. /\ EditorGoes(h, NoEditor) /\ UNCHANGED <<copies, given, written>>
      /\ Rated(rating, count, s)
      /\ rating \in Average /\ count \in Nat
  BY <1>1 DEF StoreRating, StrategiesIInv, EditorCarries, StrategiesTypeOK, EditorState
<1>3. CASE s \in StoredIn(records)
  <2> DEFINE doc == [records[s] EXCEPT !.rating = rating, !.reviewCount = count]
  <2>1. /\ records' = [records EXCEPT ![s] = doc]
        /\ doc \in StrategyRecord
        /\ doc.rating = rating /\ doc.reviewCount = count
    BY <1>1, <1>2, <1>3, RecordType DEF StoreRating, StrategyRecord, StrategiesIInv, StrategiesTypeOK
  <2> HIDE DEF doc
  <2>2. s \in StrategyId
    BY <1>3, RecordType
  <2>3. copies' \in [CopyId -> CopyDoc \cup {None}] /\ written' \subseteq StrategyId
    BY <1>2 DEF StrategiesIInv, StrategiesTypeOK
  <2>4. s \in written' \/ IsAverage(rating, count, s, given)
    BY <1>2 DEF Rated
  <2>5. QED
    BY <1>2, <2>1, <2>2, <2>3, <2>4, RecordReplaced, StoredMoves
<1>4. CASE s \notin StoredIn(records)
  BY <1>1, <1>2, <1>4, NothingStored DEF StoreRating
<1>5. QED
  BY <1>3, <1>4

LEMMA MeasuredIInv ==
    ASSUME StrategiesIInv, NEW s \in StrategyId, UpdatePerformance(s) \/ AddEquityPoint(s)
    PROVE  StrategiesIInv'
<1>1. s \in StoredIn(records) /\ UNCHANGED <<copies, editors, given, written>>
  BY DEF UpdatePerformance, AddEquityPoint
<1>2. CASE UpdatePerformance(s)
  <2> DEFINE doc == [records[s] EXCEPT !.measured = TRUE]
  <2>1. /\ records' = [records EXCEPT ![s] = doc]
        /\ doc \in StrategyRecord
        /\ doc.rating = records[s].rating /\ doc.reviewCount = records[s].reviewCount
    BY <1>1, <1>2, RecordType DEF UpdatePerformance, StrategyRecord
  <2> HIDE DEF doc
  <2>2. QED
    BY <1>1, <2>1, RecordUpdated
<1>3. CASE AddEquityPoint(s)
  <2> DEFINE doc == [records[s] EXCEPT !.equityCurve = @ + 1]
  <2>1. /\ records' = [records EXCEPT ![s] = doc]
        /\ records[s].equityCurve < MaxPoints
    BY <1>1, <1>3, RecordType DEF AddEquityPoint
  <2>2. /\ doc \in StrategyRecord
        /\ doc.rating = records[s].rating /\ doc.reviewCount = records[s].reviewCount
    BY <1>1, <2>1, RecordType, StrategiesAssumption DEF StrategyRecord
  <2> HIDE DEF doc
  <2>3. QED
    BY <1>1, <2>1, <2>2, RecordUpdated
<1>4. QED
  BY <1>2, <1>3

LEMMA ReadToRateIInv ==
    ASSUME StrategiesIInv, NEW h \in Handler, NEW s \in StrategyId,
           NEW review \in Review, NEW rating \in 1..MaxRating,
           ReadToRate(h, s, review, rating)
    PROVE  StrategiesIInv'
<1>1. PICK doc : doc = records[s]
  OBVIOUS
<1> DEFINE new == [sum |-> Total(doc) + rating, over |-> doc.reviewCount + 1]
           state == [NoEditor EXCEPT !.at = "rate", !.strategy = s, !.rating = new,
                                     !.reviewCount = doc.reviewCount + 1]
<1>2. /\ s \in StoredIn(records) /\ given[review] = None
      /\ given' = [given EXCEPT ![review] = [strategy |-> s, rating |-> rating]]
      /\ EditorGoes(h, state) /\ UNCHANGED <<copies, records, written>>
  BY <1>1 DEF ReadToRate
<1>3. doc.rating \in Average /\ doc.reviewCount \in Nat /\ Rated(doc.rating, doc.reviewCount, s)
  BY <1>1, <1>2, RecordType
<1>4. rating \in Nat /\ [strategy |-> s, rating |-> rating] \in GivenReview
  BY StrategiesAssumption DEF GivenReview
<1>5. /\ given \in [Review -> GivenReview \cup {None}]
      /\ given' \in [Review -> GivenReview \cup {None}]
      /\ given'[review] = [strategy |-> s, rating |-> rating]
      /\ \A r \in Review \ {review} : given'[r] = given[r]
  BY <1>2, <1>4 DEF StrategiesIInv, StrategiesTypeOK
<1>6. GivenKept /\ review \notin StoredIn(given) /\ review \in StoredIn(given')
  BY <1>2, <1>4, <1>5, StrategiesNoneDiffers DEF GivenKept, StoredIn
<1>7. Total(doc) \in Nat
  <2>1. \A m, n \in Nat : n # 0 => m \div n \in Nat
    OBVIOUS
  <2>2. doc.rating.sum \in Nat /\ doc.rating.over \in Nat
    BY <1>3 DEF Average
  <2>3. doc.rating.sum * doc.reviewCount \in Nat
    BY <1>3, <2>2
  <2>4. QED
    BY <2>1, <2>2, <2>3 DEF Total
<1>8. new \in Average /\ doc.reviewCount + 1 \in Nat
  BY <1>3, <1>4, <1>7 DEF Average
<1>9. s \in written' \/ IsAverage(new, doc.reviewCount + 1, s, given')
  <2> SUFFICES ASSUME s \notin written
               PROVE  IsAverage(new, doc.reviewCount + 1, s, given')
    BY <1>2
  <2>1. PICK counted : Averages(doc.rating, doc.reviewCount, s, given, counted)
    BY <1>3 DEF Rated, IsAverage
  <2>2. /\ Averages(doc.rating, doc.reviewCount, s, given', counted)
        /\ review \notin counted
    BY <1>6, <2>1, AverageKept DEF GivenKept, Averages
  <2>3. \A r \in StoredIn(given') : given'[r].rating \in Nat
    BY <1>5, StrategiesAssumption DEF StoredIn, GivenReview
  <2>4. /\ doc.rating.sum \in Nat
        /\ Averages([sum |-> doc.rating.sum + rating, over |-> doc.reviewCount + 1],
                    doc.reviewCount + 1, s, given', counted \cup {review})
    BY <1>5, <1>6, <2>2, <2>3, AverageOfOneMore
  <2>5. Total(doc) = doc.rating.sum
    <3>1. doc.rating.over = doc.reviewCount
      BY <2>1 DEF Averages
    <3>2. CASE doc.reviewCount = 0
      <4>1. counted = {}
        BY <2>1, <3>2, FS_EmptySet DEF Averages
      <4>2. doc.rating.sum = 0
        BY <2>1, <4>1, SumOfNone DEF Averages
      <4>3. QED
        BY <3>2, <4>2 DEF Total
    <3>3. CASE doc.reviewCount # 0
      BY <1>3, <2>4, <3>1, <3>3, TotalOf DEF Total
    <3>4. QED
      BY <3>2, <3>3
  <2>6. QED
    BY <2>4, <2>5 DEF IsAverage
<1> HIDE DEF new
<1>10. /\ state \in EditorState
       /\ state.at = "rate" /\ state.strategy = s
       /\ state.rating = new /\ state.reviewCount = doc.reviewCount + 1
  BY <1>8 DEF EditorState, NoEditor
<1> HIDE DEF state
<1>11. EditorCarries(h)'
  BY <1>2, <1>9, <1>10 DEF EditorCarries, Rated, EditorGoes, StrategiesIInv, StrategiesTypeOK
<1>12. QED
  BY <1>2, <1>5, <1>6, <1>10, <1>11, EditorMoves

\* A request that is to set what was passed.
LEMMA ReadToSetIInv ==
    ASSUME StrategiesIInv, NEW h \in Handler,
           \/ \E s \in StrategyId, terms \in Terms : ReadToSetTerms(h, s, terms)
           \/ \E s \in StrategyId, status \in StrategyStatus : ReadToSetStatus(h, s, status)
           \/ \E c \in CopyId, settings \in Settings : ReadToSetSettings(h, c, settings)
    PROVE  StrategiesIInv'
<1>1. ASSUME NEW state \in EditorState, EditorGoes(h, state),
             UNCHANGED <<copies, records, given, written>>,
             /\ state.at = "terms" => state.terms \in Terms
             /\ state.at = "status" => state.status \in StrategyStatus
             /\ state.at # "rate"
             /\ state.at = "settings" =>
                   state.settings \in Settings /\ state.copy \in CopyId /\ copies[state.copy] # None
      PROVE  StrategiesIInv'
  <2>1. given' \in [Review -> GivenReview \cup {None}] /\ GivenKept
    BY <1>1 DEF StrategiesIInv, StrategiesTypeOK, GivenKept
  <2>2. EditorCarries(h)'
    BY <1>1 DEF EditorCarries, EditorGoes, StrategiesIInv, StrategiesTypeOK
  <2>3. QED
    BY <1>1, <2>1, <2>2, EditorMoves
<1>2. ASSUME NEW s \in StrategyId, NEW terms \in Terms, ReadToSetTerms(h, s, terms)
      PROVE  StrategiesIInv'
  <2> DEFINE state == [NoEditor EXCEPT !.at = "terms", !.strategy = s, !.terms = terms]
  <2>1. state \in EditorState /\ state.at = "terms" /\ state.terms = terms
    BY DEF NoEditor, EditorState, Average
  <2>2. EditorGoes(h, state) /\ UNCHANGED <<copies, records, given, written>>
    BY <1>2 DEF ReadToSetTerms
  <2> HIDE DEF state
  <2>3. QED
    BY <1>1, <2>1, <2>2
<1>3. ASSUME NEW s \in StrategyId, NEW status \in StrategyStatus,
             ReadToSetStatus(h, s, status)
      PROVE  StrategiesIInv'
  <2> DEFINE state == [NoEditor EXCEPT !.at = "status", !.strategy = s, !.status = status]
  <2>1. state \in EditorState /\ state.at = "status" /\ state.status = status
    BY DEF NoEditor, EditorState, Average
  <2>2. EditorGoes(h, state) /\ UNCHANGED <<copies, records, given, written>>
    BY <1>3 DEF ReadToSetStatus
  <2> HIDE DEF state
  <2>3. QED
    BY <1>1, <2>1, <2>2
<1>4. ASSUME NEW c \in CopyId, NEW settings \in Settings, ReadToSetSettings(h, c, settings)
      PROVE  StrategiesIInv'
  <2> DEFINE state == [NoEditor EXCEPT !.at = "settings", !.copy = c, !.settings = settings]
  <2>1. /\ state \in EditorState /\ state.at = "settings"
        /\ state.copy = c /\ state.settings = settings
    BY DEF NoEditor, EditorState, Average
  <2>2. EditorGoes(h, state) /\ UNCHANGED <<copies, records, given, written>> /\ copies[c] # None
    BY <1>4 DEF ReadToSetSettings
  <2> HIDE DEF state
  <2>3. QED
    BY <1>1, <2>1, <2>2
<1>5. QED
  BY <1>2, <1>3, <1>4

\* A subscription is there, with another value.
LEMMA CopyUpdated ==
    ASSUME StrategiesIInv, NEW c \in CopyId, NEW doc \in CopyDoc,
           copies' = [copies EXCEPT ![c] = doc], UNCHANGED <<records, given, written>>,
           \/ UNCHANGED editors
           \/ \E h \in Handler : EditorGoes(h, NoEditor)
    PROVE  StrategiesIInv'
<1>1. /\ records' \in [StrategyId -> StrategyRecord \cup {None, Deleted}]
      /\ StoredIn(records') = StoredIn(records) /\ written' \subseteq StrategyId
  BY DEF StrategiesIInv, StrategiesTypeOK
<1>2. QED
  BY <1>1, CopyReplaced, StoredMoves

LEMMA NewCopyIInv ==
    ASSUME StrategiesIInv, NEW c \in CopyId, NEW settings \in Settings, NEW ratio,
           NewCopy(c, settings, ratio)
    PROVE  StrategiesIInv'
<1> DEFINE doc == [settings |-> settings, copyRatio |-> ratio, measured |-> FALSE,
                   copiedTrades |-> 0]
<1>1. doc \in CopyDoc
  BY StrategiesAssumption DEF NewCopy, CopyDoc
<1>2. copies' = [copies EXCEPT ![c] = doc] /\ UNCHANGED <<records, editors, given, written>>
  BY DEF NewCopy
<1> HIDE DEF doc
<1>3. QED
  BY <1>1, <1>2, CopyUpdated

LEMMA SetSettingsIInv ==
    ASSUME StrategiesIInv, NEW h \in Handler, SetSettings(h)
    PROVE  StrategiesIInv'
<1>1. PICK c : c = editors[h].copy
  OBVIOUS
<1>2. editors[h].settings \in Settings /\ c \in CopyId /\ copies[c] # None
  BY <1>1 DEF SetSettings, StrategiesIInv, EditorCarries
<1> DEFINE doc == [copies[c] EXCEPT !.settings = editors[h].settings]
<1>3. doc \in CopyDoc
  BY <1>2 DEF StrategiesIInv, StrategiesTypeOK, CopyDoc
<1>4. copies' = [copies EXCEPT ![c] = doc] /\ UNCHANGED <<records, given, written>> /\ EditorGoes(h, NoEditor)
  BY <1>1 DEF SetSettings
<1> HIDE DEF doc
<1>5. QED
  BY <1>2, <1>3, <1>4, CopyUpdated

LEMMA CopyMovesIInv ==
    ASSUME StrategiesIInv, NEW c \in CopyId,
           \/ \E ratio \in Ratio : UpdateCopyRatio(c, ratio)
           \/ AddCopiedTrade(c)
           \/ UpdateCopyPerformance(c)
    PROVE  StrategiesIInv'
<1>1. copies[c] # None /\ UNCHANGED <<records, editors, given, written>>
  BY DEF UpdateCopyRatio, AddCopiedTrade, UpdateCopyPerformance
<1>2. copies[c] \in CopyDoc
  BY <1>1 DEF StrategiesIInv, StrategiesTypeOK
<1>3. ASSUME NEW ratio, UpdateCopyRatio(c, ratio) PROVE StrategiesIInv'
  <2> DEFINE doc == [copies[c] EXCEPT !.copyRatio = ratio]
  <2>1. copies' = [copies EXCEPT ![c] = doc] /\ doc \in CopyDoc
    BY <1>2, <1>3 DEF UpdateCopyRatio, CopyDoc
  <2> HIDE DEF doc
  <2>2. QED
    BY <1>1, <2>1, CopyUpdated
<1>4. ASSUME AddCopiedTrade(c) PROVE StrategiesIInv'
  <2> DEFINE doc == [copies[c] EXCEPT !.copiedTrades = @ + 1]
  <2>1. copies' = [copies EXCEPT ![c] = doc] /\ copies[c].copiedTrades < MaxPoints
    BY <1>4 DEF AddCopiedTrade
  <2>2. doc \in CopyDoc
    BY <1>2, <2>1, StrategiesAssumption DEF CopyDoc
  <2> HIDE DEF doc
  <2>3. QED
    BY <1>1, <2>1, <2>2, CopyUpdated
<1>5. ASSUME UpdateCopyPerformance(c) PROVE StrategiesIInv'
  <2> DEFINE doc == [copies[c] EXCEPT !.measured = TRUE]
  <2>1. copies' = [copies EXCEPT ![c] = doc] /\ doc \in CopyDoc
    BY <1>2, <1>5 DEF UpdateCopyPerformance, CopyDoc
  <2> HIDE DEF doc
  <2>2. QED
    BY <1>1, <2>1, CopyUpdated
<1>6. QED
  BY <1>3, <1>4, <1>5

-----------------------------------------------------------------------------
(* The theorems.                                                           *)

LEMMA StrategiesNextIInv == StrategiesIInv /\ [StrategiesNext]_strategiesVars => StrategiesIInv'
<1> SUFFICES ASSUME StrategiesIInv, [StrategiesNext]_strategiesVars PROVE StrategiesIInv'
  OBVIOUS
<1>1. ASSUME NEW c \in CopyId,
             FollowerRequest(c) \/ AddCopiedTrade(c) \/ UpdateCopyPerformance(c)
      PROVE  StrategiesIInv'
  BY <1>1, NewCopyIInv, ReadToSetIInv, CopyMovesIInv DEF FollowerRequest
<1>2. ASSUME NEW s \in StrategyId, TraderRequest(s) PROVE StrategiesIInv'
  BY <1>2, NewStrategyIInv, ReadToSetIInv, RemoveStrategyIInv DEF TraderRequest
<1>3. ASSUME NEW h \in Handler,
             SetTerms(h) \/ SetStatus(h) \/ StoreRating(h) \/ SetSettings(h) \/ AbandonEdit(h)
      PROVE  StrategiesIInv'
  BY <1>3, SetTermsIInv, SetStatusIInv, StoreRatingIInv, SetSettingsIInv,
     NothingStored DEF AbandonEdit
<1>4. CASE UNCHANGED strategiesVars
  BY <1>4 DEF strategiesVars, StrategiesIInv, StrategiesTypeOK, EditorCarries, Rated,
              StoredIn
<1>5. QED
  BY <1>1, <1>2, <1>3, <1>4, MeasuredIInv, ReadToRateIInv DEF StrategiesNext

LEMMA StrategiesInvariance == StrategiesSpec => []StrategiesIInv
  BY StrategiesInitIInv, StrategiesNextIInv, PTL DEF StrategiesSpec

\* The strategies, the subscriptions and the requests keep their types
\* (strategies.service.ts, subscriptions.service.ts).
THEOREM StrategiesTypeCorrect == StrategiesSpec => []StrategiesTypeOK
  BY StrategiesInvariance, PTL DEF StrategiesIInv

\* The rating of a strategy whose trader wrote neither rating nor count is the
\* average of as many reviews as are counted, for any strategies, reviews,
\* bodies and requests at once (updateRating).
THEOREM RatingsOfReviews == StrategiesSpec => []RatingIsOfReviews
<1>1. ASSUME StrategiesIInv PROVE RatingIsOfReviews
  <2>1. ASSUME NEW s \in StoredIn(records) \ written
        PROVE  IsAverageOf(records[s].rating, records[s].reviewCount, s)
    <3>1. PICK counted :
              Averages(records[s].rating, records[s].reviewCount, s, given, counted)
      BY <1>1, RecordType DEF Rated, IsAverage
    <3>2. QED
      BY <3>1 DEF Averages, IsAverageOf
  <2>2. QED
    BY <2>1 DEF RatingIsOfReviews
<1>2. QED
  BY <1>1, StrategiesInvariance, PTL

-----------------------------------------------------------------------------
(***************************************************************************)
(* Database: any commands at once, any collections that are followed.      *)
(***************************************************************************)

AllCalls == Down \cup Up \cup Seed

Do(kind, c) == [do |-> kind, in |-> c]

Migrating == {"migrate:up", "setup", "reset"}

Seeding == {"seed", "setup", "reset"}

\* A command makes the calls of its script in their order.
InOrder(k) ==
    /\ k.script = None => k.todo = {}
    /\ k.script # None =>
          /\ k.todo \subseteq CallsOf(k.script)
          /\ \A a \in k.todo, b \in CallsOf(k.script) : Place[a] < Place[b] => b \in k.todo

HasRun(k) ==
    k.script \in Seeding /\ Do("insert", "users") \notin k.todo => k.run \in SeedRun

\* What it has done is still there, as long as no other drops.
HasIndexed(k) ==
    k.script \in Migrating /\ "drop" \notin k.met =>
        \A c \in Kept : Do("index", c) \notin k.todo => c \in indexed

HasSeeded(k) ==
    k.script \in Seeding /\ "drop" \notin k.met =>
        \A c \in Kept : Do("insert", c) \notin k.todo => DemoOf(k.run)[c] \subseteq documents[c]

\* A reset that is by itself finds what it dropped as it left it.
IsReset(k, c) ==
    /\ Do("create", c) \in k.todo => c \notin existing
    /\ documents[c] = IF Do("insert", c) \in k.todo THEN {} ELSE DemoOf(k.run)[c]
    /\ c = "users" => uniqueKeys \subseteq {"email"}

HasReset(k) ==
    k.script = "reset" /\ k.met = {} =>
        /\ ~k.refused
        /\ \A c \in Kept : Do("drop", c) \notin k.todo => IsReset(k, c)

Holds(k) == InOrder(k) /\ HasRun(k) /\ HasIndexed(k) /\ HasSeeded(k) /\ HasReset(k)

HoldsAt(h) == Holds(commands[h])

\* Those that run together have met.
Meets ==
    \A g, h \in Handler :
        g # h /\ Running(h) /\ commands[g].script # None =>
            /\ commands[g].met # {}
            /\ Drops(commands[h].script) => "drop" \in commands[g].met

\* An index of email keeps the emails of users apart.
KeysHold ==
    /\ "users" \in indexed => "email" \in uniqueKeys
    /\ "email" \in uniqueKeys => ~Repeated

DatabaseIInv ==
    /\ DatabaseTypeOK
    /\ \A h \in Handler : HoldsAt(h)
    /\ Meets
    /\ KeysHold

-----------------------------------------------------------------------------
(* Scripts and the order of their calls.                                   *)

LEMMA IndexFound ==
    ASSUME NEW order, NEW c \in Range(order)
    PROVE  IndexIn(order, c) \in DOMAIN order /\ order[IndexIn(order, c)] = c
<1>1. \E i \in DOMAIN order : order[i] = c
  BY DEF Range
<1>2. QED
  BY <1>1 DEF IndexIn

LEMMA Lengths ==
    /\ DownOrder = UpOrder
    /\ DOMAIN UpOrder = 1..16 /\ Len(UpOrder) = 16
    /\ DOMAIN DownOrder = 1..16 /\ Len(DownOrder) = 16
    /\ DOMAIN SeedOrder = 1..5 /\ Len(SeedOrder) = 5
    /\ "users" \in Range(SeedOrder) /\ IndexIn(SeedOrder, "users") = 1
<1>1. DownOrder = UpOrder
  BY DEF UpOrder, DownOrder
<1>2. DOMAIN UpOrder = 1..16 /\ Len(UpOrder) = 16
  BY DEF UpOrder
<1>3. DOMAIN SeedOrder = 1..5 /\ Len(SeedOrder) = 5
  BY DEF SeedOrder
<1>4. \A i \in 1..5 : SeedOrder[i] = "users" <=> i = 1
  BY DEF SeedOrder
<1>5. "users" \in Range(SeedOrder)
  BY <1>3, <1>4 DEF Range
<1>6. IndexIn(SeedOrder, "users") = 1
  BY <1>3, <1>4, <1>5, IndexFound
<1>7. QED
  BY <1>1, <1>2, <1>3, <1>5, <1>6

LEMMA ScriptNotNone ==
    None \notin Script /\ None \notin Migrating /\ None \notin Seeding /\ None # "reset"
  BY DatabaseAssumption DEF Script, Migrating, Seeding

LEMMA KeptType == "users" \in Kept /\ Kept \subseteq Range(UpOrder) /\ Kept \subseteq Range(DownOrder)
  BY DatabaseAssumption, Lengths

LEMMA CallsAre ==
    /\ Down = {Do("drop", c) : c \in Kept}
    /\ Up = {Do(kind, c) : kind \in {"create", "index"}, c \in Kept}
    /\ Seed = {Do("insert", c) : c \in Kept \cap Range(SeedOrder)}
<1>1. Kept \cap Range(UpOrder) = Kept /\ Kept \cap Range(DownOrder) = Kept
  BY KeptType
<1>2. QED
  BY <1>1 DEF Down, Up, Seed, CallsIn, Do

LEMMA Places ==
    ASSUME NEW c \in Kept
    PROVE  /\ Place[Do("drop", c)] \in 1..16
           /\ Place[Do("create", c)] \in 17..48 /\ Place[Do("index", c)] \in 17..48
           /\ Place[Do("create", c)] < Place[Do("index", c)]
           /\ c \in Range(SeedOrder) =>
                 /\ Place[Do("insert", c)] \in 49..53
                 /\ Place[Do("insert", "users")] <= Place[Do("insert", c)]
                 /\ Place[Do("insert", "users")] = Place[Do("insert", c)] => c = "users"
<1>1. /\ IndexIn(UpOrder, c) \in 1..16 /\ IndexIn(DownOrder, c) \in 1..16
  BY KeptType, IndexFound, Lengths
<1>2. Do("drop", c) \in Down /\ Do("create", c) \in Up /\ Do("index", c) \in Up
  BY CallsAre
<1>3. Place[Do("drop", c)] = IndexIn(DownOrder, c)
  <2> PICK call : call = Do("drop", c)
    OBVIOUS
  <2>1. call \in Down \cup Up \cup Seed /\ call.do = "drop" /\ call.in = c
    BY <1>2 DEF Do
  <2>2. QED
    BY <2>1 DEF Place
<1>4. Place[Do("create", c)] = 16 + 2 * IndexIn(UpOrder, c) - 1
  <2> PICK call : call = Do("create", c)
    OBVIOUS
  <2>1. call \in Down \cup Up \cup Seed /\ call.do = "create" /\ call.in = c
    BY <1>2 DEF Do
  <2>2. Place[call] = (Len(DownOrder) + 2 * IndexIn(UpOrder, c)) - 1
    BY <2>1 DEF Place
  <2>3. QED
    BY <1>1, <2>2, Lengths
<1>5. Place[Do("index", c)] = 16 + 2 * IndexIn(UpOrder, c)
  <2> PICK call : call = Do("index", c)
    OBVIOUS
  <2>1. call \in Down \cup Up \cup Seed /\ call.do = "index" /\ call.in = c
    BY <1>2 DEF Do
  <2>2. Place[call] = Len(DownOrder) + 2 * IndexIn(UpOrder, c)
    BY <2>1 DEF Place
  <2>3. QED
    BY <2>2, Lengths
<1>6. ASSUME NEW d \in Kept \cap Range(SeedOrder)
      PROVE  /\ Place[Do("insert", d)] = 48 + IndexIn(SeedOrder, d)
             /\ IndexIn(SeedOrder, d) \in 1..5 /\ SeedOrder[IndexIn(SeedOrder, d)] = d
  <2>1. Do("insert", d) \in Seed
    BY CallsAre
  <2>2. Place[Do("insert", d)] = 16 + 2 * 16 + IndexIn(SeedOrder, d)
    BY <2>1, Lengths DEF Place, Do
  <2>3. QED
    BY <2>2, IndexFound, Lengths
<1>7. "users" \in Kept \cap Range(SeedOrder)
  BY KeptType, Lengths
<1>8. Place[Do("insert", "users")] = 49 /\ SeedOrder[1] = "users"
  BY <1>6, <1>7, Lengths
<1>9. ASSUME c \in Range(SeedOrder)
      PROVE  /\ Place[Do("insert", c)] \in 49..53
             /\ 49 <= Place[Do("insert", c)]
             /\ 49 = Place[Do("insert", c)] => c = "users"
  BY <1>6, <1>8, <1>9
<1>10. QED
  BY <1>1, <1>3, <1>4, <1>5, <1>8, <1>9

LEMMA PlaceType == \A call \in AllCalls : Place[call] \in 1..53
  BY CallsAre, Places DEF AllCalls

LEMMA Scripts ==
    ASSUME NEW script \in Script
    PROVE  /\ CallsOf(script) \subseteq AllCalls /\ CallsOf(script) \subseteq Call
           /\ ~Drops(script) => CallsOf(script) \cap Down = {}
           /\ Drops(script) => Down \subseteq CallsOf(script)
           /\ script \in Migrating => Up \subseteq CallsOf(script)
           /\ script \notin Migrating => CallsOf(script) \cap Up = {}
           /\ script \in Seeding => Seed \subseteq CallsOf(script)
           /\ script \notin Seeding => CallsOf(script) \cap Seed = {}
<1>1. /\ Down \cap Up = {} /\ Down \cap Seed = {} /\ Up \cap Seed = {}
      /\ AllCalls \subseteq Call
  BY CallsAre DEF Do, AllCalls, Call
<1>2. /\ CallsOf("migrate:up") = Up /\ CallsOf("migrate:down") = Down
      /\ CallsOf("seed") = Seed /\ CallsOf("setup") = Up \cup Seed
      /\ CallsOf("reset") = Down \cup Up \cup Seed
  BY DEF CallsOf
<1>3. QED
  BY <1>1, <1>2 DEF AllCalls, Script, Drops, Migrating, Seeding

\* The next call is the first of those to make.
LEMMA NextFirst ==
    ASSUME NEW h, NEW todo, commands[h].todo = todo, todo \subseteq AllCalls, todo # {}
    PROVE  NextCall(h) \in todo /\ \A other \in todo : Place[NextCall(h)] <= Place[other]
<1> DEFINE K == {Place[call] : call \in todo}
<1>1. K \in SUBSET (1..53) /\ K # {} /\ 53 \in Nat
  BY PlaceType
<1>2. \E k \in K : \A j \in K : k <= j
  <2> HIDE DEF K
  <2>1. QED
    BY <1>1, Lowest
<1>3. \E call \in todo : \A other \in todo : Place[call] <= Place[other]
  BY <1>2
<1>4. QED
  BY <1>3 DEF NextCall

-----------------------------------------------------------------------------
(* The demo data.                                                          *)

LEMMA DemoIs ==
    ASSUME NEW r, NEW c \in Kept
    PROVE  /\ DemoOf(r)[c] \subseteq {r} \X Account
           /\ c = "users" => DemoOf(r)[c] = {r} \X Account
           /\ c \notin Range(SeedOrder) => DemoOf(r)[c] = {}
<1>1. "trader" \in Account /\ "provider" \in Account
  <2>1. /\ DemoUsers[2] = "trader" /\ DemoUsers[3] = "provider"
        /\ DOMAIN DemoUsers = 1..3
    BY DEF DemoUsers
  <2>2. QED
    BY <2>1 DEF Account, Range
<1>2. c \notin Range(SeedOrder) =>
         c \notin {"users", "strategies", "riskprofiles", "notificationpreferences",
                   "charttemplates"}
  <2>1. /\ SeedOrder[1] = "users" /\ SeedOrder[2] = "strategies"
        /\ SeedOrder[3] = "riskprofiles" /\ SeedOrder[4] = "notificationpreferences"
        /\ SeedOrder[5] = "charttemplates"
    BY DEF SeedOrder
  <2>2. QED
    BY <2>1, Lengths DEF Range
<1>3. QED
  BY <1>1, <1>2 DEF DemoOf, DemoStrategies, DemoProfiles, DemoPreferences, DemoTemplates

LEMMA NotRepeated ==
    ASSUME NEW r, NEW docs, docs \subseteq {r} \X Account
    PROVE  \A a, b \in docs : a[2] = b[2] => a = b
  OBVIOUS

LEMMA UsersLetInAre ==
    ASSUME NEW r
    PROVE  /\ UsersLetIn(r) \subseteq {r} \X Account
           /\ uniqueKeys # {} /\ documents["users"] # {} => UsersLetIn(r) = {}
           /\ "phone" \notin uniqueKeys /\ documents["users"] = {}
                => UsersLetIn(r) = DemoOf(r)["users"]
<1>1. Head(DemoUsers) \in Account
  <2>1. Head(DemoUsers) = DemoUsers[1] /\ 1 \in DOMAIN DemoUsers
    BY DEF DemoUsers
  <2>2. QED
    BY <2>1 DEF Account, Range
<1>2. DemoOf(r)["users"] = {r} \X Account
  BY DemoIs, KeptType
<1>3. QED
  BY <1>1, <1>2 DEF UsersLetIn

-----------------------------------------------------------------------------
(* A call of a command.                                                    *)

LEMMA NoCommandHolds == Holds(NoCommand) /\ NoCommand \in Command /\ NoCommand.script = None
<1>1. NoCommand.script = None /\ NoCommand.todo = {}
  BY DEF NoCommand
<1>2. Holds(NoCommand)
  BY <1>1, ScriptNotNone DEF Holds, InOrder, HasRun, HasIndexed, HasSeeded, HasReset
<1>3. NoCommand \in Command
  BY DEF NoCommand, Command
<1>4. QED
  BY <1>1, <1>2, <1>3

\* Of one command, and of that of a handler.
LEMMA HeldNow ==
    ASSUME NEW h, HoldsAt(h)
    PROVE  \E k : k = commands[h] /\ Holds(k)
  BY DEF HoldsAt

LEMMA HeldNext ==
    ASSUME NEW h, NEW k, k = commands'[h], Holds(k)'
    PROVE  HoldsAt(h)'
  BY DEF HoldsAt, Holds, InOrder, HasRun, HasIndexed, HasSeeded, HasReset, IsReset

\* The command k of h makes its next call, n, in the collection c.
Makes(h, k, n, c) ==
    /\ k = commands[h] /\ k \in Command /\ Holds(k)
    /\ k.script \in Script /\ ~k.refused
    /\ n = NextCall(h) /\ n \in k.todo /\ k.todo \subseteq CallsOf(k.script)
    /\ c = n.in /\ c \in Kept /\ n = Do(n.do, c)
    /\ \A b \in CallsOf(k.script) : Place[n] < Place[b] => b \in k.todo
    /\ \A b \in k.todo : Place[n] <= Place[b]

LEMMA MakesNext ==
    ASSUME DatabaseIInv, NEW h \in Handler, Running(h)
    PROVE  \E k, n, c : Makes(h, k, n, c)
<1>1. PICK k : k = commands[h] /\ k \in Command /\ Holds(k)
  <2>1. HoldsAt(h) /\ commands[h] \in Command
    BY DEF DatabaseIInv, DatabaseTypeOK
  <2>2. QED
    BY <2>1, HeldNow
<1>2. k.todo # {} /\ ~k.refused /\ k.script \in Script
  BY <1>1 DEF Running, Holds, InOrder, Command
<1>3. k.script # None
  BY <1>1, <1>2 DEF Holds, InOrder
<1>4. k.todo \subseteq CallsOf(k.script) /\ CallsOf(k.script) \subseteq AllCalls
  BY <1>1, <1>2, <1>3, Scripts DEF Holds, InOrder
<1>5. PICK n : n = NextCall(h) /\ n \in k.todo /\ \A b \in k.todo : Place[n] <= Place[b]
  BY <1>1, <1>2, <1>4, NextFirst
<1>6. \A b \in CallsOf(k.script) : Place[n] < Place[b] => b \in k.todo
  BY <1>1, <1>3, <1>5 DEF Holds, InOrder
<1>7. n \in Call
  BY <1>2, <1>4, <1>5, Scripts
<1>8. n.in \in Kept /\ n = Do(n.do, n.in)
  BY <1>7 DEF Call, Do
<1>9. QED
  BY <1>1, <1>2, <1>4, <1>5, <1>6, <1>8 DEF Makes

\* Without the call it has made.
LEMMA Without ==
    ASSUME NEW todo, NEW kind, NEW c, NEW other, NEW d
    PROVE  Do(other, d) \in todo \ {Do(kind, c)}
              <=> Do(other, d) \in todo /\ ~(other = kind /\ d = c)
  BY DEF Do

\* reset drops first, then creates and indexes, then inserts, the users first.
LEMMA DropIsFirst ==
    ASSUME NEW h, NEW k, NEW n, NEW c, Makes(h, k, n, c), n = Do("drop", c)
    PROVE  /\ Drops(k.script)
           /\ k.script = "reset" => \A d \in Kept :
                 /\ Do("create", d) \in k.todo /\ Do("index", d) \in k.todo
                 /\ d \in Range(SeedOrder) => Do("insert", d) \in k.todo
<1>1. n \in Down /\ n \in CallsOf(k.script)
  BY CallsAre DEF Makes
<1>2. Drops(k.script)
  BY <1>1, Scripts DEF Makes
<1>3. ASSUME k.script = "reset", NEW d \in Kept
      PROVE  /\ Do("create", d) \in k.todo /\ Do("index", d) \in k.todo
             /\ d \in Range(SeedOrder) => Do("insert", d) \in k.todo
  <2>1. /\ Do("create", d) \in CallsOf(k.script) /\ Do("index", d) \in CallsOf(k.script)
        /\ d \in Range(SeedOrder) => Do("insert", d) \in CallsOf(k.script)
    BY <1>3, CallsAre, Scripts DEF Makes, Migrating, Seeding
  <2>2. /\ Place[n] \in 1..16
        /\ Place[Do("create", d)] \in 17..48 /\ Place[Do("index", d)] \in 17..48
        /\ d \in Range(SeedOrder) => Place[Do("insert", d)] \in 49..53
    BY Places DEF Makes
  <2>3. QED
    BY <2>1, <2>2 DEF Makes
<1>4. QED
  BY <1>2, <1>3

LEMMA UpFollows ==
    ASSUME NEW h, NEW k, NEW n, NEW c, Makes(h, k, n, c), n.do \in {"create", "index"}
    PROVE  /\ k.script \in Migrating
           /\ n = Do("index", c) => Do("create", c) \notin k.todo
           /\ \A d \in Kept :
                 /\ Do("drop", d) \notin k.todo
                 /\ k.script \in Seeding /\ d \in Range(SeedOrder) => Do("insert", d) \in k.todo
<1>1. n \in Up /\ n \in CallsOf(k.script) /\ Place[n] \in 17..48
  BY CallsAre, Places DEF Makes
<1>2. k.script \in Migrating
  BY <1>1, Scripts DEF Makes
<1>3. n = Do("index", c) => Do("create", c) \notin k.todo
  <2> SUFFICES ASSUME n = Do("index", c), Do("create", c) \in k.todo PROVE FALSE
    OBVIOUS
  <2>1. Place[n] <= Place[Do("create", c)]
    BY DEF Makes
  <2>2. c \in Kept
    BY DEF Makes
  <2>3. /\ Place[Do("create", c)] \in 17..48 /\ Place[Do("index", c)] \in 17..48
        /\ Place[Do("create", c)] < Place[Do("index", c)]
    BY <2>2, Places
  <2>4. QED
    BY <2>1, <2>3
<1>4. ASSUME NEW d \in Kept PROVE Do("drop", d) \notin k.todo
  <2>1. Place[Do("drop", d)] \in 1..16
    BY Places
  <2>2. Do("drop", d) \in k.todo => Place[n] <= Place[Do("drop", d)]
    BY DEF Makes
  <2>3. QED
    BY <1>1, <2>1, <2>2
<1>5. ASSUME NEW d \in Kept, k.script \in Seeding, d \in Range(SeedOrder)
      PROVE  Do("insert", d) \in k.todo
  <2>1. Do("insert", d) \in CallsOf(k.script)
    BY <1>5, CallsAre, Scripts DEF Makes
  <2>2. Place[Do("insert", d)] \in 49..53
    BY <1>5, Places
  <2>3. Place[n] < Place[Do("insert", d)]
    BY <1>1, <2>2
  <2>4. QED
    BY <2>1, <2>3 DEF Makes
<1>6. QED
  BY <1>2, <1>3, <1>4, <1>5

LEMMA InsertIsLast ==
    ASSUME NEW h, NEW k, NEW n, NEW c, Makes(h, k, n, c), n = Do("insert", c)
    PROVE  /\ k.script \in Seeding /\ c \in Range(SeedOrder)
           /\ c # "users" => Do("insert", "users") \notin k.todo
           /\ c = "users" => \A d \in Kept \cap Range(SeedOrder) : Do("insert", d) \in k.todo
           /\ \A d \in Kept : Do("drop", d) \notin k.todo /\ Do("create", d) \notin k.todo
<1>1. n \in CallsOf(k.script) /\ n \in AllCalls /\ c \in Kept
  BY Scripts DEF Makes
<1>2. n \in Seed
  <2>1. n \notin Down
    BY CallsAre DEF Do
  <2>2. n \notin Up
    <3>1. n.do = "insert" /\ \A kind, d : Do(kind, d).do = kind
      BY DEF Do
    <3>2. QED
      BY <3>1, CallsAre
  <2>3. QED
    BY <1>1, <2>1, <2>2 DEF AllCalls
<1>3. c \in Range(SeedOrder)
  BY <1>2, CallsAre DEF Do
<1>4. k.script \in Seeding
  BY <1>1, <1>2, Scripts DEF Makes
<1>5. /\ Place[n] \in 49..53 /\ Place[Do("insert", "users")] <= Place[n]
      /\ Place[Do("insert", "users")] = Place[n] => c = "users"
  BY <1>1, <1>3, Places
<1>6. Place[Do("insert", "users")] \in 49..53
  BY KeptType, Lengths, Places
<1>7. c # "users" => Do("insert", "users") \notin k.todo
  <2>1. Do("insert", "users") \in k.todo => Place[n] <= Place[Do("insert", "users")]
    BY DEF Makes
  <2>2. QED
    BY <1>5, <1>6, <2>1
<1>8. ASSUME c = "users", NEW d \in Kept \cap Range(SeedOrder)
      PROVE  Do("insert", d) \in k.todo
  <2>1. CASE d = "users"
    BY <1>8, <2>1 DEF Makes
  <2>2. CASE d # "users"
    <3>1. /\ Place[Do("insert", d)] \in 49..53
          /\ Place[Do("insert", "users")] <= Place[Do("insert", d)]
          /\ Place[Do("insert", "users")] # Place[Do("insert", d)]
      BY <2>2, Places
    <3>2. Place[n] < Place[Do("insert", d)]
      BY <1>5, <1>8, <3>1
    <3>3. Do("insert", d) \in CallsOf(k.script)
      BY <1>4, CallsAre, Scripts DEF Makes
    <3>4. QED
      BY <3>2, <3>3 DEF Makes
  <2>3. QED
    BY <2>1, <2>2
<1>9. ASSUME NEW d \in Kept
      PROVE  Do("drop", d) \notin k.todo /\ Do("create", d) \notin k.todo
  <2>1. Place[Do("drop", d)] \in 1..16 /\ Place[Do("create", d)] \in 17..48
    BY Places
  <2>2. /\ Do("drop", d) \in k.todo => Place[n] <= Place[Do("drop", d)]
        /\ Do("create", d) \in k.todo => Place[n] <= Place[Do("create", d)]
    BY DEF Makes
  <2>3. QED
    BY <1>5, <2>1, <2>2
<1>10. QED
  BY <1>3, <1>4, <1>7, <1>8, <1>9

\* The other commands, when one makes a call: only a drop takes away.
LEMMA OthersHold ==
    ASSUME DatabaseIInv, NEW h \in Handler, Running(h), NEW g \in Handler, g # h,
           commands'[g] = commands[g],
           \/ Drops(commands[h].script)
           \/ /\ indexed \subseteq indexed'
              /\ \A c \in Kept : documents[c] \subseteq documents'[c]
    PROVE  HoldsAt(g)'
<1>1. PICK k : k = commands[g] /\ Holds(k)
  BY HeldNow DEF DatabaseIInv
<1>2. CASE k.script = None
  <2>1. Holds(k)'
    BY <1>1, <1>2, ScriptNotNone
    DEF Holds, InOrder, HasRun, HasIndexed, HasSeeded, HasReset
  <2>2. QED
    BY <1>1, <2>1, HeldNext
<1>3. CASE k.script # None
  <2>1. k.met # {} /\ (Drops(commands[h].script) => "drop" \in k.met)
    BY <1>1, <1>3 DEF DatabaseIInv, Meets
  <2>2. InOrder(k)' /\ HasRun(k)'
    BY <1>1 DEF Holds, InOrder, HasRun
  <2>3. HasIndexed(k)' /\ HasSeeded(k)'
    BY <1>1, <2>1 DEF Holds, HasIndexed, HasSeeded
  <2>4. HasReset(k)'
    BY <2>1 DEF HasReset
  <2>5. Holds(k)'
    BY <2>2, <2>3, <2>4 DEF Holds
  <2>6. QED
    BY <1>1, <2>5, HeldNext
<1>4. QED
  BY <1>2, <1>3

\* The command that moves goes on with its script and forgets no one it met.
LEMMA CommandMoves ==
    ASSUME DatabaseIInv, NEW h \in Handler, Running(h), NEW k \in Command,
           commands' = [commands EXCEPT ![h] = k],
           k.script = commands[h].script, commands[h].met \subseteq k.met,
           Holds(k)', DatabaseTypeOK', KeysHold',
           \/ Drops(commands[h].script)
           \/ /\ indexed \subseteq indexed'
              /\ \A c \in Kept : documents[c] \subseteq documents'[c]
    PROVE  DatabaseIInv'
<1>1. commands'[h] = k /\ \A g \in Handler \ {h} : commands'[g] = commands[g]
  BY DEF DatabaseIInv, DatabaseTypeOK
<1>2. ASSUME NEW g \in Handler PROVE HoldsAt(g)'
  <2>1. CASE g = h
    BY <1>1, <2>1, HeldNext
  <2>2. CASE g # h
    BY <1>1, <2>2, OthersHold
  <2>3. QED
    BY <2>1, <2>2
<1>3. \A g \in Handler : commands'[g].script = commands[g].script
                          /\ commands[g].met \subseteq commands'[g].met
                          /\ (Running(g)' => Running(g))
  BY <1>1 DEF Running
<1>4. Meets'
  BY <1>3 DEF DatabaseIInv, Meets
<1>5. QED
  BY <1>2, <1>4 DEF DatabaseIInv

\* The database stays as it is.
LEMMA SameData ==
    ASSUME NEW k, Holds(k), UNCHANGED <<existing, indexed, uniqueKeys, documents>>
    PROVE  Holds(k)'
  BY DEF Holds, InOrder, HasRun, HasIndexed, HasSeeded, HasReset, IsReset

LEMMA SameKeys ==
    ASSUME KeysHold, UNCHANGED <<indexed, uniqueKeys, documents>>
    PROVE  KeysHold'
  BY DEF KeysHold, Repeated

\* Once the next call is made the rest are in their order.
LEMMA StillInOrder ==
    ASSUME NEW h, NEW k, NEW n, NEW c, Makes(h, k, n, c),
           NEW next, next.script = k.script, next.todo = k.todo \ {n}
    PROVE  InOrder(next)
<1>1. k.script # None /\ k.script \in Script
  BY ScriptNotNone DEF Makes
<1>2. /\ k.todo \subseteq CallsOf(k.script)
      /\ \A a \in k.todo, b \in CallsOf(k.script) : Place[a] < Place[b] => b \in k.todo
  BY <1>1 DEF Makes, Holds, InOrder
<1>3. ASSUME NEW a \in k.todo \ {n}, NEW b \in CallsOf(k.script), Place[a] < Place[b]
      PROVE  b \in k.todo \ {n}
  <2>1. Place[n] <= Place[a] /\ a \in AllCalls /\ n \in AllCalls /\ b \in AllCalls
    BY <1>1, <1>2, Scripts DEF Makes
  <2>2. Place[n] \in 1..53 /\ Place[a] \in 1..53 /\ Place[b] \in 1..53
    BY <2>1, PlaceType
  <2>3. b # n
    BY <1>3, <2>1, <2>2
  <2>4. QED
    BY <1>2, <1>3, <2>3
<1>4. QED
  BY <1>1, <1>2, <1>3 DEF InOrder

-----------------------------------------------------------------------------
(* The migration.                                                          *)

LEMMA CreateCollectionIInv ==
    ASSUME DatabaseIInv, NEW h \in Handler, CreateCollection(h)
    PROVE  DatabaseIInv'
<1>1. Running(h)
  BY DEF CreateCollection
<1>2. PICK k, n, c : Makes(h, k, n, c)
  BY <1>1, MakesNext
<1>3. /\ k = commands[h] /\ k \in Command /\ Holds(k) /\ n \in k.todo /\ c \in Kept
      /\ n = Do("create", c)
      /\ existing' = existing \cup {c}
      /\ UNCHANGED <<strict, indexed, uniqueKeys, documents>>
      /\ commands' = [commands EXCEPT ![h] =
                         IF strict /\ c \in existing THEN [k EXCEPT !.refused = TRUE]
                         ELSE [k EXCEPT !.todo = @ \ {n}]]
  BY <1>2 DEF CreateCollection, Makes, Refused, GoesOn
<1>4. n.do = "create"
  BY <1>3 DEF Do
\* No drop is left, so one that is by itself meets no collection.
<1>5. k.script = "reset" /\ k.met = {} => c \notin existing
  BY <1>2, <1>3, <1>4, UpFollows DEF Holds, HasReset, IsReset
<1> DEFINE on == [k EXCEPT !.todo = @ \ {n}]
           off == [k EXCEPT !.refused = TRUE]
<1>6. /\ off \in Command /\ off.script = k.script /\ off.met = k.met /\ off.todo = k.todo
      /\ off.run = k.run
  BY <1>3 DEF Command
<1>7. /\ on \in Command /\ on.script = k.script /\ on.met = k.met /\ on.todo = k.todo \ {n}
      /\ on.run = k.run /\ on.refused = k.refused
  BY <1>3 DEF Command
<1>8. commands'[h] \in {on, off} /\ commands' = [commands EXCEPT ![h] = commands'[h]]
      /\ (strict /\ c \in existing => commands'[h] = off)
      /\ (~(strict /\ c \in existing) => commands'[h] = on)
  BY <1>3 DEF DatabaseIInv, DatabaseTypeOK
<1> HIDE DEF on, off
<1>9. CASE strict /\ c \in existing
  <2>1. InOrder(off) /\ HasRun(off) /\ HasIndexed(off)' /\ HasSeeded(off)'
    BY <1>3, <1>6 DEF Holds, InOrder, HasRun, HasIndexed, HasSeeded
  <2>2. HasReset(off)'
    BY <1>5, <1>6, <1>9 DEF HasReset
  <2>3. Holds(off)'
    BY <2>1, <2>2 DEF Holds, InOrder, HasRun
  <2>4. commands' = [commands EXCEPT ![h] = off]
    BY <1>8, <1>9
  <2>5. DatabaseTypeOK'
    BY <1>3, <1>6, <2>4 DEF DatabaseIInv, DatabaseTypeOK
  <2>6. QED
    BY <1>1, <1>3, <1>6, <2>3, <2>4, <2>5, SameKeys, CommandMoves DEF DatabaseIInv
<1>10. CASE ~(strict /\ c \in existing)
  <2>1. InOrder(on)
    BY <1>2, <1>7, StillInOrder
  <2>2. \A d \in Kept :
           /\ Do("index", d) \in on.todo <=> Do("index", d) \in k.todo
           /\ Do("insert", d) \in on.todo <=> Do("insert", d) \in k.todo
           /\ Do("drop", d) \in on.todo <=> Do("drop", d) \in k.todo
           /\ Do("create", d) \in on.todo => Do("create", d) \in k.todo /\ d # c
    BY <1>3, <1>7, Without
  <2>3. HasRun(on) /\ HasIndexed(on)' /\ HasSeeded(on)'
    BY <1>3, <1>7, <2>2, KeptType DEF Holds, HasRun, HasIndexed, HasSeeded
  <2>4. HasReset(on)'
    BY <1>3, <1>7, <2>2 DEF Holds, HasReset, IsReset
  <2>5. Holds(on)'
    BY <2>1, <2>3, <2>4 DEF Holds, InOrder, HasRun
  <2>6. commands' = [commands EXCEPT ![h] = on]
    BY <1>8, <1>10
  <2>7. DatabaseTypeOK'
    BY <1>3, <1>7, <2>6 DEF DatabaseIInv, DatabaseTypeOK
  <2>8. QED
    BY <1>1, <1>3, <1>7, <2>5, <2>6, <2>7, SameKeys, CommandMoves DEF DatabaseIInv
<1>11. QED
  BY <1>9, <1>10

LEMMA CreateIndexesIInv ==
    ASSUME DatabaseIInv, NEW h \in Handler, CreateIndexes(h)
    PROVE  DatabaseIInv'
<1>1. Running(h)
  BY DEF CreateIndexes
<1>2. PICK k, n, c : Makes(h, k, n, c)
  BY <1>1, MakesNext
<1>3. /\ k = commands[h] /\ k \in Command /\ Holds(k) /\ n \in k.todo /\ c \in Kept
      /\ n = Do("index", c)
      /\ UNCHANGED <<strict, documents>>
  BY <1>2 DEF CreateIndexes, Makes
<1>4. \/ /\ c = "users" /\ Repeated
         /\ commands' = [commands EXCEPT ![h] = [k EXCEPT !.refused = TRUE]]
         /\ UNCHANGED <<existing, indexed, uniqueKeys>>
      \/ /\ ~(c = "users" /\ Repeated)
         /\ commands' = [commands EXCEPT ![h] = [k EXCEPT !.todo = @ \ {n}]]
         /\ existing' = existing \cup {c}
         /\ indexed' = indexed \cup {c}
         /\ uniqueKeys' = uniqueKeys \cup (IF c = "users" THEN {"email"} ELSE {})
  BY <1>2 DEF CreateIndexes, Makes, Refused, GoesOn
<1>5. n.do = "index" /\ Do("create", c) \notin k.todo
  BY <1>2, <1>3, UpFollows DEF Do
<1> DEFINE on == [k EXCEPT !.todo = @ \ {n}]
           off == [k EXCEPT !.refused = TRUE]
<1>6. /\ off \in Command /\ off.script = k.script /\ off.met = k.met /\ off.todo = k.todo
      /\ off.run = k.run
  BY <1>3 DEF Command
<1>7. /\ on \in Command /\ on.script = k.script /\ on.met = k.met /\ on.todo = k.todo \ {n}
      /\ on.run = k.run /\ on.refused = k.refused
  BY <1>3 DEF Command
<1>8. CASE /\ c = "users" /\ Repeated
           /\ commands' = [commands EXCEPT ![h] = off]
           /\ UNCHANGED <<existing, indexed, uniqueKeys>>
  <2> HIDE DEF on, off
  \* One that is by itself has dropped the users.
  <2>1. ~(k.script = "reset" /\ k.met = {})
    <3> SUFFICES ASSUME k.script = "reset", k.met = {} PROVE FALSE
      OBVIOUS
    <3>1. Do("insert", "users") \in k.todo /\ Do("drop", "users") \notin k.todo
      BY <1>2, <1>5, KeptType, Lengths, UpFollows DEF Seeding
    <3>2. documents["users"] = {}
      BY <1>3, <3>1, KeptType DEF Holds, HasReset, IsReset
    <3>3. QED
      BY <1>8, <3>2 DEF Repeated
  <2>2. InOrder(off) /\ HasRun(off) /\ HasIndexed(off)' /\ HasSeeded(off)' /\ HasReset(off)'
    BY <1>3, <1>6, <1>8, <2>1 DEF Holds, InOrder, HasRun, HasIndexed, HasSeeded, HasReset
  <2>3. Holds(off)'
    BY <2>2 DEF Holds, InOrder, HasRun
  <2>4. DatabaseTypeOK'
    BY <1>3, <1>6, <1>8 DEF DatabaseIInv, DatabaseTypeOK
  <2>5. QED
    BY <1>1, <1>3, <1>6, <1>8, <2>3, <2>4, SameKeys, CommandMoves DEF DatabaseIInv
<1>9. CASE /\ ~(c = "users" /\ Repeated)
           /\ commands' = [commands EXCEPT ![h] = on]
           /\ existing' = existing \cup {c}
           /\ indexed' = indexed \cup {c}
           /\ uniqueKeys' = uniqueKeys \cup (IF c = "users" THEN {"email"} ELSE {})
  <2> HIDE DEF on, off
  <2>1. InOrder(on)
    BY <1>2, <1>7, StillInOrder
  <2>2. \A d \in Kept :
           /\ Do("index", d) \in on.todo <=> Do("index", d) \in k.todo /\ d # c
           /\ Do("insert", d) \in on.todo <=> Do("insert", d) \in k.todo
           /\ Do("drop", d) \in on.todo <=> Do("drop", d) \in k.todo
           /\ Do("create", d) \in on.todo => Do("create", d) \in k.todo /\ d # c
    BY <1>3, <1>5, <1>7, Without
  <2>3. HasRun(on) /\ HasIndexed(on)' /\ HasSeeded(on)'
    BY <1>3, <1>7, <1>9, <2>2, KeptType DEF Holds, HasRun, HasIndexed, HasSeeded
  <2>4. HasReset(on)'
    BY <1>3, <1>7, <1>9, <2>2 DEF Holds, HasReset, IsReset
  <2>5. Holds(on)'
    BY <2>1, <2>3, <2>4 DEF Holds, InOrder, HasRun
  <2>6. DatabaseTypeOK'
    BY <1>3, <1>7, <1>9 DEF DatabaseIInv, DatabaseTypeOK
  <2>7. KeysHold'
    BY <1>3, <1>9 DEF DatabaseIInv, KeysHold, Repeated
  <2>8. QED
    BY <1>1, <1>3, <1>7, <1>9, <2>5, <2>6, <2>7, CommandMoves
<1>10. QED
  BY <1>4, <1>8, <1>9

LEMMA DropIInv ==
    ASSUME DatabaseIInv, NEW h \in Handler, Drop(h)
    PROVE  DatabaseIInv'
<1>1. Running(h)
  BY DEF Drop
<1>2. PICK k, n, c : Makes(h, k, n, c)
  BY <1>1, MakesNext
<1> DEFINE on == [k EXCEPT !.todo = @ \ {n}]
<1>3. /\ k = commands[h] /\ k \in Command /\ Holds(k) /\ n \in k.todo /\ c \in Kept
      /\ n = Do("drop", c)
      /\ existing' = existing \ {c}
      /\ indexed' = indexed \ {c}
      /\ uniqueKeys' = IF c = "users" THEN {} ELSE uniqueKeys
      /\ documents' = [documents EXCEPT ![c] = {}]
      /\ commands' = [commands EXCEPT ![h] = on]
      /\ UNCHANGED strict
  BY <1>2 DEF Drop, Makes, GoesOn
<1>4. Drops(k.script) /\ k.script \in Script
  BY <1>2, <1>3, DropIsFirst DEF Makes
<1>5. /\ on \in Command /\ on.script = k.script /\ on.met = k.met /\ on.todo = k.todo \ {n}
      /\ on.run = k.run /\ on.refused = k.refused
  BY <1>3 DEF Command
<1> HIDE DEF on
<1>6. k.script = "reset" => \A d \in Kept :
         /\ Do("create", d) \in on.todo /\ Do("index", d) \in on.todo
         /\ d \in Range(SeedOrder) => Do("insert", d) \in on.todo
  BY <1>2, <1>3, <1>5, DropIsFirst, Without
<1>7. k.script \in Migrating \/ k.script \in Seeding => k.script = "reset"
  BY <1>4 DEF Drops, Migrating, Seeding
<1>8. \A d \in Kept : documents'[d] = IF d = c THEN {} ELSE documents[d]
  BY <1>3 DEF DatabaseIInv, DatabaseTypeOK
<1>9. InOrder(on)
  BY <1>2, <1>5, StillInOrder
<1>10. HasRun(on)
  BY <1>5, <1>6, <1>7, KeptType, Lengths DEF HasRun
<1>11. HasIndexed(on)'
  BY <1>5, <1>6, <1>7 DEF HasIndexed
<1>12. HasSeeded(on)'
  BY <1>5, <1>6, <1>7, DemoIs DEF HasSeeded
<1>13. HasReset(on)'
  <2> SUFFICES ASSUME on.script = "reset", on.met = {} PROVE HasReset(on)'
    BY DEF HasReset
  <2>1. ~k.refused
    BY <1>3, <1>5 DEF Holds, HasReset
  <2>2. ASSUME NEW d \in Kept, Do("drop", d) \notin on.todo PROVE IsReset(on, d)'
    <3>1. CASE d = c
      <4>1. d \notin existing' /\ documents'[d] = {} /\ (d = "users" => uniqueKeys' = {})
        BY <1>3, <1>8, <3>1
      <4>2. d \notin Range(SeedOrder) => DemoOf(on.run)[d] = {}
        BY DemoIs
      <4>3. d \in Range(SeedOrder) => Do("insert", d) \in on.todo
        BY <1>5, <1>6
      <4>4. QED
        BY <4>1, <4>2, <4>3 DEF IsReset
    <3>2. CASE d # c
      <4>1. Do("drop", d) \notin k.todo
        BY <1>3, <1>5, <2>2, <3>2, Without
      <4>2. IsReset(k, d)
        BY <1>3, <1>5, <4>1 DEF Holds, HasReset
      <4>3. /\ Do("create", d) \in on.todo => Do("create", d) \in k.todo
            /\ Do("insert", d) \in on.todo <=> Do("insert", d) \in k.todo
        BY <1>3, <1>5, Without
      <4>4. QED
        BY <1>3, <1>5, <1>8, <3>2, <4>2, <4>3 DEF IsReset
    <3>3. QED
      BY <3>1, <3>2
  <2>3. QED
    BY <1>5, <2>1, <2>2 DEF HasReset
<1>14. Holds(on)'
  BY <1>9, <1>10, <1>11, <1>12, <1>13 DEF Holds, InOrder, HasRun
<1>15. DatabaseTypeOK'
  BY <1>3, <1>5 DEF DatabaseIInv, DatabaseTypeOK
<1>16. KeysHold'
  <2>1. c # "users" => documents'["users"] = documents["users"]
    BY <1>8, KeptType
  <2>2. QED
    BY <1>3, <2>1 DEF DatabaseIInv, KeysHold, Repeated
<1>17. QED
  BY <1>1, <1>3, <1>4, <1>5, <1>14, <1>15, <1>16, CommandMoves

LEMMA DropRejectedIInv ==
    ASSUME DatabaseIInv, NEW h \in Handler, DropRejected(h)
    PROVE  DatabaseIInv'
<1>1. Running(h)
  BY DEF DropRejected
<1>2. PICK k, n, c : Makes(h, k, n, c)
  BY <1>1, MakesNext
<1> DEFINE on == [[k EXCEPT !.met = @ \cup {"other"}] EXCEPT !.todo = @ \ {n}]
<1>3. /\ k = commands[h] /\ k \in Command /\ Holds(k) /\ n \in k.todo /\ c \in Kept
      /\ n = Do("drop", c)
      /\ commands' = [commands EXCEPT ![h] = on]
      /\ UNCHANGED <<strict, existing, indexed, uniqueKeys, documents>>
  BY <1>2 DEF DropRejected, Makes, GoesOn
<1>4. /\ on \in Command /\ on.script = k.script /\ on.met = k.met \cup {"other"}
      /\ on.todo = k.todo \ {n} /\ on.run = k.run
  BY <1>3 DEF Command
<1> HIDE DEF on
<1>5. InOrder(on)
  BY <1>2, <1>4, StillInOrder
<1>6. \A d \in Kept : /\ Do("index", d) \in on.todo <=> Do("index", d) \in k.todo
                      /\ Do("insert", d) \in on.todo <=> Do("insert", d) \in k.todo
  BY <1>3, <1>4, Without
<1>7. HasRun(on) /\ HasIndexed(on)' /\ HasSeeded(on)'
  BY <1>3, <1>4, <1>6, KeptType DEF Holds, HasRun, HasIndexed, HasSeeded
<1>8. HasReset(on)'
  BY <1>4 DEF HasReset
<1>9. Holds(on)'
  BY <1>5, <1>7, <1>8 DEF Holds, InOrder, HasRun
<1>10. DatabaseTypeOK'
  BY <1>3, <1>4 DEF DatabaseIInv, DatabaseTypeOK
<1>11. KeysHold'
  BY <1>3, SameKeys DEF DatabaseIInv
<1>12. QED
  BY <1>1, <1>3, <1>4, <1>9, <1>10, <1>11, CommandMoves

-----------------------------------------------------------------------------
(* The seed.                                                               *)

LEMMA InsertUsersIInv ==
    ASSUME DatabaseIInv, NEW h \in Handler, InsertUsers(h)
    PROVE  DatabaseIInv'
<1>1. Running(h) /\ NextCall(h) = Do("insert", "users")
  BY DEF InsertUsers, Do
<1>2. PICK k, n, c : Makes(h, k, n, c)
  BY <1>1, MakesNext
<1> DEFINE On(r) == [[k EXCEPT !.run = r] EXCEPT !.todo = @ \ {n}]
           Off(r) == [[k EXCEPT !.run = r] EXCEPT !.refused = TRUE]
<1>3. PICK r \in SeedRun :
      /\ documents' = [documents EXCEPT !["users"] = @ \cup UsersLetIn(r)]
      /\ commands' = [commands EXCEPT ![h] =
                         IF UsersLetIn(r) = DemoOf(r)["users"] THEN On(r) ELSE Off(r)]
  BY <1>2 DEF InsertUsers, UnusedRun, GoesOn, Refused, Makes
<1>4. /\ k = commands[h] /\ k \in Command /\ Holds(k) /\ n \in k.todo /\ c = "users"
      /\ n = Do("insert", c) /\ k.script \in Script
      /\ existing' = existing \cup {"users"}
      /\ UNCHANGED <<strict, indexed, uniqueKeys>>
  BY <1>1, <1>2 DEF InsertUsers, Makes, Do
<1>5. /\ k.script \in Seeding /\ "users" \in Kept
      /\ \A d \in Kept \cap Range(SeedOrder) : Do("insert", d) \in k.todo
      /\ \A d \in Kept : Do("drop", d) \notin k.todo /\ Do("create", d) \notin k.todo
  BY <1>2, <1>4, InsertIsLast, KeptType
<1>6. /\ documents'["users"] = documents["users"] \cup UsersLetIn(r)
      /\ \A d \in Kept : d # "users" => documents'[d] = documents[d]
      /\ \A d \in Kept : documents[d] \subseteq documents'[d]
  BY <1>3, <1>5 DEF DatabaseIInv, DatabaseTypeOK
<1>7. /\ UsersLetIn(r) \subseteq {r} \X Account
      /\ uniqueKeys # {} /\ documents["users"] # {} => UsersLetIn(r) = {}
      /\ "phone" \notin uniqueKeys /\ documents["users"] = {}
           => UsersLetIn(r) = DemoOf(r)["users"]
  BY UsersLetInAre
\* A reset that is by itself has emptied users.
<1>8. k.script = "reset" /\ k.met = {} =>
         documents["users"] = {} /\ UsersLetIn(r) = DemoOf(r)["users"]
  <2> HAVE k.script = "reset" /\ k.met = {}
  <2>1. IsReset(k, "users")
    BY <1>4, <1>5 DEF Holds, HasReset
  <2>2. documents["users"] = {} /\ "phone" \notin uniqueKeys
    BY <1>4, <2>1 DEF IsReset
  <2>3. QED
    BY <1>7, <2>2
<1>9. KeysHold'
  <2>1. ASSUME "email" \in uniqueKeys PROVE ~Repeated'
    <3>1. CASE documents["users"] # {}
      <4>1. documents'["users"] = documents["users"]
        BY <1>6, <1>7, <2>1, <3>1
      <4>2. QED
        BY <2>1, <4>1 DEF DatabaseIInv, KeysHold, Repeated
    <3>2. CASE documents["users"] = {}
      <4>1. documents'["users"] \subseteq {r} \X Account
        BY <1>6, <1>7, <3>2
      <4>2. QED
        BY <4>1, NotRepeated DEF Repeated
    <3>3. QED
      BY <3>1, <3>2
  <2>2. QED
    BY <1>4, <2>1 DEF DatabaseIInv, KeysHold
<1> PICK on, off : on = On(r) /\ off = Off(r)
  OBVIOUS
<1>10. /\ off \in Command /\ off.script = k.script /\ off.met = k.met /\ off.todo = k.todo
       /\ off.run = r
  BY <1>4 DEF Command
<1>11. /\ on \in Command /\ on.script = k.script /\ on.met = k.met /\ on.todo = k.todo \ {n}
       /\ on.run = r /\ on.refused = k.refused
  BY <1>4 DEF Command
<1> HIDE DEF On, Off
<1>12. PICK next :
          /\ commands' = [commands EXCEPT ![h] = next]
          /\ \/ UsersLetIn(r) = DemoOf(r)["users"] /\ next = on
             \/ UsersLetIn(r) # DemoOf(r)["users"] /\ next = off
  <2>1. CASE UsersLetIn(r) = DemoOf(r)["users"]
    <3>1. commands' = [commands EXCEPT ![h] = on]
      BY <1>3, <2>1
    <3>2. QED
      BY <2>1, <3>1
  <2>2. CASE UsersLetIn(r) # DemoOf(r)["users"]
    <3>1. commands' = [commands EXCEPT ![h] = off]
      BY <1>3, <2>2
    <3>2. QED
      BY <2>2, <3>1
  <2>3. QED
    BY <2>1, <2>2
<1>13. /\ next \in Command /\ next.script = k.script /\ next.met = k.met /\ next.run = r
  BY <1>10, <1>11, <1>12
<1>14. DatabaseTypeOK'
  <2>1. documents' \in [Kept -> SUBSET DemoDoc]
    BY <1>3, <1>7 DEF DatabaseIInv, DatabaseTypeOK, DemoDoc
  <2>2. commands' \in [Handler -> Command]
    BY <1>12, <1>13 DEF DatabaseIInv, DatabaseTypeOK
  <2>3. QED
    BY <1>4, <1>5, <2>1, <2>2 DEF DatabaseIInv, DatabaseTypeOK
\* What is seeded after the users is yet to come.
<1>15. \A d \in Kept : d # "users" /\ Do("insert", d) \notin k.todo => DemoOf(r)[d] = {}
  BY <1>5, DemoIs
<1>16. Holds(next)'
  <2>1. CASE UsersLetIn(r) = DemoOf(r)["users"] /\ next = on
    <3>1. InOrder(next)
      BY <1>2, <1>11, <2>1, StillInOrder
    <3>2. \A d \in Kept :
           /\ Do("index", d) \in next.todo <=> Do("index", d) \in k.todo
           /\ Do("insert", d) \in next.todo <=> Do("insert", d) \in k.todo /\ d # "users"
           /\ Do("drop", d) \in next.todo <=> Do("drop", d) \in k.todo
           /\ Do("create", d) \in next.todo <=> Do("create", d) \in k.todo
      BY <1>4, <1>11, <2>1, Without
    <3>3. HasRun(next) /\ HasIndexed(next)'
      BY <1>4, <1>13, <3>2 DEF Holds, HasRun, HasIndexed
    <3>4. HasSeeded(next)'
      <4>1. DemoOf(r)["users"] \subseteq documents'["users"]
        BY <1>6, <1>12, <2>1
      <4>2. QED
        BY <1>13, <1>15, <3>2, <4>1 DEF HasSeeded
    <3>5. HasReset(next)'
      <4> SUFFICES ASSUME next.script = "reset", next.met = {} PROVE HasReset(next)'
        BY DEF HasReset
      <4>1. ~next.refused
        BY <1>4, <1>11, <1>13, <2>1 DEF Holds, HasReset
      <4>2. ASSUME NEW d \in Kept PROVE IsReset(next, d)'
        <5>1. IsReset(k, d)
          BY <1>4, <1>5, <1>13 DEF Holds, HasReset
        <5>2. CASE d = "users"
          <6>1. documents'[d] = DemoOf(r)[d]
            BY <1>6, <1>8, <1>13, <5>2
          <6>2. QED
            BY <1>4, <1>5, <1>13, <3>2, <5>1, <5>2, <6>1 DEF IsReset
        <5>3. CASE d # "users"
          <6>1. Do("insert", d) \notin k.todo => documents[d] = {}
            <7>1. Do("insert", d) \notin k.todo => d \notin Range(SeedOrder)
              BY <1>5
            <7>2. QED
              BY <5>1, <7>1, DemoIs DEF IsReset
          <6>2. QED
            BY <1>4, <1>5, <1>6, <1>13, <1>15, <3>2, <5>1, <5>3, <6>1 DEF IsReset
        <5>4. QED
          BY <5>2, <5>3
      <4>3. QED
        BY <4>1, <4>2 DEF HasReset
    <3>6. QED
      BY <3>1, <3>3, <3>4, <3>5 DEF Holds, InOrder, HasRun
  <2>2. CASE UsersLetIn(r) # DemoOf(r)["users"] /\ next = off
    <3>1. InOrder(next) /\ HasRun(next) /\ HasIndexed(next)'
      BY <1>4, <1>10, <2>2 DEF Holds, InOrder, HasRun, HasIndexed
    <3>2. HasSeeded(next)'
      BY <1>4, <1>5, <1>10, <1>15, <2>2, KeptType DEF HasSeeded
    <3>3. HasReset(next)'
      BY <1>8, <1>12, <1>13, <2>2 DEF HasReset
    <3>4. QED
      BY <3>1, <3>2, <3>3 DEF Holds, InOrder, HasRun
  <2>3. QED
    BY <1>12, <2>1, <2>2
<1>17. indexed \subseteq indexed' /\ commands' = [commands EXCEPT ![h] = next]
  BY <1>4, <1>12
<1>18. QED
  BY <1>1, <1>4, <1>6, <1>9, <1>13, <1>14, <1>16, <1>17, CommandMoves

LEMMA InsertManyIInv ==
    ASSUME DatabaseIInv, NEW h \in Handler, InsertMany(h)
    PROVE  DatabaseIInv'
<1>1. Running(h)
  BY DEF InsertMany
<1>2. PICK k, n, c : Makes(h, k, n, c)
  BY <1>1, MakesNext
<1> DEFINE on == [k EXCEPT !.todo = @ \ {n}]
<1>3. /\ k = commands[h] /\ k \in Command /\ Holds(k) /\ n \in k.todo /\ c \in Kept
      /\ n = Do("insert", c) /\ c # "users"
      /\ documents' = [documents EXCEPT ![c] = @ \cup DemoOf(k.run)[c]]
      /\ existing' = existing \cup {c}
      /\ commands' = [commands EXCEPT ![h] = on]
      /\ UNCHANGED <<strict, indexed, uniqueKeys>>
  BY <1>2 DEF InsertMany, Makes, GoesOn
<1>4. /\ k.script \in Seeding /\ Do("insert", "users") \notin k.todo
      /\ \A d \in Kept : Do("drop", d) \notin k.todo /\ Do("create", d) \notin k.todo
  BY <1>2, <1>3, InsertIsLast
<1>5. k.run \in SeedRun
  BY <1>3, <1>4 DEF Holds, HasRun
<1>6. /\ on \in Command /\ on.script = k.script /\ on.met = k.met /\ on.todo = k.todo \ {n}
      /\ on.run = k.run /\ on.refused = k.refused
  BY <1>3 DEF Command
<1> HIDE DEF on
<1>7. \A d \in Kept :
         /\ Do("index", d) \in on.todo <=> Do("index", d) \in k.todo
         /\ Do("insert", d) \in on.todo <=> Do("insert", d) \in k.todo /\ d # c
         /\ Do("drop", d) \in on.todo <=> Do("drop", d) \in k.todo
         /\ Do("create", d) \in on.todo <=> Do("create", d) \in k.todo
  BY <1>3, <1>6, Without
<1>8. \A d \in Kept :
         documents'[d] = IF d = c THEN documents[d] \cup DemoOf(k.run)[d] ELSE documents[d]
  BY <1>3 DEF DatabaseIInv, DatabaseTypeOK
<1>9. InOrder(on)
  BY <1>2, <1>6, StillInOrder
<1>10. HasRun(on) /\ HasIndexed(on)'
  BY <1>3, <1>5, <1>6, <1>7 DEF Holds, HasRun, HasIndexed
<1>11. HasSeeded(on)'
  BY <1>3, <1>6, <1>7, <1>8 DEF Holds, HasSeeded
<1>12. HasReset(on)'
  <2> SUFFICES ASSUME on.script = "reset", on.met = {} PROVE HasReset(on)'
    BY DEF HasReset
  <2>1. ~on.refused
    BY <1>3, <1>6 DEF Holds, HasReset
  <2>2. ASSUME NEW d \in Kept PROVE IsReset(on, d)'
    <3>1. IsReset(k, d)
      BY <1>3, <1>4, <1>6 DEF Holds, HasReset
    <3>2. QED
      BY <1>3, <1>4, <1>6, <1>7, <1>8, <3>1 DEF IsReset
  <2>3. QED
    BY <2>1, <2>2 DEF HasReset
<1>13. Holds(on)'
  BY <1>9, <1>10, <1>11, <1>12 DEF Holds, InOrder, HasRun
<1>14. DatabaseTypeOK'
  <2>1. DemoOf(k.run)[c] \subseteq DemoDoc
    BY <1>3, <1>5, DemoIs DEF DemoDoc
  <2>2. documents' \in [Kept -> SUBSET DemoDoc]
    BY <1>3, <2>1 DEF DatabaseIInv, DatabaseTypeOK
  <2>3. QED
    BY <1>3, <1>6, <2>2 DEF DatabaseIInv, DatabaseTypeOK
<1>15. KeysHold'
  <2>1. documents'["users"] = documents["users"]
    BY <1>3, <1>8, KeptType
  <2>2. QED
    BY <1>3, <2>1 DEF DatabaseIInv, KeysHold, Repeated
<1>16. indexed \subseteq indexed' /\ \A d \in Kept : documents[d] \subseteq documents'[d]
  BY <1>3, <1>8
<1>17. QED
  BY <1>1, <1>3, <1>6, <1>16, <1>13, <1>14, <1>15, CommandMoves

-----------------------------------------------------------------------------
(* Commands start and break off; services start.                           *)

\* A command that met another is no longer held to what it would do by itself.
LEMMA MetMore ==
    ASSUME NEW k \in Command, Holds(k), NEW kind \in {"drop", "other"},
           NEW next, next = [k EXCEPT !.met = @ \cup {kind}],
           indexed' = indexed, documents' = documents
    PROVE  next \in Command /\ Holds(next)'
<1>1. /\ next \in Command /\ next.script = k.script /\ next.met = k.met \cup {kind}
      /\ next.todo = k.todo /\ next.run = k.run
  BY DEF Command
<1>2. InOrder(next) /\ HasRun(next) /\ HasIndexed(next)' /\ HasSeeded(next)' /\ HasReset(next)'
  BY <1>1 DEF Holds, InOrder, HasRun, HasIndexed, HasSeeded, HasReset
<1>3. QED
  BY <1>1, <1>2 DEF Holds, InOrder, HasRun

LEMMA RunScriptIInv ==
    ASSUME DatabaseIInv, NEW h \in Handler, NEW script \in Script, RunScript(h, script)
    PROVE  DatabaseIInv'
<1> DEFINE others == {g \in Handler \ {h} : Running(g)}
           seen == {IF Drops(commands[g].script) THEN "drop" ELSE "other" : g \in others}
           shown == IF Drops(script) THEN "drop" ELSE "other"
<1> PICK begun : begun = [NoCommand EXCEPT !.script = script, !.todo = CallsOf(script),
                                           !.met = seen]
  OBVIOUS
<1>1. /\ commands' = [g \in Handler |->
            IF g = h THEN begun
            ELSE IF g \in others THEN [commands[g] EXCEPT !.met = @ \cup {shown}]
            ELSE NoCommand]
      /\ UNCHANGED <<strict, existing, indexed, uniqueKeys, documents>>
  BY DEF RunScript
<1>2. /\ begun.script = script /\ begun.todo = CallsOf(script) /\ begun.met = seen
      /\ begun.refused = FALSE /\ begun.run = None /\ begun \in Command
  BY Scripts DEF NoCommand, Command
<1>3. script # None
  BY ScriptNotNone
<1>4. Holds(begun)'
  <2>1. InOrder(begun)
    BY <1>2, <1>3 DEF InOrder
  <2>2. HasRun(begun)
    BY <1>2, KeptType, Lengths, CallsAre, Scripts DEF HasRun
  <2>3. HasIndexed(begun)'
    BY <1>2, CallsAre, Scripts DEF HasIndexed
  <2>4. HasSeeded(begun)'
    <3>1. ASSUME script \in Seeding, NEW c \in Kept, Do("insert", c) \notin CallsOf(script)
          PROVE  DemoOf(None)[c] = {}
      BY <3>1, CallsAre, Scripts, DemoIs
    <3>2. QED
      BY <1>2, <3>1 DEF HasSeeded
  <2>5. HasReset(begun)'
    <3>1. Drops("reset") /\ (script = "reset" => \A c \in Kept : Do("drop", c) \in CallsOf(script))
      BY CallsAre, Scripts DEF Drops
    <3>2. QED
      BY <1>2, <3>1 DEF HasReset
  <2>6. QED
    BY <2>1, <2>2, <2>3, <2>4, <2>5 DEF Holds, InOrder, HasRun
<1>5. ASSUME NEW g \in Handler
      PROVE  /\ commands'[g] \in Command /\ HoldsAt(g)'
             /\ g = h => commands'[g] = begun
             /\ g \in others => /\ commands'[g].script = commands[g].script
                                /\ commands'[g].met = commands[g].met \cup {shown}
             /\ g # h /\ g \notin others =>
                   commands'[g].script = None /\ commands'[g].todo = {}
  <2>1. CASE g = h
    <3>1. commands'[g] = begun
      BY <1>1, <2>1
    <3>2. QED
      BY <1>2, <1>4, <2>1, <3>1, HeldNext
  <2>2. CASE g \in others
    <3>1. PICK k : k = commands[g] /\ k \in Command /\ Holds(k)
      BY HeldNow DEF DatabaseIInv, DatabaseTypeOK
    <3>2. commands'[g] = [commands[g] EXCEPT !.met = @ \cup {shown}]
      BY <1>1, <2>2
    <3>3. /\ commands'[g].script = commands[g].script
          /\ commands'[g].met = commands[g].met \cup {shown}
      BY <3>1, <3>2 DEF Command
    <3>4. commands'[g] \in Command /\ HoldsAt(g)'
      <4>1. PICK next : next = commands'[g]
        OBVIOUS
      <4>2. next = [k EXCEPT !.met = @ \cup {shown}] /\ shown \in {"drop", "other"}
        BY <3>1, <3>2, <4>1
      <4>3. indexed' = indexed /\ documents' = documents
        BY <1>1
      <4>4. next \in Command /\ Holds(next)'
        <5> HIDE DEF shown
        <5>1. QED
          BY <3>1, <4>2, <4>3, MetMore
      <4>5. QED
        BY <4>1, <4>4, HeldNext
    <3>5. QED
      BY <2>2, <3>3, <3>4
  <2>3. CASE g # h /\ g \notin others
    <3>1. commands'[g] = NoCommand
      BY <1>1, <2>3
    <3>2. Holds(NoCommand)'
      BY <1>1, NoCommandHolds, SameData
    <3>3. HoldsAt(g)'
      BY <3>1, <3>2, HeldNext
    <3>4. QED
      BY <2>3, <3>1, <3>3, NoCommandHolds DEF NoCommand
  <2>4. QED
    BY <2>1, <2>2, <2>3
<1>6. Meets'
  <2> SUFFICES ASSUME NEW g \in Handler, NEW f \in Handler, g # f, Running(f)',
                      commands'[g].script # None
               PROVE  /\ commands'[g].met # {}
                      /\ Drops(commands'[f].script) => "drop" \in commands'[g].met
    BY DEF Meets
  <2>1. f = h \/ f \in others
    BY <1>5 DEF Running
  <2>2. g = h \/ g \in others
    BY <1>5
  <2>3. CASE f = h
    BY <1>2, <1>5, <2>2, <2>3
  <2>4. CASE f \in others /\ g = h
    <3>1. (IF Drops(commands[f].script) THEN "drop" ELSE "other") \in seen
      BY <2>4
    <3>2. commands'[g].met = seen /\ commands'[f].script = commands[f].script
      BY <1>2, <1>5, <2>4
    <3>3. QED
      BY <3>1, <3>2
  <2>5. CASE f \in others /\ g \in others
    <3>1. commands[g].script # None /\ Running(f)
      BY <1>5, <2>5
    <3>2. /\ commands[g].met # {}
          /\ Drops(commands[f].script) => "drop" \in commands[g].met
      BY <3>1 DEF DatabaseIInv, Meets
    <3>3. QED
      BY <1>5, <2>5, <3>2
  <2>6. QED
    BY <2>1, <2>2, <2>3, <2>4, <2>5
<1>7. KeysHold'
  BY <1>1, SameKeys DEF DatabaseIInv
<1>8. DatabaseTypeOK'
  <2>1. commands' \in [Handler -> Command]
    BY <1>1, <1>5
  <2>2. QED
    BY <1>1, <2>1 DEF DatabaseIInv, DatabaseTypeOK
<1>9. QED
  BY <1>5, <1>6, <1>7, <1>8 DEF DatabaseIInv

LEMMA BreakIInv ==
    ASSUME DatabaseIInv, NEW h \in Handler, Break(h)
    PROVE  DatabaseIInv'
<1>1. /\ commands' = [commands EXCEPT ![h] = NoCommand]
      /\ UNCHANGED <<strict, existing, indexed, uniqueKeys, documents>>
  BY DEF Break
<1>2. commands'[h] = NoCommand /\ \A g \in Handler \ {h} : commands'[g] = commands[g]
  BY <1>1 DEF DatabaseIInv, DatabaseTypeOK
<1>3. ASSUME NEW g \in Handler PROVE HoldsAt(g)'
  <2>1. PICK k : k = commands[g] /\ Holds(k)
    BY HeldNow DEF DatabaseIInv
  <2>2. Holds(k)' /\ Holds(NoCommand)'
    BY <1>1, <2>1, NoCommandHolds, SameData
  <2>3. commands'[g] = k \/ commands'[g] = NoCommand
    BY <1>2, <2>1
  <2>4. QED
    BY <2>2, <2>3, HeldNext
<1>4. Meets'
  <2>1. \A g \in Handler : /\ Running(g)' => Running(g) /\ g # h
                           /\ commands'[g].script # None => g # h
    BY <1>2, NoCommandHolds DEF Running, NoCommand
  <2>2. QED
    BY <1>2, <2>1 DEF DatabaseIInv, Meets
<1>5. DatabaseTypeOK'
  BY <1>1, NoCommandHolds DEF DatabaseIInv, DatabaseTypeOK
<1>6. QED
  BY <1>1, <1>3, <1>4, <1>5, SameKeys DEF DatabaseIInv

LEMMA StartServiceIInv ==
    ASSUME DatabaseIInv, NEW c \in Kept, StartService(c)
    PROVE  DatabaseIInv'
<1>1. /\ existing' = existing \cup {c}
      /\ uniqueKeys \subseteq uniqueKeys' /\ uniqueKeys' \subseteq {"email", "phone"}
      /\ "email" \in uniqueKeys' => "email" \in uniqueKeys \/ ~Repeated
      /\ commands' = [h \in Handler |->
            IF Running(h) THEN [commands[h] EXCEPT !.met = @ \cup {"other"}]
                          ELSE NoCommand]
      /\ UNCHANGED <<strict, indexed, documents>>
  BY DEF StartService, DatabaseIInv, DatabaseTypeOK
<1>2. ASSUME NEW g \in Handler
      PROVE  /\ commands'[g] \in Command /\ HoldsAt(g)'
             /\ Running(g) => /\ commands'[g].script = commands[g].script
                              /\ commands'[g].met = commands[g].met \cup {"other"}
             /\ ~Running(g) => commands'[g].script = None /\ commands'[g].todo = {}
  <2>1. CASE Running(g)
    <3>1. PICK k, next : k = commands[g] /\ k \in Command /\ Holds(k) /\ next = commands'[g]
      BY HeldNow DEF DatabaseIInv, DatabaseTypeOK
    <3>2. next = [k EXCEPT !.met = @ \cup {"other"}]
      BY <1>1, <2>1, <3>1
    <3>3. next.script = k.script /\ next.met = k.met \cup {"other"}
      BY <3>1, <3>2 DEF Command
    <3>4. next \in Command /\ Holds(next)'
      BY <1>1, <3>1, <3>2, MetMore
    <3>5. HoldsAt(g)'
      BY <3>1, <3>4, HeldNext
    <3>6. QED
      BY <2>1, <3>1, <3>3, <3>4, <3>5
  <2>2. CASE ~Running(g)
    <3>1. commands'[g] = NoCommand
      BY <1>1, <2>2
    <3>2. Holds(NoCommand)'
      BY ScriptNotNone
      DEF Holds, InOrder, HasRun, HasIndexed, HasSeeded, HasReset, NoCommand
    <3>3. HoldsAt(g)'
      BY <3>1, <3>2, HeldNext
    <3>4. QED
      BY <2>2, <3>1, <3>3, NoCommandHolds DEF NoCommand
  <2>3. QED
    BY <2>1, <2>2
<1>3. Meets'
  <2> SUFFICES ASSUME NEW g \in Handler, NEW f \in Handler, g # f, Running(f)',
                      commands'[g].script # None
               PROVE  /\ commands'[g].met # {}
                      /\ Drops(commands'[f].script) => "drop" \in commands'[g].met
    BY DEF Meets
  <2>1. Running(f) /\ Running(g)
    BY <1>2 DEF Running
  <2>2. commands[g].script # None
    BY <1>2, <2>1
  <2>3. /\ commands[g].met # {}
        /\ Drops(commands[f].script) => "drop" \in commands[g].met
    BY <2>1, <2>2 DEF DatabaseIInv, Meets
  <2>4. QED
    BY <1>2, <2>1, <2>3
<1>4. KeysHold'
  BY <1>1 DEF DatabaseIInv, KeysHold, Repeated
<1>5. DatabaseTypeOK'
  <2>1. commands' \in [Handler -> Command]
    BY <1>1, <1>2
  <2>2. QED
    BY <1>1, <2>1 DEF DatabaseIInv, DatabaseTypeOK
<1>6. QED
  BY <1>2, <1>3, <1>4, <1>5 DEF DatabaseIInv

-----------------------------------------------------------------------------
(* The theorems.                                                           *)

LEMMA DatabaseInitIInv == ASSUME DatabaseInit PROVE DatabaseIInv
<1>1. \A h \in Handler : commands[h] = NoCommand
  BY DEF DatabaseInit
<1>2. DatabaseTypeOK
  BY NoCommandHolds DEF DatabaseInit, DatabaseTypeOK
<1>3. Meets
  BY <1>1, NoCommandHolds DEF Meets
<1>4. KeysHold
  BY DEF DatabaseInit, KeysHold
<1>5. QED
  BY <1>1, <1>2, <1>3, <1>4, NoCommandHolds DEF DatabaseIInv, HoldsAt

LEMMA DatabaseStepIInv ==
    ASSUME DatabaseIInv, [DatabaseNext]_databaseVars PROVE DatabaseIInv'
<1>1. ASSUME NEW h \in Handler, CommandStep(h) PROVE DatabaseIInv'
  BY <1>1, RunScriptIInv, CreateCollectionIInv, CreateIndexesIInv, DropIInv,
     DropRejectedIInv, InsertUsersIInv, InsertManyIInv, BreakIInv DEF CommandStep
<1>2. ASSUME NEW c \in Kept, StartService(c) PROVE DatabaseIInv'
  BY <1>2, StartServiceIInv
<1>3. CASE UNCHANGED databaseVars
  <2>1. UNCHANGED <<strict, existing, indexed, uniqueKeys, documents, commands>>
    BY <1>3 DEF databaseVars
  <2>2. ASSUME NEW h \in Handler PROVE HoldsAt(h)'
    <3>1. PICK k : k = commands[h] /\ Holds(k)
      BY HeldNow DEF DatabaseIInv
    <3>2. Holds(k)'
      BY <2>1, <3>1, SameData
    <3>3. QED
      BY <2>1, <3>1, <3>2, HeldNext
  <2>3. DatabaseTypeOK' /\ Meets'
    BY <2>1 DEF DatabaseIInv, DatabaseTypeOK, Meets, Running
  <2>4. QED
    BY <2>1, <2>2, <2>3, SameKeys DEF DatabaseIInv
<1>4. QED
  BY <1>1, <1>2, <1>3 DEF DatabaseNext

LEMMA DatabaseIInvHolds == DatabaseSpec => []DatabaseIInv
<1>1. DatabaseInit => DatabaseIInv
  BY DatabaseInitIInv
<1>2. DatabaseIInv /\ [DatabaseNext]_databaseVars => DatabaseIInv'
  BY DatabaseStepIInv
<1>3. QED
  BY <1>1, <1>2, PTL DEF DatabaseSpec

\* Type correctness, with that only a collection that is there has indexes.
THEOREM DatabaseTypeCorrect == DatabaseSpec => []DatabaseTypeOK
<1>1. DatabaseIInv => DatabaseTypeOK
  BY DEF DatabaseIInv
<1>2. QED
  BY <1>1, DatabaseIInvHolds, PTL

\* What a set-up command reports is so, for any number of commands that
\* overlap, break off and are started again, and services that start
\* (migrations/001_initial_schema.js, seeds/001_demo_data.js).
THEOREM SetUpIsAsReported == DatabaseSpec => []SetUpAsReported
<1>1. ASSUME DatabaseIInv, NEW h \in Handler
      PROVE  WorkIsDone(h) /\ ResetRepairs(h)
  <2>1. PICK k : k = commands[h] /\ Holds(k)
    BY <1>1, HeldNow DEF DatabaseIInv
  <2>2. WorkIsDone(h)
    <3> SUFFICES ASSUME k.script # None, k.todo = {}, "drop" \notin k.met
                 PROVE  /\ k.script \in Migrating => Migrated
                        /\ k.script \in Seeding =>
                              \A c \in Kept : DemoOf(k.run)[c] \subseteq documents[c]
      BY <2>1 DEF WorkIsDone, Succeeded, Migrating, Seeding
    <3>1. k.script \in Migrating => Migrated
      <4> HAVE k.script \in Migrating
      <4>1. indexed = Kept
        BY <1>1, <2>1 DEF DatabaseIInv, DatabaseTypeOK, Holds, HasIndexed
      <4>2. ~Repeated
        BY <1>1, <4>1, KeptType DEF DatabaseIInv, KeysHold
      <4>3. QED
        BY <4>1, <4>2 DEF Migrated
    <3>2. QED
      BY <2>1, <3>1 DEF Holds, HasSeeded
  <2>3. ResetRepairs(h)
    <3> SUFFICES ASSUME k.script = "reset", k.met = {}
                 PROVE  ~k.refused /\ (k.todo = {} => documents = DemoOf(k.run))
      BY <2>1 DEF ResetRepairs
    <3>1. ~k.refused
      BY <2>1 DEF Holds, HasReset
    <3>2. ASSUME k.todo = {} PROVE documents = DemoOf(k.run)
      <4>1. \A c \in Kept : documents[c] = DemoOf(k.run)[c]
        BY <2>1, <3>2 DEF Holds, HasReset, IsReset
      <4>2. documents = [c \in Kept |-> documents[c]]
        BY <1>1 DEF DatabaseIInv, DatabaseTypeOK
      <4>3. DemoOf(k.run) = [c \in Kept |-> DemoOf(k.run)[c]]
        BY DEF DemoOf
      <4>4. QED
        BY <4>1, <4>2, <4>3
    <3>3. QED
      BY <3>1, <3>2
  <2>4. QED
    BY <2>2, <2>3
<1>2. DatabaseIInv => SetUpAsReported
  BY <1>1 DEF SetUpAsReported
<1>3. QED
  BY <1>2, DatabaseIInvHolds, PTL

-----------------------------------------------------------------------------
(***************************************************************************)
(* One service at a time, as TLC runs them.                                *)
(***************************************************************************)

\* Each component's invariant, of the service that runs.
ServicesIInv ==
    /\ service = "accounts" => AccountsIInv
    /\ service = "notifications" => NotificationsTyped
    /\ service = "risk" => RiskIInv
    /\ service = "push" => TabsIInv
    /\ service = "market" => MarketIInv
    /\ service = "strategies" => StrategiesIInv
    /\ service = "database" => DatabaseIInv

LEMMA ServicesInitIInv == ASSUME MCInit PROVE ServicesIInv
<1>1. AccountsIInv
  BY AccountsInitIInv DEF MCInit
<1>2. NotificationsTyped
  BY NotificationsInitTyped DEF MCInit
<1>3. RiskIInv
  BY RiskInitIInv DEF MCInit
<1>4. TabsIInv
  BY TabsInitIInv DEF MCInit
<1>5. MarketIInv
  BY MarketInitIInv DEF MCInit
<1>6. StrategiesIInv
  BY StrategiesInitIInv DEF MCInit
<1>7. DatabaseIInv
  BY DatabaseInitIInv DEF MCInit
<1>8. QED
  BY <1>1, <1>2, <1>3, <1>4, <1>5, <1>6, <1>7 DEF ServicesIInv

LEMMA ServicesStepIInv ==
    ASSUME ServicesIInv, [MCNext]_MCVars PROVE ServicesIInv'
<1>1. service' = service
  BY DEF MCNext, MCVars
<1>2. ASSUME service = "accounts" PROVE AccountsIInv'
  <2>1. [AccountsNext]_accountsVars
    BY <1>2 DEF MCNext, MCVars
  <2>2. QED
    BY <1>2, <2>1, AccountsNextIInv DEF ServicesIInv
<1>3. ASSUME service = "notifications" PROVE NotificationsTyped'
  <2>1. [NotificationsNext]_notificationsVars
    BY <1>3 DEF MCNext, MCVars
  <2>2. QED
    BY <1>3, <2>1, NotificationsStepTyped DEF ServicesIInv
<1>4. ASSUME service = "risk" PROVE RiskIInv'
  <2>1. [RiskNext]_riskVars
    BY <1>4 DEF MCNext, MCVars
  <2>2. QED
    BY <1>4, <2>1, RiskNextIInv DEF ServicesIInv
<1>5. ASSUME service = "push" PROVE TabsIInv'
  <2>1. [PushNext]_pushVars
    BY <1>5 DEF MCNext, MCVars
  <2>2. QED
    BY <1>5, <2>1, TabsStepIInv DEF ServicesIInv
<1>6. ASSUME service = "market" PROVE MarketIInv'
  <2>1. [MarketNext]_marketVars
    BY <1>6 DEF MCNext, MCVars
  <2>2. QED
    BY <1>6, <2>1, MarketNextIInv DEF ServicesIInv
<1>7. ASSUME service = "strategies" PROVE StrategiesIInv'
  <2>1. [StrategiesNext]_strategiesVars
    BY <1>7 DEF MCNext, MCVars
  <2>2. QED
    BY <1>7, <2>1, StrategiesNextIInv DEF ServicesIInv
<1>8. ASSUME service = "database" PROVE DatabaseIInv'
  <2>1. [DatabaseNext]_databaseVars
    BY <1>8 DEF MCNext, MCVars
  <2>2. QED
    BY <1>8, <2>1, DatabaseStepIInv DEF ServicesIInv
<1>9. QED
  BY <1>1, <1>2, <1>3, <1>4, <1>5, <1>6, <1>7, <1>8 DEF ServicesIInv

\* Each service's documents, and what its requests carry, keep their types, in
\* the run that takes one service at a time as for each service by itself.
THEOREM ServicesTypeCorrect == MCSpec => []ServicesTypeOK
<1>1. MCInit => ServicesIInv
  BY ServicesInitIInv
<1>2. ServicesIInv /\ [MCNext]_MCVars => ServicesIInv'
  BY ServicesStepIInv
<1>3. ServicesIInv => ServicesTypeOK
  BY DEF ServicesIInv, ServicesTypeOK, AccountsIInv, NotificationsTyped, RiskIInv,
         TabsIInv, MarketIInv, StrategiesIInv, DatabaseIInv
<1>4. QED
  BY <1>1, <1>2, <1>3, PTL DEF MCSpec
=============================================================================
