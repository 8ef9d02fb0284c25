------------------------------ MODULE Accounts ------------------------------
(***************************************************************************)
(* Users and authentication (UsersService, AuthService): registration,     *)
(* log-in with or without a second factor, the refresh token that keeps a  *)
(* session going, setting up and removing the second factor, API keys.     *)
(*                                                                         *)
(* An action is the code up to and including its next database call; a     *)
(* request of one call is one action and needs no handler.  The unique     *)
(* indexes on email, phone and apiKeys.key are MongoDB's: a user without   *)
(* API keys has the entry None in the last one, like every other such user.*)
(*                                                                         *)
(* Abstractions: the profile, roles and the expiry of tokens are left out; *)
(* a code of the authenticator app is the secret it is computed from; a    *)
(* request that is refused before its first write is a disabled action.    *)
(***************************************************************************)
EXTENDS Service

CONSTANTS
    UserId,    \* the ids of the users collection
    Email,     \* the email addresses users register with
    Phone,     \* and their phone numbers
    Password,  \* and their passwords
    Session,   \* the refresh tokens of log-ins
    Secret,    \* the secrets of the second factor
    ApiKey     \* the API keys

UserDoc == [email : Email, phone : Phone, password : Password,
            enabled : BOOLEAN,              \* twoFactorAuth.enabled
            secret : Secret \cup {None},    \* twoFactorAuth.secret
            apiKeys : SUBSET ApiKey,
            devices : SUBSET Session,       \* the log-ins recorded
            refreshToken : Session \cup {None}]

ASSUME AccountsAssumption ==
    {None, Deleted} \cap (UserDoc \cup UserId \cup Session \cup Secret
                            \cup ApiKey \cup Email \cup Phone) = {}

VARIABLES
    users,    \* the users collection
    requests  \* where each request is and what it has read

accountsVars == <<users, requests>>

RequestStage == {"idle", "insert", "verify", "enable", "device", "token",
                 "setSecret", "clear"}

RequestState ==
    [at : RequestStage,                   \* the database call it makes next
     user : UserId \cup {None},
     email : Email \cup {None},
     phone : Phone \cup {None},
     password : Password \cup {None},
     code : Secret \cup {None},           \* what the user typed
     session : Session \cup {None}]       \* a log-in and the token it will get

NoRequest == [at |-> "idle", user |-> None, email |-> None, phone |-> None,
              password |-> None, code |-> None, session |-> None]

AccountsTypeOK ==
    /\ users \in [UserId -> UserDoc \cup {None, Deleted}]
    /\ requests \in [Handler -> RequestState]

AccountsInit ==
    /\ users = [u \in UserId |-> None]
    /\ requests = [h \in Handler |-> NoRequest]

User == StoredIn(users)

RequestGoes(h, state) == requests' = [requests EXCEPT ![h] = state]

\* findByIdAndUpdate of a user that was removed changes nothing.
UpdateById(u, doc) ==
    users' = IF u \in User THEN [users EXCEPT ![u] = doc] ELSE users

-----------------------------------------------------------------------------
(* The collection and its indexes                                          *)

KeyEntries(doc) == IF doc.apiKeys = {} THEN {None} ELSE doc.apiKeys

\* A unique index refuses doc as the document of u.
Clash(u, doc) ==
    \E v \in User \ {u} :
        \/ users[v].email = doc.email
        \/ users[v].phone = doc.phone
        \/ KeyEntries(users[v]) \cap KeyEntries(doc) # {}

InUse(email, phone) ==
    \E u \in User : users[u].email = email \/ users[u].phone = phone

NewUser(email, phone, password) ==
    [email |-> email, phone |-> phone, password |-> password,
     enabled |-> FALSE, secret |-> None, apiKeys |-> {}, devices |-> {},
     refreshToken |-> None]

-----------------------------------------------------------------------------
(* Registration and the user's own data                                    *)

\* create looks for the email and the phone; with neither in use it hashes
\* the password and goes on to save.
FindToCreate(h, email, phone, password) ==
    /\ requests[h].at = "idle"
    /\ ~InUse(email, phone)
    /\ RequestGoes(h, [NoRequest EXCEPT !.at = "insert", !.email = email,
                                        !.phone = phone, !.password = password])
    /\ UNCHANGED users

\* An index refuses a user, or the user is stored.
InsertUser(h) ==
    LET r == requests[h]
        doc == NewUser(r.email, r.phone, r.password)
    IN  /\ r.at = "insert"
        /\ \E u \in UnusedIn(users) :
              users' = IF Clash(u, doc) THEN users
                                        ELSE [users EXCEPT ![u] = doc]
        /\ RequestGoes(h, NoRequest)

\* update, of the email and the phone.
UpdateUser(u, email, phone) ==
    LET doc == [users[u] EXCEPT !.email = email, !.phone = phone]
    IN  /\ u \in User
        /\ ~Clash(u, doc)
        /\ users' = [users EXCEPT ![u] = doc]
        /\ UNCHANGED requests

\* updatePassword, and update of the password.
UpdatePassword(u, password) ==
    /\ u \in User
    /\ users' = [users EXCEPT ![u].password = password]
    /\ UNCHANGED requests

\* remove.
RemoveUser(u) ==
    /\ u \in User
    /\ users' = [users EXCEPT ![u] = Deleted]
    /\ UNCHANGED requests

-----------------------------------------------------------------------------
(* Log-in                                                                  *)

\* login finds the user by email and compares the password (validateUser);
\* with a second factor it goes on to verify the code, else to the device.
Login(h, u, password, code, session) ==
    /\ requests[h].at = "idle"
    /\ u \in User
    /\ users[u].password = password
    /\ RequestGoes(h, [NoRequest EXCEPT
            !.at = IF users[u].enabled THEN "verify" ELSE "device",
            !.user = u, !.code = code, !.session = session])
    /\ UNCHANGED users

\* verify2FA within login reads the user again; without a secret, or with
\* another one, the log-in is refused.
VerifyInLogin(h) ==
    LET u == requests[h].user
    IN  /\ requests[h].at = "verify"
        /\ IF u \in User /\ users[u].secret # None
                         /\ users[u].secret = requests[h].code
           THEN RequestGoes(h, [requests[h] EXCEPT !.at = "enable"])
           ELSE RequestGoes(h, NoRequest)
        /\ UNCHANGED users

\* Slip: the token is stored first, and the device with it forgotten.
RecordTokenOnly(h) ==
    LET u == requests[h].user
    IN  /\ requests[h].at = "device"
        /\ UpdateById(u, [users[u] EXCEPT !.refreshToken = requests[h].session])
        /\ RequestGoes(h, [requests[h] EXCEPT !.at = "token"])

\* updateLastLogin pushes the device ...
RecordDevice(h) ==
    LET u == requests[h].user
    IN  /\ requests[h].at = "device"
        /\ UpdateById(u, [users[u] EXCEPT
                            !.devices = @ \cup {requests[h].session}])
        /\ RequestGoes(h, [requests[h] EXCEPT !.at = "token"])

\* ... and updateRefreshToken stores the token of this log-in, in place of
\* that of any other.
StoreRefreshToken(h) ==
    LET u == requests[h].user
    IN  /\ requests[h].at = "token"
        /\ UpdateById(u, [users[u] EXCEPT !.refreshToken = requests[h].session])
        /\ RequestGoes(h, NoRequest)

\* logout.
Logout(u) ==
    /\ u \in User
    /\ users' = [users EXCEPT ![u].refreshToken = None]
    /\ UNCHANGED requests

\* refreshToken gives a new access token to the session whose token is stored.
Refreshes(u, session) == u \in User /\ users[u].refreshToken = session

-----------------------------------------------------------------------------
(* The second factor                                                       *)

\* enable2FA reads the user ...
ReadToEnable2FA(h, u) ==
    /\ requests[h].at = "idle"
    /\ u \in User
    /\ RequestGoes(h, [NoRequest EXCEPT !.at = "setSecret", !.user = u])
    /\ UNCHANGED users

\* ... and stores a new secret, to be verified before it is enabled.
SetSecret(h) ==
    LET u == requests[h].user
    IN  /\ requests[h].at = "setSecret"
        /\ \E secret \in Secret : UpdateById(u, [users[u] EXCEPT !.secret = secret])
        /\ RequestGoes(h, NoRequest)

\* verify2FA: the code must be of the secret that is stored ...
ReadToVerify2FA(h, u, code) ==
    /\ requests[h].at = "idle"
    /\ u \in User
    /\ users[u].secret = code
    /\ RequestGoes(h, [NoRequest EXCEPT !.at = "enable", !.user = u])
    /\ UNCHANGED users

\* ... and the second factor is enabled, after which a log-in goes on.
SetEnabled(h) ==
    LET u == requests[h].user
    IN  /\ requests[h].at = "enable"
        /\ UpdateById(u, [users[u] EXCEPT !.enabled = TRUE])
        /\ RequestGoes(h, IF requests[h].session = None THEN NoRequest
                          ELSE [requests[h] EXCEPT !.at = "device"])

\* disable2FA: it must be enabled, and the code of the secret stored ...
ReadToDisable2FA(h, u, code) ==
    /\ requests[h].at = "idle"
    /\ u \in User
    /\ users[u].enabled
    /\ users[u].secret = code
    /\ RequestGoes(h, [NoRequest EXCEPT !.at = "clear", !.user = u])
    /\ UNCHANGED users

\* Slip: the secret is removed and the flag is forgotten.
ClearSecretOnly(h) ==
    LET u == requests[h].user
    IN  /\ requests[h].at = "clear"
        /\ UpdateById(u, [users[u] EXCEPT !.secret = None])
        /\ RequestGoes(h, NoRequest)

\* ... and flag and secret are cleared in one update.
Clear2FA(h) ==
    LET u == requests[h].user
    IN  /\ requests[h].at = "clear"
        /\ UpdateById(u, [users[u] EXCEPT !.enabled = FALSE, !.secret = None])
        /\ RequestGoes(h, NoRequest)

-----------------------------------------------------------------------------
(* API keys                                                                *)

KeysInUse == UNION {users[u].apiKeys : u \in User}

\* createApiKey pushes a new key.
CreateApiKey(u) ==
    /\ u \in User
    /\ \E key \in ApiKey \ KeysInUse :
          users' = [users EXCEPT ![u].apiKeys = @ \cup {key}]
    /\ UNCHANGED requests

\* deleteApiKey pulls a key; the index may refuse that of the last one.
DeleteApiKey(u, key) ==
    LET doc == [users[u] EXCEPT !.apiKeys = @ \ {key}]
    IN  /\ u \in User
        /\ ~Clash(u, doc)
        /\ users' = [users EXCEPT ![u] = doc]
        /\ UNCHANGED requests

-----------------------------------------------------------------------------
\* A database call rejects or the process dies.
AbandonRequest(h) ==
    /\ requests[h].at # "idle"
    /\ RequestGoes(h, NoRequest)
    /\ UNCHANGED users

RequestStarts(h) ==
    \/ \E email \in Email, phone \in Phone, password \in Password :
          FindToCreate(h, email, phone, password)
    \/ \E u \in UserId, password \in Password, code \in Secret,
          session \in Session : Login(h, u, password, code, session)
    \/ \E u \in UserId : ReadToEnable2FA(h, u)
    \/ \E u \in UserId, code \in Secret :
          ReadToVerify2FA(h, u, code) \/ ReadToDisable2FA(h, u, code)

RequestContinues(h) ==
    \/ InsertUser(h)
    \/ VerifyInLogin(h)
    \/ RecordDevice(h)
    \/ StoreRefreshToken(h)
    \/ SetSecret(h)
    \/ SetEnabled(h)
    \/ Clear2FA(h)

RequestOfOneCall ==
    \E u \in UserId :
        \/ \E email \in Email, phone \in Phone : UpdateUser(u, email, phone)
        \/ \E password \in Password : UpdatePassword(u, password)
        \/ RemoveUser(u)
        \/ Logout(u)
        \/ CreateApiKey(u)
        \/ \E key \in ApiKey : DeleteApiKey(u, key)

AccountsNext ==
    \/ RequestOfOneCall
    \/ \E h \in Handler :
          RequestStarts(h) \/ RequestContinues(h) \/ AbandonRequest(h)

AccountsSpec == AccountsInit /\ [][AccountsNext]_accountsVars

\* The same with no failing database call and no crash.
AccountsFaultFreeNext ==
    \/ RequestOfOneCall
    \/ \E h \in Handler : RequestStarts(h) \/ RequestContinues(h)

AccountsFaultFreeSpec == AccountsInit /\ [][AccountsFaultFreeNext]_accountsVars

-----------------------------------------------------------------------------
(* Properties                                                              *)

\* A session that can be refreshed is one whose log-in was recorded among the
\* devices, although the two are separate updates and log-ins overlap
\* (updateLastLogin, updateRefreshToken).
SessionIsRecorded ==
    \A u \in User, session \in Session :
        Refreshes(u, session) => session \in users[u].devices

\* An account with the second factor enabled has a secret: without one no code
\* is accepted, and the user can neither log in nor disable it (login,
\* verify2FA, disable2FA).
EnabledHasSecret ==
    \A u \in User : users[u].enabled => users[u].secret # None

\* A registration ends with a stored user, or the email or phone is in use:
\* 'User with this email or phone already exists' (users.service.ts:33).
NewcomerIsRegistered ==
    [][\A h \in Handler :
          LET r == requests[h]
          IN  r.at = "insert" /\ requests'[h] # r /\ ~InUse(r.email, r.phone)
                  => \E u \in UserId : users'[u] = NewUser(r.email, r.phone, r.password)
      ]_accountsVars
=============================================================================
