------------------------------ MODULE Database ------------------------------
(***************************************************************************)
(* Setting up the database: the npm commands of backend/database chain     *)
(* the rollback, the migration and the seed, which make one call after     *)
(* another with no transaction around them.  Several commands may run at   *)
(* once, each may die between two calls, and services that start create    *)
(* collections and indexes of their own in the same database.              *)
(*                                                                         *)
(* An action is one call to MongoDB.  Indexes that are not unique change   *)
(* nothing but speed: of the others only the keys that documents of        *)
(* different seeds can share are kept.  A seed's documents are told apart  *)
(* by the user they belong to.                                             *)
(***************************************************************************)
EXTENDS Service, Naturals, Sequences, FiniteSets, Functions

CONSTANTS
    Kept,    \* of the collections, those that are followed
    SeedRun  \* the times the seed makes new ids

\* The collections that up creates, in order.
UpOrder ==
    <<"users", "apikeys", "loggedindevices", "trades", "positions",
      "strategies", "subscriptions", "algorithms", "backtests",
      "chartdata", "charttemplates", "riskprofiles", "riskalerts",
      "notifications", "notificationpreferences", "transactions">>

\* Slip: one that was added to up is missing.
DownOrderShort == SelectSeq(UpOrder, LAMBDA c : c # "riskprofiles")

\* The collections that down drops, in order.
DownOrder ==
    <<"users", "apikeys", "loggedindevices", "trades", "positions",
      "strategies", "subscriptions", "algorithms", "backtests",
      "chartdata", "charttemplates", "riskprofiles", "riskalerts",
      "notifications", "notificationpreferences", "transactions">>

\* demoUsers, in the order in which they are inserted.
DemoUsers == <<"admin", "trader", "provider">>

\* A document of a seed: when it was seeded, and whose it is.
Account == Range(DemoUsers)

DemoDoc == SeedRun \X Account

\* demoStrategies are all of the provider.
DemoStrategies(r) == {<<r, "provider">>}

\* riskProfiles, one of each user.
DemoProfiles(r) == {r} \X Account

\* notificationPreferences, one of each user.
DemoPreferences(r) == {r} \X Account

\* chartTemplates are both of the trader.
DemoTemplates(r) == {<<r, "trader">>}

\* What the seed puts into each collection.
DemoOf(r) ==
    [c \in Kept |-> CASE c = "users" -> {r} \X Account
                      [] c = "strategies" -> DemoStrategies(r)
                      [] c = "riskprofiles" -> DemoProfiles(r)
                      [] c = "notificationpreferences" -> DemoPreferences(r)
                      [] c = "charttemplates" -> DemoTemplates(r)
                      [] OTHER -> {}]

\* The collections that are seeded, in order.
SeedOrder ==
    <<"users", "strategies", "riskprofiles", "notificationpreferences",
      "charttemplates">>

-----------------------------------------------------------------------------
(* Commands: the calls that each still has to make                         *)

Call == [do : {"drop", "create", "index", "insert"}, in : Kept]

CallsIn(kinds, order) ==
    {[do |-> do, in |-> c] : do \in kinds, c \in Kept \cap Range(order)}

Down == CallsIn({"drop"}, DownOrder)

Up == CallsIn({"create", "index"}, UpOrder)

Seed == CallsIn({"insert"}, SeedOrder)

IndexIn(order, c) == CHOOSE i \in DOMAIN order : order[i] = c

\* The order of the calls of reset, which makes all of them; up creates the
\* indexes of a collection before it goes on to the next.
Place ==
    [call \in Down \cup Up \cup Seed |->
        LET up == Len(DownOrder) + 2 * IndexIn(UpOrder, call.in)
        IN  CASE call.do = "drop" -> IndexIn(DownOrder, call.in)
              [] call.do = "create" -> up - 1
              [] call.do = "index" -> up
              [] call.do = "insert" ->
                    Len(DownOrder) + 2 * Len(UpOrder) + IndexIn(SeedOrder, call.in)]

Script == {"migrate:up", "migrate:down", "seed", "setup", "reset"}

ASSUME DatabaseAssumption ==
    /\ Kept \subseteq Range(UpOrder)
    /\ "users" \in Kept
    /\ None \notin Script \cup SeedRun

\* The scripts of package.json; with && a failed one is the last.
CallsOf(script) ==
    CASE script = "migrate:up" -> Up
      [] script = "migrate:down" -> Down
      [] script = "seed" -> Seed
      [] script = "setup" -> Up \cup Seed
      [] script = "reset" -> Down \cup Up \cup Seed

Command ==
    [script : Script \cup {None},
     todo : SUBSET Call,         \* the calls it has yet to make
     run : SeedRun \cup {None},  \* the ids of its seed, once it makes them
     refused : BOOLEAN,          \* MongoDB refused a call, and it ended
     met : SUBSET {"drop", "other"}]
        \* history: since it began, another command that drops was there, or
        \* anything else that changes the database

NoCommand == [script |-> None, todo |-> {}, run |-> None, refused |-> FALSE,
              met |-> {}]

VARIABLES
    strict,     \* this MongoDB refuses to create a collection that is there
    existing,   \* the collections that are there
    indexed,    \* those with the indexes of the migration
    uniqueKeys, \* the unique indexes of users
    documents,  \* of each collection, what seeds have put into it
    commands    \* the commands that run, or ran last

databaseVars == <<strict, existing, indexed, uniqueKeys, documents, commands>>

DatabaseTypeOK ==
    /\ strict \in BOOLEAN
    /\ existing \subseteq Kept
    /\ indexed \subseteq existing
    /\ uniqueKeys \subseteq {"email", "phone"}
    /\ documents \in [Kept -> SUBSET DemoDoc]
    /\ commands \in [Handler -> Command]

DatabaseInit ==
    /\ strict \in BOOLEAN
    /\ existing = {}
    /\ indexed = {}
    /\ uniqueKeys = {}
    /\ documents = [c \in Kept |-> {}]
    /\ commands = [h \in Handler |-> NoCommand]

Running(h) == commands[h].todo # {} /\ ~commands[h].refused

Drops(script) == script \in {"migrate:down", "reset"}

\* h starts a script; those that run, or ran last, meet it.
RunScript(h, script) ==
    LET others == {g \in Handler \ {h} : Running(g)}
        seen == {IF Drops(commands[g].script) THEN "drop" ELSE "other" : g \in others}
        shown == IF Drops(script) THEN "drop" ELSE "other"
    IN  /\ ~Running(h)
        /\ commands' = [g \in Handler |->
              IF g = h THEN [NoCommand EXCEPT !.script = script,
                                              !.todo = CallsOf(script), !.met = seen]
              ELSE IF g \in others THEN [commands[g] EXCEPT !.met = @ \cup {shown}]
              ELSE NoCommand]
        /\ UNCHANGED <<strict, existing, indexed, uniqueKeys, documents>>

\* Of the calls to make the first.
NextCall(h) ==
    CHOOSE call \in commands[h].todo :
        \A other \in commands[h].todo : Place[call] <= Place[other]

\* h goes on after its call, with what the call changed in its record.
GoesOn(h, command) ==
    commands' = [commands EXCEPT ![h] = [command EXCEPT !.todo = @ \ {NextCall(h)}]]

\* The error ends the command, and with it the script.
Refused(h, command) ==
    commands' = [commands EXCEPT ![h] = [command EXCEPT !.refused = TRUE]]

-----------------------------------------------------------------------------
(* The migration                                                           *)

\* createCollection in up.
CreateCollection(h) ==
    LET c == NextCall(h).in
    IN  /\ Running(h) /\ NextCall(h).do = "create"
        /\ IF strict /\ c \in existing
           THEN Refused(h, commands[h])
           ELSE GoesOn(h, commands[h])
        /\ existing' = existing \cup {c}
        /\ UNCHANGED <<strict, indexed, uniqueKeys, documents>>

\* An email of two users.
Repeated ==
    \E a, b \in documents["users"] : a # b /\ a[2] = b[2]

\* createIndexes in up: all of a collection or none.
CreateIndexes(h) ==
    LET c == NextCall(h).in
    IN  /\ Running(h) /\ NextCall(h).do = "index"
        /\ IF c = "users" /\ Repeated
           THEN /\ Refused(h, commands[h])
                /\ UNCHANGED <<existing, indexed, uniqueKeys>>
           ELSE /\ GoesOn(h, commands[h])
                /\ existing' = existing \cup {c}
                /\ indexed' = indexed \cup {c}
                /\ uniqueKeys' = uniqueKeys \cup (IF c = "users" THEN {"email"} ELSE {})
        /\ UNCHANGED <<strict, documents>>

\* drop in down, of a collection that may not be there.
Drop(h) ==
    LET c == NextCall(h).in
    IN  /\ Running(h) /\ NextCall(h).do = "drop"
        /\ existing' = existing \ {c}
        /\ indexed' = indexed \ {c}
        /\ uniqueKeys' = IF c = "users" THEN {} ELSE uniqueKeys
        /\ documents' = [documents EXCEPT ![c] = {}]
        /\ GoesOn(h, commands[h])
        /\ UNCHANGED strict

\* The drop rejects for another reason: down goes on all the same.
DropRejected(h) ==
    /\ Running(h) /\ NextCall(h).do = "drop"
    /\ GoesOn(h, [commands[h] EXCEPT !.met = @ \cup {"other"}])
    /\ UNCHANGED <<strict, existing, indexed, uniqueKeys, documents>>

-----------------------------------------------------------------------------
(* The seed                                                                *)

UnusedRun ==
    {r \in SeedRun :
        /\ \A h \in Handler : commands[h].run # r
        /\ \A c \in Kept, a \in Account : <<r, a>> \notin documents[c]}

\* The users of r that the unique indexes let in, up to the first they refuse:
\* all seeds have the same emails, and no demo user has a phone or an API key,
\* which an index takes for the same value.
UsersLetIn(r) ==
    IF uniqueKeys # {} /\ documents["users"] # {} THEN {}
    ELSE IF "phone" \in uniqueKeys THEN {<<r, Head(DemoUsers)>>}
    ELSE DemoOf(r)["users"]

\* The seed makes its ids and inserts the users.
InsertUsers(h) ==
    /\ Running(h) /\ NextCall(h) = [do |-> "insert", in |-> "users"]
    /\ \E r \in UnusedRun :
          LET command == [commands[h] EXCEPT !.run = r]
          IN  /\ documents' = [documents EXCEPT !["users"] = @ \cup UsersLetIn(r)]
              /\ IF UsersLetIn(r) = DemoOf(r)["users"] THEN GoesOn(h, command)
                                                       ELSE Refused(h, command)
    /\ existing' = existing \cup {"users"}
    /\ UNCHANGED <<strict, indexed, uniqueKeys>>

\* It inserts what belongs to them.
InsertMany(h) ==
    LET c == NextCall(h).in
    IN  /\ Running(h) /\ NextCall(h).do = "insert" /\ c # "users"
        /\ documents' = [documents EXCEPT ![c] = @ \cup DemoOf(commands[h].run)[c]]
        /\ existing' = existing \cup {c}
        /\ GoesOn(h, commands[h])
        /\ UNCHANGED <<strict, indexed, uniqueKeys>>

-----------------------------------------------------------------------------
\* The process dies, or a call of up or of the seed rejects.
Break(h) ==
    /\ Running(h)
    /\ commands' = [commands EXCEPT ![h] = NoCommand]
    /\ UNCHANGED <<strict, existing, indexed, uniqueKeys, documents>>

\* A service starts: Mongoose creates its collection and the indexes of its
\* schema that the documents allow.
StartService(c) ==
    /\ existing' = existing \cup {c}
    /\ uniqueKeys' = uniqueKeys \cup
          {key \in {"email", "phone"} :
              /\ c = "users"
              /\ key = "email" => ~Repeated
              /\ key = "phone" => Cardinality(documents["users"]) <= 1}
    /\ commands' = [h \in Handler |->
          IF Running(h) THEN [commands[h] EXCEPT !.met = @ \cup {"other"}]
                        ELSE NoCommand]
    /\ UNCHANGED <<strict, indexed, documents>>

CommandStep(h) ==
    \/ \E script \in Script : RunScript(h, script)
    \/ CreateCollection(h)
    \/ CreateIndexes(h)
    \/ Drop(h)
    \/ DropRejected(h)
    \/ InsertUsers(h)
    \/ InsertMany(h)
    \/ Break(h)

DatabaseNext ==
    \/ \E h \in Handler : CommandStep(h)
    \/ \E c \in Kept : StartService(c)

DatabaseSpec == DatabaseInit /\ [][DatabaseNext]_databaseVars

-----------------------------------------------------------------------------
(* Properties                                                              *)

Succeeded(h) == commands[h].script # None /\ commands[h].todo = {}

\* The migration is there: the indexes of every collection, and so no two users
\* with one email.
Migrated == indexed = Kept /\ ~Repeated

\* A command that reports success has done all of its work, although others
\* migrate and seed at the same time and services start, unless another one
\* drops collections meanwhile.
WorkIsDone(h) ==
    LET command == commands[h]
    IN  Succeeded(h) /\ "drop" \notin command.met =>
            /\ command.script \in {"migrate:up", "setup", "reset"} => Migrated
            /\ command.script \in {"seed", "setup", "reset"} =>
                  \A c \in Kept : DemoOf(command.run)[c] \subseteq documents[c]

\* A reset that runs by itself repairs what earlier commands left, wherever
\* they broke off: MongoDB refuses none of its calls, and the demo data is
\* there once (README.md, "Seed Data Already Exists").
ResetRepairs(h) ==
    LET command == commands[h]
    IN  command.script = "reset" /\ command.met = {} =>
            /\ ~command.refused
            /\ command.todo = {} => documents = DemoOf(command.run)

\* What a set-up command reports is so, with no transaction around its calls
\* (migrations/001_initial_schema.js, seeds/001_demo_data.js).
SetUpAsReported == \A h \in Handler : WorkIsDone(h) /\ ResetRepairs(h)
=============================================================================
