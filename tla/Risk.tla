-------------------------------- MODULE Risk --------------------------------
(***************************************************************************)
(* Risk management (RiskProfilesService): a user's limits and current      *)
(* status in one document, and the alerts raised when a status reaches its *)
(* limit.  A report of the status is one update; the check that follows    *)
(* reads the profile again and, limit by limit, looks for an open alert of *)
(* that type before it saves one.                                          *)
(*                                                                         *)
(* An action is the code up to and including its next database call.       *)
(* Amounts are levels from 0 to MaxLevel; of the fields a profile holds,   *)
(* the limits that raise alerts.                                           *)
(***************************************************************************)
EXTENDS Service, Naturals, Sequences

CONSTANTS
    Trader,       \* the users with a risk profile
    AlertId,      \* the ids of the alerts collection
    MaxLevel,     \* bounds amounts and limits
    LimitChoice,  \* the limits a user may set
    StatusChoice  \* the statuses that may be reported

\* What is watched.
Metric == {"DailyLoss", "Drawdown", "OpenPositions"}

Levels == [Metric -> 0..MaxLevel]

ProfileDoc == [limits : Levels, status : Levels]

AlertDoc == [user : Trader, type : Metric,
             acknowledged : BOOLEAN, resolved : BOOLEAN]

ASSUME RiskAssumption ==
    /\ MaxLevel \in Nat
    /\ LimitChoice \subseteq Levels
    /\ StatusChoice \subseteq Levels
    /\ {None, Deleted} \cap (ProfileDoc \cup AlertDoc \cup Levels) = {}

VARIABLES
    profiles,   \* the profiles collection, by its unique user
    alerts,     \* the alerts collection
    watchers,   \* where each request is and what it has read
    reported,   \* history: the status last reported for a stored profile
    closedThen, \* history: the alerts that were closed at that report
    excused     \* history: users with a limit changed, or a check that failed,
                \* since that report

riskVars == <<profiles, alerts, watchers, reported, closedThen, excused>>

WatcherStage == {"idle", "insert", "save", "check", "look", "raise"}

Watcher ==
    [at : WatcherStage,                \* the database call it makes next
     user : Trader \cup {None},
     limits : Levels \cup {None},      \* the limits it stores
     changed : SUBSET Metric,          \* those that differ from what it read
     todo : Seq(Metric)]               \* breaches it has yet to raise

NoWatcher == [at |-> "idle", user |-> None, limits |-> None, changed |-> {},
              todo |-> <<>>]

RiskTypeOK ==
    /\ profiles \in [Trader -> ProfileDoc \cup {None}]
    /\ alerts \in [AlertId -> AlertDoc \cup {None}]
    /\ watchers \in [Handler -> Watcher]
    /\ reported \in [Trader -> Levels \cup {None}]
    /\ closedThen \in [Trader -> SUBSET AlertId]
    /\ excused \subseteq Trader

RiskInit ==
    /\ profiles = [u \in Trader |-> None]
    /\ alerts = [a \in AlertId |-> None]
    /\ watchers = [h \in Handler |-> NoWatcher]
    /\ reported = [u \in Trader |-> None]
    /\ closedThen = [u \in Trader |-> {}]
    /\ excused = {}

Alert == StoredIn(alerts)

IsOpen(a) == a \in Alert /\ ~alerts[a].acknowledged /\ ~alerts[a].resolved

OpenAlerts(u, type) ==
    {a \in Alert : IsOpen(a) /\ alerts[a].user = u /\ alerts[a].type = type}

WatcherGoes(h, state) == watchers' = [watchers EXCEPT ![h] = state]

Zero == [m \in Metric |-> 0]

-----------------------------------------------------------------------------
(* The profile                                                             *)

\* createProfile looks for a profile; with none it goes on to insert one.
ReadToCreateProfile(h, u, limits) ==
    /\ watchers[h].at = "idle"
    /\ profiles[u] = None
    /\ WatcherGoes(h, [NoWatcher EXCEPT !.at = "insert", !.user = u,
                                        !.limits = limits])
    /\ UNCHANGED <<profiles, alerts, reported, closedThen, excused>>

\* The unique index refuses a second profile of the user.
InsertProfile(h) ==
    LET u == watchers[h].user
    IN  /\ watchers[h].at = "insert"
        /\ IF profiles[u] # None
           THEN UNCHANGED <<profiles, reported, excused>>
           ELSE /\ profiles' = [profiles EXCEPT
                      ![u] = [limits |-> watchers[h].limits, status |-> Zero]]
                /\ reported' = [reported EXCEPT ![u] = Zero]
                /\ excused' = excused \cup {u}
        /\ WatcherGoes(h, NoWatcher)
        /\ UNCHANGED <<alerts, closedThen>>

\* updateProfile reads the profile and assigns the new limits in memory.
ReadToUpdateProfile(h, u, limits) ==
    /\ watchers[h].at = "idle"
    /\ profiles[u] # None
    /\ WatcherGoes(h, [NoWatcher EXCEPT
            !.at = "save", !.user = u, !.limits = limits,
            !.changed = {m \in Metric : limits[m] # profiles[u].limits[m]}])
    /\ UNCHANGED <<profiles, alerts, reported, closedThen, excused>>

\* Slip: the profile is replaced by the document that was read.
SaveProfileWhole(h) ==
    LET u == watchers[h].user
    IN  /\ watchers[h].at = "save"
        /\ profiles' = [profiles EXCEPT
              ![u] = [limits |-> watchers[h].limits, status |-> Zero]]
        /\ excused' = excused \cup {u}
        /\ WatcherGoes(h, NoWatcher)
        /\ UNCHANGED <<alerts, reported, closedThen>>

\* Its save() sends the limits that differ from what was read.
SaveProfile(h) ==
    LET u == watchers[h].user
    IN  /\ watchers[h].at = "save"
        /\ profiles' = [profiles EXCEPT ![u].limits =
              [m \in Metric |-> IF m \in watchers[h].changed
                                THEN watchers[h].limits[m] ELSE @[m]]]
        /\ excused' = excused \cup {u}
        /\ WatcherGoes(h, NoWatcher)
        /\ UNCHANGED <<alerts, reported, closedThen>>

-----------------------------------------------------------------------------
(* Status and alerts                                                       *)

\* updateCurrentStatus sets the status in one update; the check comes after.
ReportStatus(h, u, status) ==
    /\ watchers[h].at = "idle"
    /\ profiles[u] # None
    /\ profiles' = [profiles EXCEPT ![u].status = status]
    /\ reported' = [reported EXCEPT ![u] = status]
    /\ closedThen' = [closedThen EXCEPT ![u] = {a \in Alert : ~IsOpen(a)}]
    /\ excused' = excused \ {u}
    /\ WatcherGoes(h, [NoWatcher EXCEPT !.at = "check", !.user = u])
    /\ UNCHANGED alerts

\* The limits that a status has reached, in the order of the comparisons.
Breach(profile, m) ==
    IF profile.status[m] >= profile.limits[m] THEN <<m>> ELSE <<>>

Breaches(profile) ==
    Breach(profile, "DailyLoss") \o Breach(profile, "Drawdown")
        \o Breach(profile, "OpenPositions")

\* createAlert for the next breach, or the end.
RaiseNext(watcher, todo) ==
    IF todo = <<>> THEN NoWatcher
    ELSE [watcher EXCEPT !.at = "look", !.todo = todo]

\* checkAndCreateAlerts reads the profile.
ReadToCheck(h) ==
    /\ watchers[h].at = "check"
    /\ WatcherGoes(h, RaiseNext(watchers[h], Breaches(profiles[watchers[h].user])))
    /\ UNCHANGED <<profiles, alerts, reported, closedThen, excused>>

\* Slip: an alert that was acknowledged still counts.
LookForAnyAlert(h) ==
    LET watcher == watchers[h]
    IN  /\ watcher.at = "look"
        /\ WatcherGoes(h,
              IF \A a \in Alert : ~(/\ alerts[a].user = watcher.user
                                    /\ alerts[a].type = Head(watcher.todo)
                                    /\ ~alerts[a].resolved)
              THEN [watcher EXCEPT !.at = "raise"]
              ELSE RaiseNext(watcher, Tail(watcher.todo)))
        /\ UNCHANGED <<profiles, alerts, reported, closedThen, excused>>

\* createAlert looks for an open alert of the type ...
LookForAlert(h) ==
    LET watcher == watchers[h]
    IN  /\ watcher.at = "look"
        /\ WatcherGoes(h,
              IF OpenAlerts(watcher.user, Head(watcher.todo)) = {}
              THEN [watcher EXCEPT !.at = "raise"]
              ELSE RaiseNext(watcher, Tail(watcher.todo)))
        /\ UNCHANGED <<profiles, alerts, reported, closedThen, excused>>

\* ... and saves one where there was none.
RaiseAlert(h) ==
    LET watcher == watchers[h]
    IN  /\ watcher.at = "raise"
        /\ \E a \in UnusedIn(alerts) :
              alerts' = [alerts EXCEPT ![a] =
                  [user |-> watcher.user, type |-> Head(watcher.todo),
                   acknowledged |-> FALSE, resolved |-> FALSE]]
        /\ WatcherGoes(h, RaiseNext(watcher, Tail(watcher.todo)))
        /\ UNCHANGED <<profiles, reported, closedThen, excused>>

\* acknowledgeAlert, by id and user.
AcknowledgeAlert(a) ==
    /\ a \in Alert
    /\ alerts' = [alerts EXCEPT ![a].acknowledged = TRUE]
    /\ UNCHANGED <<profiles, watchers, reported, closedThen, excused>>

\* resolveAlert, likewise.
ResolveAlert(a) ==
    /\ a \in Alert
    /\ alerts' = [alerts EXCEPT ![a].resolved = TRUE]
    /\ UNCHANGED <<profiles, watchers, reported, closedThen, excused>>

\* A database call rejects or the process dies.
AbandonWatch(h) ==
    /\ watchers[h].at # "idle"
    /\ excused' = IF watchers[h].at \in {"check", "look", "raise"}
                  THEN excused \cup {watchers[h].user} ELSE excused
    /\ WatcherGoes(h, NoWatcher)
    /\ UNCHANGED <<profiles, alerts, reported, closedThen>>

-----------------------------------------------------------------------------
WatcherStep(h) ==
    \/ \E u \in Trader, limits \in LimitChoice :
          ReadToCreateProfile(h, u, limits) \/ ReadToUpdateProfile(h, u, limits)
    \/ \E u \in Trader, status \in StatusChoice : ReportStatus(h, u, status)
    \/ InsertProfile(h)
    \/ SaveProfile(h)
    \/ ReadToCheck(h)
    \/ LookForAlert(h)
    \/ RaiseAlert(h)
    \/ AbandonWatch(h)

RiskNext ==
    \/ \E h \in Handler : WatcherStep(h)
    \/ \E a \in AlertId : AcknowledgeAlert(a) \/ ResolveAlert(a)

RiskSpec == RiskInit /\ [][RiskNext]_riskVars

-----------------------------------------------------------------------------
(* Properties                                                              *)

InCheck(u) == \E h \in Handler : watchers[h].at # "idle" /\ watchers[h].user = u

\* Once the checks have run, every limit that the last report reached has an
\* alert that was not closed before that report, whatever other reports,
\* acknowledgements and looks came in between (updateCurrentStatus,
\* checkAndCreateAlerts, createAlert); a user is excused from the failure of a
\* check, or a change of the limits, which checks nothing, to the next report.
BreachIsAlerted ==
    \A u \in Trader \ excused :
        profiles[u] # None /\ ~InCheck(u) =>
            \A m \in Metric :
                profiles[u].status[m] >= profiles[u].limits[m] =>
                    \E a \in Alert \ closedThen[u] :
                        alerts[a].user = u /\ alerts[a].type = m

\* The status is the one last reported: a change of the limits that read the
\* profile before the report does not bring the old one back (updateProfile,
\* updateCurrentStatus).
StatusAsReported ==
    \A u \in Trader : profiles[u] # None => profiles[u].status = reported[u]
=============================================================================
