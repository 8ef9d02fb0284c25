----------------------------- MODULE MCServices -----------------------------
(***************************************************************************)
(* The smaller services for TLC, one at a time: they share no state, so    *)
(* the first choice is which of them runs.                                 *)
(***************************************************************************)
EXTENDS Accounts, Notifications, Risk, Push, MarketData, Strategies,
    Database, TLC

CONSTANTS x, y  \* two symbols

VARIABLES
    service,  \* the one that runs
    alone     \* of Accounts: no two requests have overlapped so far

Limits(dailyLoss, drawdown, openPositions) ==
    [m \in Metric |-> CASE m = "DailyLoss" -> dailyLoss
                        [] m = "Drawdown" -> drawdown
                        [] m = "OpenPositions" -> openPositions]

MCLimitChoice == {Limits(1, 1, 2), Limits(1, 2, 1)}

MCStatusChoice == {Limits(0, 0, 0), Limits(1, 1, 0)}

MCMutedChoice == {{"Push", "InApp"}}

MCListChoice == {<<x, y>>}

MCBodyRating == {[sum |-> 2, over |-> 1]}

\* What PickFrom, which is stated by ranks, picks is what SelectSeq selects.
ASSUME PickingAssumption ==
    \A list \in UNION {[1..n -> Metric] : n \in 0..3}, S \in SUBSET Metric :
        PickFrom(list, {i \in DOMAIN list : list[i] \in S})
            = SelectSeq(list, LAMBDA e : e \in S)

MCInit ==
    /\ service \in {"accounts", "notifications", "risk", "push", "market",
                    "strategies", "database"}
    /\ alone = TRUE
    /\ AccountsInit
    /\ NotificationsInit
    /\ RiskInit
    /\ PushInit
    /\ service # "push" => stream = "orders"
    /\ MarketInit
    /\ StrategiesInit
    /\ DatabaseInit
    /\ service # "database" => strict = TRUE

\* Two requests are in progress.
Overlap ==
    \E g, h \in Handler :
        g # h /\ requests[g].at # "idle" /\ requests[h].at # "idle"

MCNext ==
    \/ /\ service = "accounts"
       /\ AccountsNext
       /\ alone' = (alone /\ ~Overlap')
       /\ UNCHANGED <<service, notificationsVars, riskVars, pushVars, marketVars,
                      strategiesVars, databaseVars>>
    \/ /\ service = "notifications"
       /\ NotificationsNext
       /\ UNCHANGED <<service, alone, accountsVars, riskVars, pushVars, marketVars,
                      strategiesVars, databaseVars>>
    \/ /\ service = "risk"
       /\ RiskNext
       /\ UNCHANGED <<service, alone, accountsVars, notificationsVars, pushVars,
                      marketVars, strategiesVars, databaseVars>>
    \/ /\ service = "push"
       /\ PushNext
       /\ UNCHANGED <<service, alone, accountsVars, notificationsVars, riskVars,
                      marketVars, strategiesVars, databaseVars>>
    \/ /\ service = "market"
       /\ MarketNext
       /\ UNCHANGED <<service, alone, accountsVars, notificationsVars, riskVars,
                      pushVars, strategiesVars, databaseVars>>
    \/ /\ service = "strategies"
       /\ StrategiesNext
       /\ UNCHANGED <<service, alone, accountsVars, notificationsVars, riskVars,
                      pushVars, marketVars, databaseVars>>
    \/ /\ service = "database"
       /\ DatabaseNext
       /\ UNCHANGED <<service, alone, accountsVars, notificationsVars, riskVars,
                      pushVars, marketVars, strategiesVars>>

MCVars == <<service, alone, accountsVars, notificationsVars, riskVars, pushVars,
            marketVars, strategiesVars, databaseVars>>

MCSpec == MCInit /\ [][MCNext]_MCVars

\* The type invariant of the service that runs.
ServicesTypeOK ==
    /\ service = "accounts" => AccountsTypeOK
    /\ service = "notifications" => NotificationsTypeOK
    /\ service = "risk" => RiskTypeOK
    /\ service = "push" => PushTypeOK
    /\ service = "market" => MarketTypeOK
    /\ service = "strategies" => StrategiesTypeOK
    /\ service = "database" => DatabaseTypeOK

\* EnabledHasSecret, of requests that do not overlap.
EnabledHasSecretAlone == alone => EnabledHasSecret

\* The ids of different services are the same model values, so that few
\* permutations cover them all.
Symmetry ==
    UNION {Permutations(S) : S \in {Handler, UserId, ApiKey, SocketId}}
=============================================================================
