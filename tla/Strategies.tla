----------------------------- MODULE Strategies -----------------------------
(***************************************************************************)
(* What CopyTrading leaves out of copy trading.  A trader changes the      *)
(* terms or the status of a strategy, followers rate it, its performance   *)
(* and equity curve are updated (StrategiesService); a follower changes    *)
(* how a subscription copies, its trades and performance are put into it   *)
(* (SubscriptionsService).  updateRating computes the new average from the *)
(* rating and the count it read, and stores both in one update.  The body  *)
(* of an update of the terms is written as it is: nobody validates it, and *)
(* it may name the status, the rating or the count of reviews as well.     *)
(*                                                                         *)
(* An action is the code up to and including its next database call.  An   *)
(* average is kept as the sum it stands for and the number it is over; the *)
(* total of one whose trader wrote it is rounded down.                     *)
(***************************************************************************)
EXTENDS Service, Counting, Integers

CONSTANTS
    StrategyId,  \* the ids of the strategies collection
    Terms,       \* what a trader may ask for: a CreateStrategyDto
    BodyStatus,  \* the statuses that the body of an update may name,
    BodyRating,  \* the ratings
    BodyCount,   \* and the counts of reviews
    Review,      \* the reviews that are given, each once
    MaxRating,   \* a rating is from 1 to MaxRating
    MaxPoints,   \* bounds the points of an equity curve and the copied trades
    CopyId,      \* the ids of the subscriptions collection
    Settings,    \* the settings a follower may ask for
    Ratio        \* the copy ratios a follower may ask for

StrategyStatus == {"Active", "Paused", "Closed"}

\* An update of the terms does not check the status either.
StoredStatus == StrategyStatus \cup {"other"}

Average == [sum : Nat, over : Nat]

StrategyRecord ==
    [terms : Terms, status : StoredStatus, rating : Average, reviewCount : Nat,
     measured : BOOLEAN,          \* performance was set
     equityCurve : 0..MaxPoints]  \* the number of its points

CopyDoc ==
    [settings : Settings, copyRatio : 1..100,
     measured : BOOLEAN,           \* performance was set
     copiedTrades : 0..MaxPoints]  \* their number

GivenReview == [strategy : StrategyId, rating : 1..MaxRating]

ASSUME StrategiesAssumption ==
    /\ MaxRating \in Nat /\ MaxPoints \in Nat
    /\ BodyStatus \subseteq StoredStatus
    /\ BodyRating \subseteq Average /\ BodyCount \subseteq Nat
    /\ {None, Deleted} \cap (StrategyRecord \cup StrategyId \cup Review
                                \cup Terms \cup StrategyStatus \cup Nat
                                \cup CopyDoc \cup CopyId \cup Settings
                                \cup GivenReview) = {}

VARIABLES
    copies,   \* the subscriptions collection
    records,  \* the strategies collection
    editors,  \* where each request is and what it has read
    given,    \* history: the reviews, with strategy and rating
    written   \* history: the strategies whose trader wrote rating or count

strategiesVars == <<copies, records, editors, given, written>>

EditorState ==
    [at : {"idle", "terms", "status", "rate", "settings"},
                                        \* the update it makes next
     strategy : StrategyId \cup {None},
     terms : Terms \cup {None},
     status : StrategyStatus \cup {None},
     rating : Average,                  \* what it is to store
     reviewCount : Nat,
     copy : CopyId \cup {None},
     settings : Settings \cup {None}]

NoEditor == [at |-> "idle", strategy |-> None, terms |-> None, status |-> None,
             rating |-> [sum |-> 0, over |-> 0], reviewCount |-> 0,
             copy |-> None, settings |-> None]

StrategiesTypeOK ==
    /\ copies \in [CopyId -> CopyDoc \cup {None}]
    /\ records \in [StrategyId -> StrategyRecord \cup {None, Deleted}]
    /\ editors \in [Handler -> EditorState]
    /\ given \in [Review -> GivenReview \cup {None}]
    /\ written \subseteq StrategyId

StrategiesInit ==
    /\ copies = [c \in CopyId |-> None]
    /\ records = [s \in StrategyId |-> None]
    /\ editors = [h \in Handler |-> NoEditor]
    /\ given = [r \in Review |-> None]
    /\ written = {}

EditorGoes(h, state) == editors' = [editors EXCEPT ![h] = state]

\* create.
NewStrategy(s, terms) ==
    /\ records[s] = None
    /\ records' = [records EXCEPT ![s] =
          [terms |-> terms, status |-> "Active", rating |-> [sum |-> 0, over |-> 0],
           reviewCount |-> 0, measured |-> FALSE, equityCurve |-> 0]]
    /\ UNCHANGED <<copies, editors, given, written>>

\* delete; the check of the subscribers is in CopyTrading.
RemoveStrategy(s) ==
    /\ s \in StoredIn(records)
    /\ records' = [records EXCEPT ![s] = Deleted]
    /\ UNCHANGED <<copies, editors, given, written>>

\* update reads the strategy to see whose it is ...
ReadToSetTerms(h, s, terms) ==
    /\ editors[h].at = "idle"
    /\ s \in StoredIn(records)
    /\ EditorGoes(h, [NoEditor EXCEPT !.at = "terms", !.strategy = s,
                                      !.terms = terms])
    /\ UNCHANGED <<copies, records, given, written>>

\* ... and writes the body by id, whatever fields it names.
SetTerms(h) ==
    LET s == editors[h].strategy
        doc == records[s]
    IN  /\ editors[h].at = "terms"
        /\ \/ /\ s \in StoredIn(records)
              /\ \E status \in {doc.status} \cup BodyStatus,
                    rating \in {doc.rating} \cup BodyRating,
                    count \in {doc.reviewCount} \cup BodyCount :
                    /\ records' = [records EXCEPT
                          ![s].terms = editors[h].terms, ![s].status = status,
                          ![s].rating = rating, ![s].reviewCount = count]
                    /\ written' = IF rating = doc.rating /\ count = doc.reviewCount
                                  THEN written ELSE written \cup {s}
           \/ s \notin StoredIn(records) /\ UNCHANGED <<records, written>>
        /\ EditorGoes(h, NoEditor)
        /\ UNCHANGED <<copies, given>>

\* updateStatus reads the strategy to see whose it is ...
ReadToSetStatus(h, s, status) ==
    /\ editors[h].at = "idle"
    /\ s \in StoredIn(records)
    /\ EditorGoes(h, [NoEditor EXCEPT !.at = "status", !.strategy = s,
                                      !.status = status])
    /\ UNCHANGED <<copies, records, given, written>>

\* ... and sets the status, whatever it has become.
SetStatus(h) ==
    LET s == editors[h].strategy
    IN  /\ editors[h].at = "status"
        /\ records' = IF s \in StoredIn(records)
                      THEN [records EXCEPT ![s].status = editors[h].status]
                      ELSE records
        /\ EditorGoes(h, NoEditor)
        /\ UNCHANGED <<copies, given, written>>

\* The total that an average stands for, as updateRating computes it.
Total(doc) ==
    IF doc.reviewCount = 0 \/ doc.rating.over = 0 THEN 0
    ELSE (doc.rating.sum * doc.reviewCount) \div doc.rating.over

\* updateRating reads the strategy and computes the new average ...
ReadToRate(h, s, review, rating) ==
    LET doc == records[s]
    IN  /\ editors[h].at = "idle"
        /\ s \in StoredIn(records)
        /\ given[review] = None
        /\ given' = [given EXCEPT ![review] = [strategy |-> s, rating |-> rating]]
        /\ EditorGoes(h, [NoEditor EXCEPT
              !.at = "rate", !.strategy = s,
              !.rating = [sum |-> Total(doc) + rating, over |-> doc.reviewCount + 1],
              !.reviewCount = doc.reviewCount + 1])
        /\ UNCHANGED <<copies, records, written>>

\* Slip: the count is incremented in the database ($inc).
StoreRatingInc(h) ==
    LET s == editors[h].strategy
    IN  /\ editors[h].at = "rate"
        /\ records' = IF s \in StoredIn(records)
              THEN [records EXCEPT ![s].rating = editors[h].rating,
                                   ![s].reviewCount = @ + 1]
              ELSE records
        /\ EditorGoes(h, NoEditor)
        /\ UNCHANGED <<copies, given, written>>

\* ... and stores average and count.
StoreRating(h) ==
    LET s == editors[h].strategy
    IN  /\ editors[h].at = "rate"
        /\ records' = IF s \in StoredIn(records)
              THEN [records EXCEPT ![s].rating = editors[h].rating,
                                   ![s].reviewCount = editors[h].reviewCount]
              ELSE records
        /\ EditorGoes(h, NoEditor)
        /\ UNCHANGED <<copies, given, written>>

\* updatePerformance, in one update.
UpdatePerformance(s) ==
    /\ s \in StoredIn(records)
    /\ records' = [records EXCEPT ![s].measured = TRUE]
    /\ UNCHANGED <<copies, editors, given, written>>

\* addEquityPoint, in one update.
AddEquityPoint(s) ==
    /\ s \in StoredIn(records)
    /\ records[s].equityCurve < MaxPoints
    /\ records' = [records EXCEPT ![s].equityCurve = @ + 1]
    /\ UNCHANGED <<copies, editors, given, written>>

-----------------------------------------------------------------------------
(* Subscriptions                                                           *)

\* create; its checks and its count are in CopyTrading.  The controller passes
\* a ratio from 1 to 100 (CreateSubscriptionDto).
NewCopy(c, settings, ratio) ==
    /\ copies[c] = None
    /\ ratio \in 1..100
    /\ copies' = [copies EXCEPT ![c] =
          [settings |-> settings, copyRatio |-> ratio, measured |-> FALSE,
           copiedTrades |-> 0]]
    /\ UNCHANGED <<records, editors, given, written>>

\* updateSettings reads the subscription ...
ReadToSetSettings(h, c, settings) ==
    /\ editors[h].at = "idle"
    /\ copies[c] # None
    /\ EditorGoes(h, [NoEditor EXCEPT !.at = "settings", !.copy = c,
                                      !.settings = settings])
    /\ UNCHANGED <<copies, records, given, written>>

\* ... and saves it with the settings in their place.
SetSettings(h) ==
    /\ editors[h].at = "settings"
    /\ copies' = [copies EXCEPT ![editors[h].copy].settings = editors[h].settings]
    /\ EditorGoes(h, NoEditor)
    /\ UNCHANGED <<records, given, written>>

\* updateCopyRatio: 'Copy ratio must be between 1 and 100', in one update.
UpdateCopyRatio(c, ratio) ==
    /\ copies[c] # None
    /\ ratio \in 1..100
    /\ copies' = [copies EXCEPT ![c].copyRatio = ratio]
    /\ UNCHANGED <<records, editors, given, written>>

\* addCopiedTrade, in one update.
AddCopiedTrade(c) ==
    /\ copies[c] # None
    /\ copies[c].copiedTrades < MaxPoints
    /\ copies' = [copies EXCEPT ![c].copiedTrades = @ + 1]
    /\ UNCHANGED <<records, editors, given, written>>

\* updatePerformance of a subscription, in one update.
UpdateCopyPerformance(c) ==
    /\ copies[c] # None
    /\ copies' = [copies EXCEPT ![c].measured = TRUE]
    /\ UNCHANGED <<records, editors, given, written>>

-----------------------------------------------------------------------------
\* A database call rejects or the process dies.
AbandonEdit(h) ==
    /\ editors[h].at # "idle"
    /\ EditorGoes(h, NoEditor)
    /\ UNCHANGED <<copies, records, given, written>>

\* What the controller lets a trader ask for.
TraderRequest(s) ==
    \/ \E terms \in Terms : NewStrategy(s, terms)
    \/ \E h \in Handler, terms \in Terms : ReadToSetTerms(h, s, terms)
    \/ \E h \in Handler, status \in StrategyStatus : ReadToSetStatus(h, s, status)
    \/ RemoveStrategy(s)

FollowerRequest(c) ==
    \/ \E settings \in Settings, ratio \in Ratio : NewCopy(c, settings, ratio)
    \/ \E h \in Handler, settings \in Settings : ReadToSetSettings(h, c, settings)
    \/ \E ratio \in Ratio : UpdateCopyRatio(c, ratio)

StrategiesNext ==
    \/ \E c \in CopyId :
          FollowerRequest(c) \/ AddCopiedTrade(c) \/ UpdateCopyPerformance(c)
    \/ \E s \in StrategyId :
          \/ TraderRequest(s) \/ UpdatePerformance(s) \/ AddEquityPoint(s)
          \/ \E h \in Handler, review \in Review, rating \in 1..MaxRating :
                ReadToRate(h, s, review, rating)
    \/ \E h \in Handler :
          SetTerms(h) \/ SetStatus(h) \/ StoreRating(h) \/ SetSettings(h)
            \/ AbandonEdit(h)

StrategiesSpec == StrategiesInit /\ [][StrategiesNext]_strategiesVars

-----------------------------------------------------------------------------
(* Properties                                                              *)

\* A rating is the average of some of the reviews of s, and they are as many as
\* count says.
IsAverageOf(rating, count, s) ==
    \E counted \in SUBSET {r \in StoredIn(given) : given[r].strategy = s} :
        /\ Cardinality(counted) = count
        /\ rating.over = count
        /\ rating.sum = SumOver([r \in counted |-> given[r].rating], counted)

\* The rating of a strategy whose trader wrote neither is the average of as
\* many of its reviews as reviewCount says: of reviews given at once one may be
\* lost, but with its rating and its count, never one without the other
\* (updateRating), and no other update touches either.
RatingIsOfReviews ==
    \A s \in StoredIn(records) \ written :
        IsAverageOf(records[s].rating, records[s].reviewCount, s)
=============================================================================
