SPECIFICATION MCSpec
CONSTANTS
    None = None
    Deleted = Deleted
    Handler = {h1, h2}
    UserId = {i1, i2}
    Email = {e1, e2}
    Phone = {p1, p2}
    Password = {pw}
    Session = {s1}
    Secret = {code}
    ApiKey = {j1, j2}
    Subscriber = {carl}
    NoteId = {i1, i2}
    NoteType = {cancelled}
    QuietType = {cancelled}
    MutedChoice <- MCMutedChoice
    TypeChoice = {{}}
    Trader = {tom}
    AlertId = {j1, j2}
    MaxLevel = 2
    LimitChoice <- MCLimitChoice
    StatusChoice <- MCStatusChoice
    Server = {j1, j2}
    SocketId = {k1, k2}
    Tab = {i1, i2}
    Viewer = {vera}
    MessageId = {m1}
    Page = {i1, i2}
    Connection = {j1, j2}
    x = x
    y = y
    Symbol = {x, y}
    ListChoice <- MCListChoice
    MaxQueued = 1
    StrategyId = {st}
    Terms = {i1}
    BodyStatus = {"other"}
    BodyRating <- MCBodyRating
    BodyCount = {0}
    Review = {k1, k2}
    MaxRating = 2
    MaxPoints = 1
    CopyId = {st}
    Settings = {x}
    Ratio = {0, 100}
    Kept = {"users", "riskprofiles"}
    SeedRun = {j1, j2}
SYMMETRY Symmetry
INVARIANTS
    ServicesTypeOK
    SessionIsRecorded
    EnabledHasSecretAlone
    SentWasDelivered
    PendingIsInHand
    ChosenPreferencesKept
    BreachIsAlerted
    StatusAsReported
    LoggedInIsServed
    NoUnreadHidden
    ChosenIsServed
    RatingIsOfReviews
    SetUpAsReported
PROPERTIES
    ReadMarkKept
CHECK_DEADLOCK FALSE
