CONSTANTS
    Workers = {w1, w2}
    Sessions = {s1}
    AccessTTL = 1
    RefreshTTL = 2
    MaxTime = 4
    Never = Never
    p1 = p1
    p2 = p2
    ListInFlight = 2
    ListRequests = 1
    ListChanges = 2
    Users = {"ann", "bob"}
    Registered = {"ann"}
    NoName = ""
    BadName = "<b>"
    ProfileCalls = 2
    ProfileChanges = 3
    TrialNumbers = {0, 20, 60}
    LikertValues <- MCLikertValues
    Unit = 144
    MaxExperts = 4
    Experts = {1, 2, 3, 4}
    Estimates <- MCEstimates
    ScaleMin = 144
    ScaleMax = 432
    NoResult = NoResult
    t1 = t1
    t2 = t2
    ClientTabs = {t1, t2}
    ClientTokens = 2
    ClientCalls = 2
    ResetRequests = {q1, q2}
    Redemptions = {d1, d2}
    ResetTTL = 0
    ResetTime = 1
    PhotoRequests = {1, 2, 3}
    Subscribers = {"Toaster", "page"}
    MaxToasts = 3
    Nothing = Nothing
    Nobody = Nobody
SPECIFICATION MCSpec
CHECK_DEADLOCK FALSE
INVARIANTS TypesOK ListIsFresh DialogHasProject SuccessIsForSelected SpinnersEnd
    ProfileIsFresh SavedNamesShown DrawnOnScale LinesOnAxis TrialIsLikeTheForm
    ShownUserOwnsToken SubscribersShowStore ClosedToastsAreRemoved PhotoIsStored
    NoOrphanObjects OnlyNewestWorks RedeemedOnce RevokedStaysRefused
