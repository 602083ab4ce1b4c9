CONSTANTS
    u1 = u1
    u2 = u2
    r1 = r1
    r2 = r2
    r3 = r3
    None = None
    NoLikert = None
    NoProject = NoProject
    Users = {u1, u2}
    Owner = u1
    Requests = {r1, r2, r3}
    Unit = 24
    MaxExperts = 2
    LikertValues <- MCLikertValues
    Bounds <- MCBounds
    Inputs <- TwoInputs
    Scales <- OneScale
    ResultColumns <- Users
    ResultValues <- NumberOrNone
    ResultCheck <- NoCheck
    Compromises <- Provenance
SPECIFICATION SerialSpec
CHECK_DEADLOCK FALSE
INVARIANT OpinionsAsSubmitted
PROPERTY CacheSpec
