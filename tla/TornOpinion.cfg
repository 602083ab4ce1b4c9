CONSTANTS
    u1 = u1
    r1 = r1
    r2 = r2
    r3 = r3
    None = None
    NoLikert = None
    NoProject = NoProject
    Users = {u1}
    Owner = u1
    Requests = {r1, r2, r3}
    Unit = 24
    MaxExperts = 2
    LikertValues <- MCLikertValues
    Bounds <- MCBounds
    Inputs <- TearingInputs
    Scales <- OneScale
    ResultColumns <- CalculationResultColumns
    ResultValues <- MCResultValues
    ResultCheck <- CalculationResultCheck
    Compromises <- ResultsInAnyOrder
SYMMETRY Symmetry
SPECIFICATION RequestSpec
CHECK_DEADLOCK FALSE
INVARIANT OpinionsAsSubmitted
