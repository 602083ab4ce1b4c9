CONSTANTS
    u1 = u1
    u2 = u2
    r1 = r1
    r2 = r2
    None = None
    NoLikert = None
    NoProject = NoProject
    Users = {u1, u2}
    Owner = u1
    Requests = {r1, r2}
    Unit = 24
    MaxExperts = 2
    LikertValues <- MCLikertValues
    Bounds <- MCBounds
    Inputs <- TwoInputs
    Scales <- TwoScales
    ResultColumns <- CalculationResultColumns
    ResultValues <- MCResultValues
    ResultCheck <- CalculationResultCheck
    Compromises <- ResultsInAnyOrder
SYMMETRY Symmetry
SPECIFICATION Spec
CHECK_DEADLOCK FALSE
INVARIANTS NoOrphanRows UndisturbedIsFresh
