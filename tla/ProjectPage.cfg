CONSTANTS
    p1 = p1
    p2 = p2
    me = me
    ann = ann
    List = List
    NoOpinion = NoOpinion
    NoResult = NoResult
    Blank = Blank
    Nothing = Nothing
    NoDialog = NoDialog
    Projects = {p1, p2}
    Busy = {p1}
    Me = me
    Others = {ann}
    Estimates <- MCEstimates
    TheirEstimates <- MCTheirs
    Given <- MCGiven
    Typed <- MCTyped
    ScaleMin = 0
    ScaleMax = 1
    MaxInFlight = 2
    MaxRequests = 1
    MaxSeen = 2
    MaxChanges = 2
SPECIFICATION MCSpec
INVARIANTS TypeOK SettledIsFresh OfferedIsAccepted UntouchedForm
PROPERTY BusyEnds
