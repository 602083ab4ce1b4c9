CONSTANTS
    Names = {"ann", "bob"}
    Empty = ""
    Bad = "<b>"
    Nobody = Nobody
    MaxCalls = 1
    MaxChanges = 2
SPECIFICATION Spec
INVARIANT RefusedStays
