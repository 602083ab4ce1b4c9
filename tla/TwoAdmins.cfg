CONSTANTS
    u1 = u1
    u2 = u2
    u3 = u3
    r1 = r1
    r2 = r2
    Before = Before
    None = None
    NotCreated = NotCreated
    Deleted = Deleted
    Ownership = Ownership
    Users = {u1, u2, u3}
    Requests = {r1, r2}
SYMMETRY Symmetry
SPECIFICATION Spec
CHECK_DEADLOCK FALSE
INVARIANT OnlyOwnerIsAdmin
