SPECIFICATION Spec
CONSTANTS
    u1 = u1
    u2 = u2
    u3 = u3
    None = None
    Users <- Users3
    Thresholds = {2}
    Safes = {1}
    Reqs = {1, 2, 3}
    Ops = {"create", "confirm"}
    MaxInFlight = 2
    MaxFailures = 0
SYMMETRY Symmetry
INVARIANT ConfirmedIsCreated
CHECK_DEADLOCK FALSE
