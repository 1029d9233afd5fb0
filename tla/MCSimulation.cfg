SPECIFICATION Spec
CONSTANTS
    Reqs = {r1, r2}
    Chains = {"aura", "evmos"}
    Safes <- SomeSafes
    Undefined = Undefined
CHECK_DEADLOCK FALSE
INVARIANTS
    SimulationAnswers
