SPECIFICATION Spec
CONSTANTS
    Owners = {1, 2}
    Threshold = 2
    Chains <- AllChains
    SafeRows <- Absent
    Account <- OnChain
    Balance = 2
    Bodies <- SomeBodies
    Fees <- SomeFees
    Seqs = {1}
    Asks = {0, 2}
    Doubles = {0, 1, 2, 3, 4}
    MaxSafe = 4
    Null = Null
    Undefined = Undefined
CHECK_DEADLOCK FALSE
INVARIANT HonestSignatureVerifies
