SPECIFICATION Spec
CONSTANTS
    o1 = o1
    o2 = o2
    o3 = o3
    None = None
    Null = Null
    Undefined = Undefined
    QueueNumbers = {0, 1, 8, 9, 10, 11}
    Starts = {0, 1, 8, 9, 10}
    MaxRows = 3
    KeyOwners = {1, 2, 3}
    SigningThreshold = 2
    SigningChains <- AllChains
    SafeRows <- KnownSafes
    Account <- OnChain
    Balance = 2
    SignedBodies <- SomeSignedBodies
    Fees <- SomeFees
    Seqs = {1}
    Asks <- SomeAsks
    Doubles <- SomeDoubles
    MaxSafe = 8
    MovingBodies <- SomeMovingBodies
    Rewards = {0, 1, 2, 9}
    Owners <- TwoOwners
    Threshold = 2
    Txs = {1}
    TxReqs = {1, 2, 3, 4}
    TxOps = {"create", "confirm", "reject", "delete", "send"}
    AskedSeqs = {0}
    Outcomes = {"timeout", "refused"}
    IndexerLag = 0
    MaxTxInFlight = 1
    MaxTxFailures = 0
    Users <- TwoOwners
    Thresholds = {2}
    Safes = {1}
    SafeReqs = {1, 2, 3}
    SafeOps = {"create", "confirm", "delete", "recover"}
    MaxSafesInFlight = 2
    MaxSafeFailures = 1
    SerialUsers <- ThreeOwners
    SerialThresholds = {2}
    SerialRows = {1, 2}
    SerialReqs = {1, 2, 3, 4}
    SerialOps = {"create", "confirm", "delete", "recover"}
    Balances <- SomeBalances
    Clients = {1, 2, 3}
    AddressOf <- SomeAddresses
    SafeOwners = {"ann", "bob", "cyd"}
    Creator = "ann"
    SafeChain = "B"
    NotifiedChains = {"A", "B"}
    Proposals <- SomeProposals
    LastDay = 1
    MaxRaised = 1
    Powers = {1, 3}
    Bonds = {7, 9}
    MaxVotes = 3
    StakeReqs = {1, 2}
    Validators = {1, 2, 3}
    IdentityOf <- SomeIdentities
    Pictures = {"p"}
    NoIdentity = "none"
    Default = "default"
    MaxStake = 1
    MaxChanges = 2
    Instances = {1, 2}
    Files <- ChainFiles
    GasOf <- Gas
    Explored = {"A"}
INVARIANTS
    TypeOK
    LoopComputesNextQueueSeq
    SuggestsFirstFree
    ExecutedIsShown
    AgreeingIsExecutable
    AmountsAgree
    PaidIsShown
    StatusIsExplained
    ShownCreatedIsConfirmed
    CreatedHasEveryKey
    ConfirmedIsCreated
    OneSafePerHash
    OneUserPerAddress
    ReadWasSeen
    VotingIsAnnounced
    TallyAddsUp
    TurnoutIsComplete
    ListedChainIsFound
PROPERTIES
    SettledIsFinal
    SettledPictureStays
CHECK_DEADLOCK FALSE
