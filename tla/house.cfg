SPECIFICATION HouseSpec
CONSTANTS
    ann = ann
    bob = bob
    cat = cat
    ring = ring
    vase = vase
    usdc = usdc
    wsol = wsol
    Users = {ann, bob, cat}
    NoKey = NoKey
    MaxAuthenticators = 2
    Admins = {ann}
    Usdc = usdc
    Wsol = wsol
    OtherMints = {}
    NoValue = NoValue
    Setups = {}
    RateInputs = {}
    DurationInputs = {}
    KeyLists = {}
    Bps = 10
    Word = 256
    Sellers = {ann}
    Bidders = {ann, bob, cat}
    Items = {ring, vase}
    Funds <- MCFunds
    FirstHolder <- MCFirstHolder
    NoTerms = NoTerms
    MaxAuctions = 2
    MaxTime = 3
    Listings <- MCTwoDigital
    BidAmounts = {1, 2, 3}
    Reports = {}
    Trailings = {}
    HouseRates <- MCHouseRates
    HouseAuthenticators <- MCNoAuthenticators
INVARIANTS
    EscrowBacksBids
    LeaderHoldsHighestBid
    NoTies
    NoncesAreDense
    ClosedOnlyAfterEndDate
PROPERTIES
    ImplementsExchange
    SettlementIsAtomicSwap
    VaultPaysOwnerOrPrice
    ItemLeavesToWinner
    PriceOnlyRises
    StatusOnlyForward
SYMMETRY MCAlikeBidders
CHECK_DEADLOCK FALSE
