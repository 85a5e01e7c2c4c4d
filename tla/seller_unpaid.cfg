SPECIFICATION HouseSpec
CONSTANTS
    ann = ann
    bob = bob
    cat = cat
    ring = ring
    vase = vase
    usdc = usdc
    wsol = wsol
    Users = {ann, bob, cat}
    NoKey = NoKey
    MaxAuthenticators = 2
    Admins = {ann}
    Usdc = usdc
    Wsol = wsol
    OtherMints = {}
    NoValue = NoValue
    Setups = {}
    RateInputs = {}
    DurationInputs = {}
    KeyLists = {}
    Bps = 10
    Word = 256
    Sellers = {ann}
    Bidders = {bob, cat}
    Items = {ring}
    Funds <- MCFunds
    FirstHolder <- MCFirstHolder
    NoTerms = NoTerms
    MaxAuctions = 1
    MaxTime = 2
    Listings <- MCOneListing
    BidAmounts = {1, 2, 3}
    Reports = {}
    Trailings = {}
    HouseRates <- MCHouseRates
    HouseAuthenticators <- MCHouseAuthenticators
PROPERTIES
    SettlementPaysSeller
CHECK_DEADLOCK FALSE
