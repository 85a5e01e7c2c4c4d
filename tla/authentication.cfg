SPECIFICATION Spec
CONSTANTS
    ann = ann
    bob = bob
    cat = cat
    dan = dan
    ring = ring
    usdc = usdc
    wsol = wsol
    Users = {ann, cat, dan}
    NoKey = NoKey
    MaxAuthenticators = 2
    Admins = {ann, dan}
    Usdc = usdc
    Wsol = wsol
    OtherMints = {}
    NoValue = NoValue
    Setups <- MCSetupsWithKey
    RateInputs = {}
    DurationInputs = {}
    KeyLists <- MCKeyLists
    Bps = 10
    Word = 256
    Sellers = {ann}
    Bidders = {cat}
    Items = {ring}
    Funds <- MCFunds
    FirstHolder <- MCFirstHolder
    NoTerms = NoTerms
    MaxAuctions = 2
    MaxTime = 2
    Listings <- MCBothKinds
    BidAmounts = {2}
    Reports <- MCReports
    Trailings <- MCTrailings
INVARIANTS
    
    VerdictRestsOnReport
    RegistryWellFormed
PROPERTIES
    VerdictByRegisteredReporter
