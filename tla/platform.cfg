SPECIFICATION Spec
CONSTANTS
    ann = ann
    bob = bob
    cat = cat
    dan = dan
    ring = ring
    usdc = usdc
    wsol = wsol
    Users = {ann, bob, cat}
    NoKey = NoKey
    MaxAuthenticators = 2
    Admins = {ann, cat}
    Usdc = usdc
    Wsol = wsol
    OtherMints = {}
    NoValue = NoValue
    Setups <- MCSetups
    RateInputs = {20}
    DurationInputs = {1, 2}
    KeyLists <- MCNoKeys
    Bps = 10
    Word = 256
    Sellers = {ann}
    Bidders = {bob, cat}
    Items = {ring}
    Funds <- MCFunds
    FirstHolder <- MCFirstHolder
    NoTerms = NoTerms
    MaxAuctions = 1
    MaxTime = 2
    Listings <- MCDigital
    BidAmounts = {1, 2, 3}
    Reports = {}
    Trailings = {}
INVARIANTS
    TypeOK
    TokensConserved
PROPERTIES
    TreasuryDrainsToAdmin
