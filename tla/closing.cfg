SPECIFICATION CliSpec
CONSTANTS
    ann = ann
    bob = bob
    cat = cat
    root = root
    left = left
    right = right
    ring = ring
    vase = vase
    lamp = lamp
    usdc = usdc
    wsol = wsol
    gold = gold
    silver = silver
    tin = tin
    Users = {ann, bob, cat, root}
    NoKey = NoKey
    MaxAuthenticators = 2
    Admins = {root, cat}
    Usdc = usdc
    Wsol = wsol
    OtherMints = {}
    NoValue = NoValue
    Setups = {}
    RateInputs = {}
    DurationInputs = {}
    KeyLists = {}
    Bps = 10
    Word = 256
    Sellers = {ann}
    Bidders = {cat}
    Items = {ring}
    Funds <- MCFunds
    FirstHolder <- MCFirstHolder
    NoTerms = NoTerms
    MaxAuctions = 2
    MaxTime = 2
    Listings <- MCListing
    BidAmounts = {2}
    Reports = {}
    Trailings = {}
    Terminals = {left}
    Mode <- MCMode
    Wallets <- MCBobsWallet
    Budget <- MCTwo
    MaxCommands = 2
    Kinds <- MCClosing
    SeedAdmins = {root}
    NoJob = NoJob
    InitSetup <- MCInitSetup
    StartDelay = 1
    MintAuthority <- MCMintAuthority
    Wishes = {}
    AskedKeys <- MCNoKeys
    Asks = {1}
    Founded = {root}
    Opened <- MCOpened
INVARIANTS
    CloseReportIsTrue
    EscrowWithinAsked
PROPERTIES
    SettlesAsListed
CHECK_DEADLOCK FALSE
