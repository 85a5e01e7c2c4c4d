SPECIFICATION CliSpec
CONSTANTS
    ann = ann
    bob = bob
    cat = cat
    root = root
    left = left
    right = right
    ring = ring
    vase = vase
    lamp = lamp
    usdc = usdc
    wsol = wsol
    gold = gold
    silver = silver
    tin = tin
    Users = {ann, bob, cat, root}
    NoKey = NoKey
    MaxAuthenticators = 2
    Admins = {root, cat}
    Usdc = usdc
    Wsol = wsol
    OtherMints = {}
    NoValue = NoValue
    Setups = {}
    RateInputs = {}
    DurationInputs = {}
    KeyLists = {}
    Bps = 10
    Word = 256
    Sellers = {ann}
    Bidders = {}
    Items = {ring}
    Funds <- MCFunds
    FirstHolder <- MCFirstHolder
    NoTerms = NoTerms
    MaxAuctions = 2
    MaxTime = 2
    Listings = {}
    BidAmounts = {}
    Reports = {}
    Trailings = {}
    Terminals = {left}
    Mode <- MCDefaultMode
    Wallets <- MCBobsWallet
    Budget <- MCTwo
    MaxCommands = 2
    Kinds <- MCLooking
    SeedAdmins = {NoKey}
    NoJob = NoJob
    InitSetup <- MCInitSetup
    StartDelay = 1
    MintAuthority <- MCMintAuthority
    Wishes = {}
    AskedKeys <- MCNoKeys
    Asks = {1}
    Founded = {}
    Opened <- MCOpened
INVARIANTS
    PlatformIsFound
CHECK_DEADLOCK FALSE
