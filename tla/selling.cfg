SPECIFICATION CliSpec
CONSTANTS
    ann = ann
    bob = bob
    cat = cat
    root = root
    left = left
    right = right
    ring = ring
    vase = vase
    lamp = lamp
    usdc = usdc
    wsol = wsol
    gold = gold
    silver = silver
    tin = tin
    Users = {ann, bob, root}
    NoKey = NoKey
    MaxAuthenticators = 2
    Admins = {root}
    Usdc = usdc
    Wsol = wsol
    OtherMints = {gold, silver}
    NoValue = NoValue
    Setups = {}
    RateInputs = {}
    DurationInputs = {}
    KeyLists = {}
    Bps = 10
    Word = 256
    Sellers = {ann}
    Bidders = {}
    Items = {ring, vase}
    Funds <- MCFunds
    FirstHolder <- MCFirstHolder
    NoTerms = NoTerms
    MaxAuctions = 2
    MaxTime = 2
    Listings = {}
    BidAmounts = {}
    Reports = {}
    Trailings = {}
    Terminals = {left, right}
    Mode <- MCMode
    Wallets <- MCEveryWallet
    Budget <- MCTwoAndOne
    MaxCommands = 2
    Kinds <- MCSelling
    SeedAdmins = {root, NoKey}
    NoJob = NoJob
    InitSetup <- MCInitSetup
    StartDelay = 1
    MintAuthority <- MCMintAuthority
    Wishes <- MCAllWishes
    AskedKeys = {}
    Asks = {1}
    Founded = {root}
    Opened = {}
INVARIANTS
    CliTypeOK
    CreateReportIsTrue
    ListedItemIsInItsVault
    OnlySellerHasTheToken
SYMMETRY MCFreshMints
CHECK_DEADLOCK FALSE
