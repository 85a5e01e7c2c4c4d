SPECIFICATION Spec
CONSTANTS
    root = root
    ada = ada
    ben = ben
    cyd = cyd
    dee = dee
    Users = {root, ada, ben, cyd, dee}
    NoKey = NoKey
    MaxAuthenticators = 4
    Admin = root
    KeyLists <- MCKeyLists
    FirstList <- MCFirstList
INVARIANTS
    AssignsWhileAnyRegistered
