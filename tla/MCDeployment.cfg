\* Two interchangeable wallets, two tokens, one call that configures.
SPECIFICATION Spec
CONSTANTS
    Wallets = {w1, w2}
    Countries = {none, cuba}
    NoCountry = none
    Year = 1
    Limits = {1}
    MaxSupply = 2
    MaxTime = 2
    MaxConfig = 1
    MaxZero = 1
    Ofac = {cuba}
SYMMETRY Sym
INVARIANTS
    TypeOK
    SupplyIsConserved
    MirrorFollows
    HoldersAreCounted
    RestrictedBeforeIssued
    ConfiguredInOrder
PROPERTIES
    NoEarlySale
CHECK_DEADLOCK FALSE
