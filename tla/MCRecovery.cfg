\* Two interchangeable wallets; can everything a wallet holds be burned?
SPECIFICATION Spec
CONSTANTS
    Wallets = {w1, w2}
    Countries = {none, cuba}
    NoCountry = none
    Year = 1
    Limits = {1}
    MaxSupply = 2
    MaxTime = 2
    MaxConfig = 1
    MaxZero = 0
    Ofac = {cuba}
SYMMETRY Sym
INVARIANTS
    BurnAlwaysAllowed
CHECK_DEADLOCK FALSE
