\* Two setups and a verifier; two changes by other tools.
SPECIFICATION FairSpec
CONSTANTS
    public = public
    legacy = legacy
    Resolvers <- MCResolvers
    Multicoin <- MCMulticoin
    NoResolver = NoResolver
    Sol = Sol
    Unset = Unset
    Foreign = {other}
    MaxChanges = 2
    Setups = {s1, s2}
    Verifiers = {v1}
    AddressBytes = 32
INVARIANTS
    TypeOK
    PassedMeansResolves
PROPERTIES
    ReadReportsAreTrue
    EveryRunEnds
CHECK_DEADLOCK FALSE
