SPECIFICATION FairSpec
CONSTANTS
    queue = queue
    pnp = pnp
    nobody = nobody
    MaxTries = 2
    MaxSuspends = 2
    MaxRebalances = 1
    MaxFlaps = 2
INVARIANTS
    TypeOK
    NoMmioOffTheBus
    UnrestrictedIsWhole
    SavedImageGood
    PendingIsMarked
    DarkWhileRestricted
PROPERTY Recovers
