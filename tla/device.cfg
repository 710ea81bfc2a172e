SPECIFICATION MCSpec
CONSTANTS
    Files = {f1, f2}
    NoFile = NoFile
    NumTlb = 2
    Vas = {v1}
    NoVa = NoVa
    Bar = Bar
    Sysmem = Sysmem
    MaxGen = 2
    queue = queue
    pnp = pnp
    nobody = nobody
    MaxTries = 1
    MaxSuspends = 1
    MaxRebalances = 1
SYMMETRY FileSymmetry
CONSTRAINT OrderlyReset
INVARIANTS
    UserViewsOffTheBus
    StaleOnlyByReset
