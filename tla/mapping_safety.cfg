SPECIFICATION Spec
CONSTANTS
    Files = {f1, f2}
    NoFile = NoFile
    NumTlb = 3
    Vas = {v1, v2}
    NoVa = NoVa
    Bar = Bar
    Sysmem = Sysmem
    MaxGen = 2
SYMMETRY Symmetry
INVARIANTS
    TypeOK
    ListedMappingsOwned
    BitmapMatchesOwners
    RestrictedNoMappings
    HoldersCurrent
    OneRecordPerView
    QuietCleanupComplete
    ReleasedDeviceUnmapped
PROPERTIES
    ImplementsLease
    ConfigureOwnWindowOnly
