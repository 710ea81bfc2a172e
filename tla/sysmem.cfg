SPECIFICATION Spec
CONSTANTS
    queue = queue
    pnp = pnp
    nobody = nobody
    nowhere = nowhere
    a1 = a1
    a2 = a2
    Places <- MCPlaces
    Addresses <- MCAddresses
    Tiers <- MCTiers
    ViewAlign = 4
    WordModulus = 16
    MapRequests <- MCMapRequests
SYMMETRY Symmetry
INVARIANTS
    TypeOK
    ResourcesAccounted
    AdvertisedWindowReaches
    NoMagicLeft
    ViewsInsideBuffer
