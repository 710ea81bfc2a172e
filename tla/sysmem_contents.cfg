SPECIFICATION Spec
CONSTANTS
    queue = queue
    pnp = pnp
    nobody = nobody
    nowhere = nowhere
    a1 = a1
    a2 = a2
    Places <- AlignedPlace
    Addresses <- OneAddress
    Tiers <- MCTiers
    ViewAlign = 4
    WordModulus = 16
    MapRequests <- MCMapRequests
PROPERTY ContentsSurvive
