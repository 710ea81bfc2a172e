SPECIFICATION FairSpec
CONSTANTS
    queue = queue
    pnp = pnp
    nobody = nobody
    MaxTries = 1
    MaxSuspends = 0
    MaxRebalances = 0
    MaxFlaps = 0
PROPERTY PollingRecovers
