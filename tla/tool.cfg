SPECIFICATION FairSpec
CONSTANTS
    alice = alice
    bob = bob
    nobody = nobody
    w1 = w1
    w2 = w2
    nowindow = nowindow
    Clients <- MCClients
    Windows <- MCWindows
    NoClient = nobody
    NoWindow = nowindow
    MaxPolls = 2
    MaxGeneration = 2
INVARIANTS
    TypeOK
    NothingLeftAtClose
    UsesLiveViews
    CompleteIsTrue
PROPERTY EveryCommandEnds
