\* The contract's nine frames with the largest lag that fits every stale window.
CONSTANTS
    Order <- kOrder
    Cycle <- MCCycle
    Stale <- MCStale
    Watched = {3}
    MaxLag = 4
    MaxTime = 9
SPECIFICATION FairSpec
INVARIANTS NoDrift NeverStale
PROPERTIES NoBurst KeepsServing
