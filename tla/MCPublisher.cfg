CONSTANTS
    Order <- MCOrder
    Cycle <- MCCycle
    PluginTimeout = 1
    CounterModulus = 3
    Threads = {t1}
    States <- MCStates
    MaxLag = 1
    MaxTime = 4
SPECIFICATION Spec
INVARIANTS BusFresh LinkLossReported
PROPERTIES CounterContinuity CapabilitiesStay NeverOlder
