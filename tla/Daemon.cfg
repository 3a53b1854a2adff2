SPECIFICATION FairSpec
INVARIANTS CallbacksSafe SendsOnOpenBus CleanExit
PROPERTIES ShutdownCompletes FailedStartExits
