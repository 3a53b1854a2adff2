CONSTANTS
    PluginTimeout = 4
    PollWait = 2
    PublishGap = 1
    Timeout = 4
    GameLamps = {"PARK_BRAKE"}
    MaxLag = 1
    ForzaTime = 11
    MaxQueue = 2
    Second = 3
    Ticks = {2, 3}
    Stalls = {7}
    LinkWait = 1
    SimLag = 4
    SimTime = 140
SPECIFICATION Spec
INVARIANTS GameTracked ScriptKept
PROPERTIES FeedSession NoFalseLoss
