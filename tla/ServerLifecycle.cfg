CONSTANTS
    WaitModes = {TRUE, FALSE}
    Commands = {"pause", "find"}
    MaxStarts = 2
    MaxStops = 1
    MaxClients = 2
    MaxCommands = 2
    MaxCallbacks = 2
    MaxFaults = 1
    MaxEvents = 6
SPECIFICATION FairSpec
CHECK_DEADLOCK FALSE
INVARIANTS NoThreadOverwritten OpenedTwiceOnlyByRestart NullOnlyBeforeStarted
PROPERTIES StartReturns FirstLossNoticed 
