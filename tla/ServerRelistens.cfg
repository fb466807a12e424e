CONSTANTS
    WaitModes = {TRUE}
    Commands = {}
    MaxStarts = 1
    MaxStops = 0
    MaxClients = 3
    MaxCommands = 0
    MaxCallbacks = 0
    MaxFaults = 0
    MaxEvents = 4
SPECIFICATION FairSpec
CHECK_DEADLOCK FALSE
PROPERTY Relistens
