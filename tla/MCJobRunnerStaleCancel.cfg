SPECIFICATION RunningSpec
CONSTANTS
    Jobs = {j1, j2}
    NoJob = NoJob
    Profiles <- MCRelays
    MaxFaults = 0
PROPERTY CancelledRelayStaysHome
CHECK_DEADLOCK FALSE
