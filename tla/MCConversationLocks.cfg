\* Bounded messages come to an end: a state without successors is no deadlock.
SPECIFICATION FairSpec
CONSTANTS
    Agents = {ana, ben}
    MaxMessages = 2
    Reports = {r1}
    Hidden = {ana}
    Runner = Runner
    Nobody = Nobody
    Offers <- MCRelay
    Slots = 1
    MaxAged = 1
    MaxFaults = 0
PROPERTIES
    KeptInOrder
    Answered
CHECK_DEADLOCK FALSE
