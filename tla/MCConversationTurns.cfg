\* Bounded messages come to an end: a state without successors is no deadlock.
SPECIFICATION Spec
CONSTANTS
    Agents = {ana, ben}
    MaxMessages = 3
    Reports = {}
    Hidden = {}
    Runner = Runner
    Nobody = Nobody
    Offers <- MCBoth
    Slots = 2
    MaxAged = 1
    MaxFaults = 1
SYMMETRY MCSymmetry
INVARIANTS
    AtMostOnce
    TaintFollows
    HalfTurnsStayOut
PROPERTY ImplementsContract
CHECK_DEADLOCK FALSE
